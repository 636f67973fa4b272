------------------------- MODULE SharedData_proofs --------------------------
(***************************************************************************)
(* Proofs about SharedData for every set of threads, every number of       *)
(* values and every bound of the blocks and the calls.                     *)
(*                                                                         *)
(* SharedDataSteps_proofs shows that the steps of a call keep the          *)
(* invariant, and that a call may begin whose steps are sound. Here the    *)
(* steps of every call are put together from their end: each piece is      *)
(* shown to be sound before any list that gives up what it takes. At the   *)
(* end of the module are the start, where the references are counted, and  *)
(* what the invariant says between calls, where all of them are in places. *)
(***************************************************************************)
EXTENDS SharedDataSteps_proofs, WellFoundedInduction

\* A list, and what follows it.
Join(a, r) == a \o r

\* A list takes first only a reference the thread carries or has.
Safe(K, L) == \A b \in Blocks : HeadIs(L, "inc", b) => Carried(L, b) >= 1 \/ b \in K
\* A list of steps for a call that deletes nothing and is sound.
Well(t, K, L) == L \in Seq(StepSet(t)) /\ DelIn(L) = {} /\ Sound(K, L) /\ \A b \in Blocks : Carried(L, b) \in Nat
\* And it may follow any step.
Good(t, K, L) == Well(t, K, L) /\ Safe(K, L)
\* Two lists set, allocate and write the same.
Like(L, r) == SetIn(L) = SetIn(r) /\ NewIn(L) = NewIn(r) /\ WrittenIn(L) = WrittenIn(r) /\ Open(L) = Open(r)

\* The empty list is good.
LEMMA GoodNothing == ASSUME NEW t, NEW K PROVE Good(t, K, <<>>)
<1>1. <<>> \in Seq(StepSet(t))
  BY EmptySeq
<1>2. \A b \in Blocks : Carried(<<>>, b) \in Nat
  BY NothingLeft
<1>3. Sound(K, <<>>) /\ DelIn(<<>>) = {}
  BY NothingLeft, SoundEmpty
<1> QED BY <1>1, <1>2, <1>3 DEF Good, Well, Safe, HeadIs

\* The step after a step: what Follows asks of it.
LEMMA SafeFollows ==
  ASSUME NEW t \in Nat, NEW K, NEW r, Good(t, K, r), r # <<>>, Head(r).op = "inc"
  PROVE  Carried(r, Head(r).block) >= 1 \/ Head(r).block \in K
<1>1. Head(r) \in StepSet(t)
  BY Split DEF Good, Well
<1>2. Head(r).block \in Blocks
  BY <1>1, StepShape
<1> QED BY <1>2 DEF Good, Safe, HeadIs

\* A step that is not a delete deletes nothing.
LEMMA DeletesNothing ==
  ASSUME NEW t, NEW x \in StepSet(t), NEW r \in Seq(StepSet(t)), x.op # "delete"
  PROVE  DelIn(Before(x, r)) = DelIn(r)
<1> DEFINE s == Before(x, r)
<1>1. s \in Seq(StepSet(t)) /\ s # <<>> /\ Head(s) = x /\ Tail(s) = r
  BY Prepend
<1> HIDE DEF s
<1>2. DelIn(s) = DelIn(r)
  BY <1>1, DelInSplit
<1> QED BY <1>2 DEF s

\* One step more.
LEMMA WellBefore ==
  ASSUME NEW t \in Nat, NEW K, NEW r, Good(t, K, r), NEW x \in StepSet(t), x.op \in {"inc", "dec", "put", "new", "set", "edit"},
         \A b \in Blocks : Carried(r, b) + Weight(x, r, b) \in Nat, Follows(K, x, r)
  PROVE  Well(t, K, Before(x, r)) /\ Before(x, r) # <<>> /\ Head(Before(x, r)) = x
<1> DEFINE s == Before(x, r)
<1>0. r \in Seq(StepSet(t)) /\ Sound(K, r) /\ DelIn(r) = {}
  BY DEF Good, Well
<1>1. s \in Seq(StepSet(t)) /\ s # <<>> /\ Head(s) = x /\ Tail(s) = r
  BY <1>0, Prepend
<1>2. DelIn(s) = DelIn(r)
  BY <1>0, DeletesNothing
<1>3. \A b : Carried(s, b) = Carried(r, b) + Weight(x, r, b)
  BY <1>0, Prepend
<1>4. Sound(K, s) <=> (\A b \in Blocks : Carried(s, b) >= 0) /\ Follows(K, x, r) /\ Sound(K, r)
  BY <1>0, PrependSound
<1> HIDE DEF s
<1>5. \A b \in Blocks : Carried(s, b) \in Nat /\ Carried(s, b) >= 0
  BY <1>3
<1> QED BY <1>0, <1>1, <1>2, <1>4, <1>5 DEF Well, s

\* A reference is taken before a list that gives one up.
LEMMA DoInc ==
  ASSUME NEW t \in Nat, NEW K, NEW r, Good(t, K, r), NEW c \in Blocks, c \notin WrittenIn(r), Carried(r, c) >= 1,
         NEW L, L = Join(Inc(c), r)
  PROVE  /\ Well(t, K, L) /\ Like(L, r) /\ L # <<>>
         /\ \A b \in Blocks : Carried(L, b) = Carried(r, b) - One(c, b)
         /\ \A b : HeadIs(L, "inc", b) <=> b = c
         /\ c \in K \/ Carried(r, c) >= 2 => Safe(K, L)
<1> DEFINE x == [op |-> "inc", block |-> c]
<1>0. x \in StepSet(t) /\ x.op = "inc" /\ x.block = c
  BY DEF StepSet
<1>1. L = Before(x, r)
  BY DEF Join, Before, Inc
<1> HIDE DEF x
<1>2. Like(L, r)
  BY <1>0, <1>1, PrependQuiet DEF Good, Well, Like
<1>3. \A b : Weight(x, r, b) = 0 - One(c, b)
  BY <1>0 DEF Weight, Spends, Gains, IsNew, One
<1>4. \A b \in Blocks : Carried(L, b) = Carried(r, b) - One(c, b) /\ Carried(L, b) \in Nat
  <2> SUFFICES ASSUME NEW b \in Blocks PROVE Carried(L, b) = Carried(r, b) - One(c, b) /\ Carried(L, b) \in Nat
    OBVIOUS
  <2>1. Carried(L, b) = Carried(r, b) + Weight(x, r, b)
    BY <1>0, <1>1, Prepend DEF Good, Well
  <2>2. Carried(r, b) \in Nat
    BY DEF Good, Well
  <2> QED BY <2>1, <2>2, <1>3 DEF One
<1>5. Follows(K, x, r)
  BY <1>0, SafeFollows DEF Follows
<1>6. \A b \in Blocks : Carried(r, b) + Weight(x, r, b) \in Nat
  <2> SUFFICES ASSUME NEW b \in Blocks PROVE Carried(r, b) + Weight(x, r, b) \in Nat
    OBVIOUS
  <2>1. Carried(r, b) \in Nat
    BY DEF Good, Well
  <2> QED BY <2>1, <1>3 DEF One
<1>7. Well(t, K, L) /\ L # <<>> /\ Head(L) = x
  BY <1>0, <1>1, <1>5, <1>6, WellBefore
<1>8. \A b : HeadIs(L, "inc", b) <=> b = c
  BY <1>0, <1>7 DEF HeadIs
<1>9. ASSUME Carried(r, c) >= 2 PROVE Carried(L, c) >= 1
  <2>1. Carried(L, c) = Carried(r, c) - 1 /\ Carried(r, c) \in Nat
    BY <1>4 DEF One, Good, Well
  <2> QED BY <2>1, <1>9
<1>10. c \in K \/ Carried(r, c) >= 2 => Safe(K, L)
  BY <1>8, <1>9 DEF Safe
<1> QED BY <1>2, <1>4, <1>7, <1>8, <1>10

\* Data is released before a list.
LEMMA DoRelease ==
  ASSUME NEW t \in Nat, NEW K, NEW r, Good(t, K, r), NEW d \in DataSet, d.at \notin WrittenIn(r),
         NEW L, L = Join(Release(d), r)
  PROVE  /\ Good(t, K, L) /\ Like(L, r)
         /\ \A b \in Blocks : Carried(L, b) = Carried(r, b) + One(d.at, b)
         /\ L # <<>> \/ r = <<>>
<1> DEFINE c == d.at
           x == [op |-> "dec", block |-> c]
<1>0. r \in Seq(StepSet(t)) /\ \A b \in Blocks : Carried(r, b) \in Nat
  BY DEF Good, Well
<1>1. CASE ~Shares(d)
  <2>1. L = r
    BY <1>0, <1>1, ConcatEmptySeq DEF Join, Release
  <2>2. \A b \in Blocks : One(d.at, b) = 0
    BY <1>1, PlacesDiffer DEF Shares, One
  <2> QED BY <1>0, <2>1, <2>2 DEF Like
<1>2. CASE Shares(d)
  <2>0. x \in StepSet(t) /\ x.op = "dec" /\ x.block = c /\ c \in Blocks
    BY <1>2, DataShape DEF StepSet
  <2>1. L = Before(x, r)
    BY <1>2 DEF Join, Before, Release
  <2> HIDE DEF x, c
  <2>2. Like(L, r)
    BY <1>0, <2>0, <2>1, PrependQuiet DEF Like
  <2>3. \A b : Weight(x, r, b) = One(c, b) /\ One(c, b) \in Nat
    BY <2>0 DEF Weight, Spends, Gains, IsNew, One
  <2>4. \A b \in Blocks : Carried(L, b) = Carried(r, b) + One(c, b)
    BY <1>0, <2>0, <2>1, <2>3, Prepend
  <2>5. Follows(K, x, r)
    BY <2>0, SafeFollows DEF Follows, c
  <2>6. \A b \in Blocks : Carried(r, b) + Weight(x, r, b) \in Nat
    BY <1>0, <2>3
  <2>7. Well(t, K, L) /\ L # <<>> /\ Head(L) = x
    BY <2>0, <2>1, <2>5, <2>6, WellBefore
  <2>8. Safe(K, L)
    BY <2>0, <2>7 DEF Safe, HeadIs
  <2> QED BY <2>2, <2>4, <2>7, <2>8 DEF Good, c
<1> QED BY <1>1, <1>2

\* Hold() leaves a list alone, or takes one more reference.
LEMMA DoHold ==
  ASSUME NEW t \in Nat, NEW K, NEW r, Good(t, K, r), NEW d \in DataSet, d.at \notin WrittenIn(r),
         Shares(d) => Carried(r, d.at) >= 1,
         NEW L, L = Join(Hold(d), r)
  PROVE  /\ Well(t, K, L) /\ Like(L, r)
         /\ \A b \in Blocks : Carried(L, b) = Carried(r, b) - One(d.at, b)
         /\ \A b : Shares(d) /\ HeadIs(L, "inc", b) => b = d.at
         /\ ~Shares(d) \/ d.at \in K \/ Carried(r, d.at) >= 2 => Safe(K, L)
         /\ L # <<>> \/ r = <<>>
<1>0. r \in Seq(StepSet(t)) /\ \A b \in Blocks : Carried(r, b) \in Nat
  BY DEF Good, Well
<1>1. CASE ~Shares(d)
  <2>1. L = r
    BY <1>0, <1>1, ConcatEmptySeq DEF Join, Hold
  <2>2. \A b \in Blocks : One(d.at, b) = 0
    BY <1>1, PlacesDiffer DEF Shares, One
  <2> QED BY <1>0, <1>1, <2>1, <2>2 DEF Like, Good
<1>2. CASE Shares(d)
  <2>1. d.at \in Blocks /\ L = Join(Inc(d.at), r) /\ Carried(r, d.at) >= 1
    BY <1>2, DataShape DEF Hold
  <2> QED BY <2>1, <1>2, DoInc
<1> QED BY <1>1, <1>2

\* A step that sets nothing,
LEMMA SetsNothing ==
  ASSUME NEW t, NEW x \in StepSet(t), NEW r \in Seq(StepSet(t)), x.op # "set"
  PROVE  SetIn(Before(x, r)) = SetIn(r)
<1> DEFINE s == Before(x, r)
<1>1. s \in Seq(StepSet(t)) /\ s # <<>> /\ Head(s) = x /\ Tail(s) = r
  BY Prepend
<1> HIDE DEF s
<1>2. SetIn(s) = SetIn(r)
  BY <1>1, SetInSplit
<1> QED BY <1>2 DEF s

\* and one that allocates nothing,
LEMMA NewsNothing ==
  ASSUME NEW t, NEW x \in StepSet(t), NEW r \in Seq(StepSet(t)), x.op # "new"
  PROVE  NewIn(Before(x, r)) = NewIn(r)
<1> DEFINE s == Before(x, r)
<1>1. s \in Seq(StepSet(t)) /\ s # <<>> /\ Head(s) = x /\ Tail(s) = r
  BY Prepend
<1> HIDE DEF s
<1>2. NewIn(s) = NewIn(r)
  BY <1>1, NewInSplit
<1> QED BY <1>2 DEF s

\* one that sets a place,
LEMMA SetsOne ==
  ASSUME NEW t, NEW x \in StepSet(t), NEW r \in Seq(StepSet(t)), x.op = "set"
  PROVE  SetIn(Before(x, r)) = SetIn(r) \cup {x.place}
<1> DEFINE s == Before(x, r)
<1>1. s \in Seq(StepSet(t)) /\ s # <<>> /\ Head(s) = x /\ Tail(s) = r
  BY Prepend
<1> HIDE DEF s
<1>2. SetIn(s) = SetIn(r) \cup {x.place}
  BY <1>1, SetInSplit
<1> QED BY <1>2 DEF s

\* and one that allocates a block, before a list.
LEMMA NewsOne ==
  ASSUME NEW t, NEW x \in StepSet(t), NEW r \in Seq(StepSet(t)), x.op = "new"
  PROVE  NewIn(Before(x, r)) = NewIn(r) \cup {x.block}
<1> DEFINE s == Before(x, r)
<1>1. s \in Seq(StepSet(t)) /\ s # <<>> /\ Head(s) = x /\ Tail(s) = r
  BY Prepend
<1> HIDE DEF s
<1>2. NewIn(s) = NewIn(r) \cup {x.block}
  BY <1>1, NewInSplit
<1> QED BY <1>2 DEF s

\* A step before a list of steps is a list of steps.
LEMMA BeforeShape ==
  ASSUME NEW t, NEW x \in StepSet(t), NEW r \in Seq(StepSet(t))
  PROVE  Before(x, r) \in Seq(StepSet(t)) /\ Before(x, r) # <<>> /\ Head(Before(x, r)) = x /\ Tail(Before(x, r)) = r
BY Prepend

\* What is written, opened and carried with one step more.
LEMMA WritesBefore ==
  ASSUME NEW t, NEW x \in StepSet(t), NEW r \in Seq(StepSet(t))
  PROVE  /\ \A b \in Blocks : b \in WrittenIn(Before(x, r)) <=> b \in WrittenIn(r) \/ Writes(x, b)
         /\ \A b \in Blocks : b \in Open(Before(x, r)) <=> Writes(x, b) \/ (b \in Open(r) /\ ~IsNew(x, b))
BY Prepend

\* What is carried with one step more.
LEMMA CarriedBefore ==
  ASSUME NEW t, NEW x \in StepSet(t), NEW r \in Seq(StepSet(t)), NEW b
  PROVE  Carried(Before(x, r), b) = Carried(r, b) + Weight(x, r, b)
BY Prepend

\* A block is allocated before a list that gives up the reference to it.
LEMMA DoNew ==
  ASSUME NEW t \in Nat, NEW K, NEW r, Good(t, K, r), NEW n \in {t} \X (Nat \ {0}), NEW k \in BlockSet, k.ref = 1,
         n \notin NewIn(r), Carried(r, n) >= 1, k.inner.at \notin WrittenIn(r), k.inner.at # n,
         NEW free, free = (IF Within(n) \in SetIn(r) THEN 0 ELSE 1),
         NEW L, L = Join(New(n, k), r)
  PROVE  /\ Good(t, K, L) /\ L # <<>> /\ n \in Blocks /\ (\A b : ~HeadIs(L, "inc", b))
         /\ SetIn(L) = SetIn(r) /\ NewIn(L) = NewIn(r) \cup {n}
         /\ \A b \in Blocks : b \in WrittenIn(L) <=> b \in WrittenIn(r)
         /\ \A b \in Blocks : b \in Open(L) <=> b \in Open(r) /\ b # n
         /\ \A b \in Blocks : Carried(L, b) = Carried(r, b) + free * One(k.inner.at, b) - One(n, b)
<1> DEFINE x == [op |-> "new", block |-> n, data |-> k]
<1>0. x \in StepSet(t) /\ x.op = "new" /\ x.block = n /\ x.data = k /\ n \in Blocks
  BY DEF StepSet, Blocks
<1>1. L = Before(x, r) /\ r \in Seq(StepSet(t)) /\ \A b \in Blocks : Carried(r, b) \in Nat
  BY DEF Join, Before, New, Good, Well
<1> HIDE DEF x
<1>2. SetIn(L) = SetIn(r)
  BY <1>0, <1>1, SetsNothing
<1>3. NewIn(L) = NewIn(r) \cup {n}
  BY <1>0, <1>1, NewsOne
<1>4. \A b : ~Writes(x, b) /\ (IsNew(x, b) <=> b = n)
  BY <1>0 DEF Writes, IsNew
<1>5. /\ \A b \in Blocks : b \in WrittenIn(L) <=> b \in WrittenIn(r)
      /\ \A b \in Blocks : b \in Open(L) <=> b \in Open(r) /\ b # n
  BY <1>0, <1>1, <1>4, WritesBefore
<1>6. ASSUME NEW b \in Blocks
      PROVE  /\ Weight(x, r, b) = free * One(k.inner.at, b) - One(n, b)
             /\ Carried(L, b) = Carried(r, b) + free * One(k.inner.at, b) - One(n, b)
             /\ Carried(r, b) + Weight(x, r, b) \in Nat
  <2>1. Gains(x, b) <=> b = n
    BY <1>0 DEF Gains, IsNew
  <2>2. Spends(x, r, b) <=> k.inner.at = b /\ Within(n) \notin SetIn(r)
    BY <1>0 DEF Spends
  <2>3. Weight(x, r, b) = free * One(k.inner.at, b) - One(n, b)
    BY <2>1, <2>2 DEF Weight, One
  <2>4. Carried(L, b) = Carried(r, b) + Weight(x, r, b)
    BY <1>0, <1>1, CarriedBefore
  <2>5. Carried(r, b) \in Nat /\ (b = n => Carried(r, b) >= 1) /\ free * One(k.inner.at, b) \in {0, 1} /\ One(n, b) \in {0, 1}
    BY <1>1 DEF One
  <2>6. One(n, b) = 1 => b = n
    BY DEF One
  <2> QED BY <2>3, <2>4, <2>5, <2>6
<1>7. Follows(K, x, r)
  BY <1>0, SafeFollows DEF Follows
<1>8. Well(t, K, L) /\ L # <<>> /\ Head(L) = x
  BY <1>0, <1>1, <1>6, <1>7, WellBefore
<1>9. \A b : ~HeadIs(L, "inc", b)
  BY <1>0, <1>8 DEF HeadIs
<1> QED BY <1>0, <1>2, <1>3, <1>5, <1>6, <1>8, <1>9 DEF Good, Safe

\* An object that nobody refers to, and the first reference to it.
LEMMA DoObject ==
  ASSUME NEW t \in Nat, NEW K, NEW r, Good(t, K, r), NEW n \in {t} \X (Nat \ {0}),
         n \notin NewIn(r), Carried(r, n) >= 1, n \notin WrittenIn(r),
         NEW L, L = Join(New(n, Object), Join(Inc(n), r))
  PROVE  /\ Good(t, K, L) /\ L # <<>> /\ n \in Blocks /\ (\A b : ~HeadIs(L, "inc", b))
         /\ SetIn(L) = SetIn(r) /\ NewIn(L) = NewIn(r) \cup {n}
         /\ \A b \in Blocks : b \in Open(L) => b \in Open(r)
         /\ \A b \in Blocks : Carried(L, b) = Carried(r, b) - One(n, b)
<1> DEFINE x == [op |-> "new", block |-> n, data |-> Object]
           m == Join(Inc(n), r)
<1>a. /\ Object \in BlockSet /\ Object.ref = 0 /\ Object.inner.at = NoBlock
  BY DEF Object, BlockSet, Null, Inline, DataSet, Kinds
<1>0. x \in StepSet(t) /\ x.op = "new" /\ x.block = n /\ x.data = Object /\ n \in Blocks
  BY <1>a DEF StepSet, Blocks
<1>1. L = Before(x, m)
  BY DEF Join, Before, New
<1> HIDE DEF x
<1>2. PICK s : s = m
  OBVIOUS
<1> HIDE DEF m
<1>3. /\ Well(t, K, s) /\ Like(s, r) /\ s # <<>>
      /\ \A b \in Blocks : Carried(s, b) = Carried(r, b) - One(n, b)
      /\ \A b : HeadIs(s, "inc", b) <=> b = n
  BY <1>0, <1>2, DoInc DEF m
<1>4. s \in Seq(StepSet(t)) /\ L = Before(x, s) /\ \A b \in Blocks : Carried(s, b) \in Nat
  BY <1>1, <1>2, <1>3 DEF Well
<1>5. SetIn(L) = SetIn(r)
  BY <1>0, <1>3, <1>4, SetsNothing DEF Like
<1>6. NewIn(L) = NewIn(r) \cup {n}
  <2>1. NewIn(L) = NewIn(s) \cup {n}
    BY <1>0, <1>4, NewsOne
  <2> QED BY <2>1, <1>3 DEF Like
<1>7. \A b \in Blocks : b \in Open(L) => b \in Open(r)
  <2>1. \A b : ~Writes(x, b)
    BY <1>0 DEF Writes
  <2>2. \A b \in Blocks : b \in Open(L) => b \in Open(s)
    BY <2>1, <1>0, <1>4, WritesBefore
  <2> QED BY <2>2, <1>3 DEF Like
<1>8. \A b \in Blocks : Weight(x, s, b) = 0
  <2>1. NoBlock \notin Blocks
    BY PlacesDiffer
  <2> QED BY <2>1, <1>0, <1>a DEF Weight, Spends, Gains, IsNew
<1>9. Sound(K, L) /\ L \in Seq(StepSet(t)) /\ L # <<>> /\ Head(L) = x /\ DelIn(L) = {}
      /\ \A b \in Blocks : Carried(L, b) = Carried(s, b)
  <2>1. L \in Seq(StepSet(t)) /\ L # <<>> /\ Head(L) = x
    <3>1. /\ Before(x, s) \in Seq(StepSet(t)) /\ Before(x, s) # <<>>
          /\ Head(Before(x, s)) = x /\ Tail(Before(x, s)) = s
      BY <1>0, <1>4, BeforeShape
    <3> QED BY <3>1, <1>4
  <2>2. DelIn(L) = {}
    BY <1>0, <1>3, <1>4, DeletesNothing DEF Well
  <2>3. \A b \in Blocks : Carried(L, b) = Carried(s, b)
    BY <1>0, <1>4, <1>8, CarriedBefore
  <2>4. Follows(K, x, s)
    <3>1. s # <<>> /\ Head(s).op = "inc" /\ Head(s).block = n
      BY <1>3 DEF HeadIs
    <3>2. n \notin NewIn(s) /\ NoBlock \notin WrittenIn(s) /\ NoBlock # n
      BY <1>0, <1>3, PlacesDiffer DEF Like, WrittenIn
    <3> QED BY <3>1, <3>2, <1>0, <1>a DEF Follows, IsNew
  <2>5. Sound(K, Before(x, s)) <=> (\A b \in Blocks : Carried(Before(x, s), b) >= 0) /\ Follows(K, x, s) /\ Sound(K, s)
    BY <1>0, <1>4, PrependSound
  <2>6. Sound(K, L)
    BY <2>3, <2>4, <2>5, <1>3, <1>4 DEF Well
  <2> QED BY <2>1, <2>2, <2>3, <2>6
<1>10. \A b : ~HeadIs(L, "inc", b)
  BY <1>0, <1>9 DEF HeadIs
<1> QED BY <1>0, <1>3, <1>4, <1>5, <1>6, <1>7, <1>9, <1>10 DEF Good, Well, Safe

\* Characters are written before a list.
LEMMA DoPut ==
  ASSUME NEW t \in Nat, NEW K, NEW r, Good(t, K, r), NEW n \in Blocks, NEW y \in Nat,
         NEW L, L = Join(Put(n, y), r)
  PROVE  /\ Good(t, K, L) /\ L # <<>> /\ (\A b : ~HeadIs(L, "inc", b))
         /\ SetIn(L) = SetIn(r) /\ NewIn(L) = NewIn(r)
         /\ \A b \in Blocks : b \in WrittenIn(L) <=> b \in WrittenIn(r) \/ b = n
         /\ \A b \in Blocks : b \in Open(L) <=> b \in Open(r) \/ b = n
         /\ \A b \in Blocks : Carried(L, b) = Carried(r, b)
         /\ r = <<>> => JustPut(L)
<1> DEFINE x == [op |-> "put", block |-> n, data |-> y]
<1>0. x \in StepSet(t) /\ x.op = "put" /\ x.block = n
  BY DEF StepSet
<1>1. L = Before(x, r) /\ r \in Seq(StepSet(t)) /\ \A b \in Blocks : Carried(r, b) \in Nat
  BY DEF Join, Before, Put, Good, Well
<1> HIDE DEF x
<1>2. SetIn(L) = SetIn(r) /\ NewIn(L) = NewIn(r)
  BY <1>0, <1>1, SetsNothing, NewsNothing
<1>3. \A b : (Writes(x, b) <=> b = n) /\ ~IsNew(x, b)
  BY <1>0 DEF Writes, IsNew
<1>4. /\ \A b \in Blocks : b \in WrittenIn(L) <=> b \in WrittenIn(r) \/ b = n
      /\ \A b \in Blocks : b \in Open(L) <=> b \in Open(r) \/ b = n
  BY <1>0, <1>1, <1>3, WritesBefore
<1>5. \A b \in Blocks : Weight(x, r, b) = 0
  BY <1>0 DEF Weight, Spends, Gains, IsNew
<1>6. \A b \in Blocks : Carried(L, b) = Carried(r, b) /\ Carried(r, b) + Weight(x, r, b) \in Nat
  BY <1>0, <1>1, <1>5, CarriedBefore
<1>7. Follows(K, x, r)
  BY <1>0, SafeFollows DEF Follows
<1>8. Well(t, K, L) /\ L # <<>> /\ Head(L) = x
  BY <1>0, <1>1, <1>6, <1>7, WellBefore
<1>9. Tail(L) = r
  BY <1>0, <1>1, BeforeShape
<1>10. \A b : ~HeadIs(L, "inc", b)
  BY <1>0, <1>8 DEF HeadIs
<1> QED BY <1>0, <1>2, <1>4, <1>6, <1>8, <1>9, <1>10 DEF Good, Safe, JustPut

\* A place is set before a list, to data the thread carries.
LEMMA DoSet ==
  ASSUME NEW t \in Nat, NEW K, NEW r, Good(t, K, r), NEW p \in PlaceSet(t), NEW d \in DataSet, p \notin SetIn(r),
         p.block # NoBlock => d.at # p.block /\ (d.at \in WrittenIn(r) => JustPut(r)),
         NEW L, L = Join(Set(p, d), r)
  PROVE  /\ Good(t, K, L) /\ L # <<>> /\ (\A b : ~HeadIs(L, "inc", b))
         /\ SetIn(L) = SetIn(r) \cup {p} /\ NewIn(L) = NewIn(r)
         /\ \A b \in Blocks : b \in WrittenIn(L) <=> b \in WrittenIn(r) \/ p = Within(b)
         /\ \A b \in Blocks : b \in Open(L) <=> b \in Open(r) \/ p = Within(b)
         /\ \A b \in Blocks : Carried(L, b) = Carried(r, b) + One(d.at, b)
<1> DEFINE x == [op |-> "set", place |-> p, data |-> d]
<1>0. x \in StepSet(t) /\ x.op = "set" /\ x.place = p /\ x.data = d
  BY DEF StepSet
<1>1. L = Before(x, r) /\ r \in Seq(StepSet(t)) /\ \A b \in Blocks : Carried(r, b) \in Nat
  BY DEF Join, Before, Set, Good, Well
<1> HIDE DEF x
<1>2. NewIn(L) = NewIn(r)
  BY <1>0, <1>1, NewsNothing
<1>2a. SetIn(L) = SetIn(r) \cup {p}
  BY <1>0, <1>1, SetsOne
<1>3. \A b : (Writes(x, b) <=> p = Within(b)) /\ ~IsNew(x, b)
  BY <1>0 DEF Writes, IsNew
<1>4. /\ \A b \in Blocks : b \in WrittenIn(L) <=> b \in WrittenIn(r) \/ p = Within(b)
      /\ \A b \in Blocks : b \in Open(L) <=> b \in Open(r) \/ p = Within(b)
  BY <1>0, <1>1, <1>3, WritesBefore
<1>5. \A b \in Blocks : Weight(x, r, b) = One(d.at, b) /\ One(d.at, b) \in Nat
  BY <1>0 DEF Weight, Spends, Gains, IsNew, One
<1>6. \A b \in Blocks : Carried(L, b) = Carried(r, b) + One(d.at, b) /\ Carried(r, b) + Weight(x, r, b) \in Nat
  BY <1>0, <1>1, <1>5, CarriedBefore
<1>7. Follows(K, x, r)
  BY <1>0, SafeFollows DEF Follows
<1>8. Well(t, K, L) /\ L # <<>> /\ Head(L) = x
  BY <1>0, <1>1, <1>6, <1>7, WellBefore
<1>10. \A b : ~HeadIs(L, "inc", b)
  BY <1>0, <1>8 DEF HeadIs
<1> QED BY <1>0, <1>2, <1>2a, <1>4, <1>6, <1>8, <1>10 DEF Good, Safe

\* A String is edited, and that is all.
LEMMA DoEdit ==
  ASSUME NEW t \in Nat, NEW K, NEW p \in PlaceSet(t), NEW L, L = Edit(p)
  PROVE  /\ Good(t, K, L) /\ L # <<>> /\ (\A b : ~HeadIs(L, "inc", b))
         /\ SetIn(L) = {} /\ NewIn(L) = {}
         /\ \A b \in Blocks : b \in WrittenIn(L) <=> p = Within(b)
         /\ \A b \in Blocks : b \in Open(L) <=> p = Within(b)
         /\ \A b \in Blocks : Carried(L, b) = 0
<1> DEFINE x == [op |-> "edit", place |-> p]
<1>0. x \in StepSet(t) /\ x.op = "edit" /\ x.place = p /\ <<x>> \in Seq(StepSet(t))
  BY DEF StepSet
<1>e. PICK e : e = <<>>
  OBVIOUS
<1>1. L = Before(x, e) /\ e \in Seq(StepSet(t))
  BY <1>0, <1>e, ConcatEmptySeq DEF Before, Edit
<1>1a. /\ SetIn(e) = {} /\ NewIn(e) = {} /\ WrittenIn(e) = {} /\ Open(e) = {}
       /\ (\A b : Carried(e, b) = 0) /\ Good(t, K, e)
  BY <1>e, NothingLeft, GoodNothing
<1> HIDE DEF x
<1>2. SetIn(L) = {} /\ NewIn(L) = {}
  BY <1>0, <1>1, SetsNothing, NewsNothing, <1>1a
<1>3. \A b : (Writes(x, b) <=> p = Within(b)) /\ ~IsNew(x, b)
  BY <1>0 DEF Writes, IsNew
<1>4. /\ \A b \in Blocks : b \in WrittenIn(L) <=> p = Within(b)
      /\ \A b \in Blocks : b \in Open(L) <=> p = Within(b)
  BY <1>0, <1>1, <1>3, WritesBefore, <1>1a
<1>5. \A b \in Blocks : Weight(x, e, b) = 0
  BY <1>0 DEF Weight, Spends, Gains, IsNew
<1>6. \A b \in Blocks : Carried(L, b) = 0 /\ Carried(e, b) + Weight(x, e, b) \in Nat
  BY <1>0, <1>1, <1>5, CarriedBefore, <1>1a
<1>7. Follows(K, x, e)
  BY <1>0, <1>e DEF Follows
<1>8. Well(t, K, L) /\ L # <<>> /\ Head(L) = x
  BY <1>0, <1>1, <1>6, <1>7, WellBefore, <1>1a
<1>10. \A b : ~HeadIs(L, "inc", b)
  BY <1>0, <1>8 DEF HeadIs
<1> QED BY <1>0, <1>2, <1>4, <1>6, <1>8, <1>10 DEF Good, Safe

\* What comes after two lists comes after the second, and then after the first.
LEMMA JoinTwice ==
  ASSUME NEW S, NEW a \in Seq(S), NEW b \in Seq(S), NEW r \in Seq(S)
  PROVE  /\ Join(a \o b, r) = Join(a, Join(b, r))
         /\ Join(b, r) \in Seq(S) /\ a \o b \in Seq(S)
<1>1. b \o r \in Seq(S) /\ a \o b \in Seq(S)
  BY ConcatProperties
<1>2. (a \o b) \o r = a \o (b \o r)
  BY ConcatAssociative
<1> QED BY <1>1, <1>2 DEF Join

\* Nothing follows a list,
LEMMA JoinLast ==
  ASSUME NEW S, NEW a \in Seq(S), NEW e, e = <<>>
  PROVE  Join(a, e) = a
BY ConcatEmptySeq DEF Join

\* or nothing comes before it.
LEMMA JoinFirst ==
  ASSUME NEW S, NEW a \in Seq(S), NEW e, e = <<>>
  PROVE  Join(e, a) = a
BY ConcatEmptySeq DEF Join

\* Lists in a row.
Cat3(a, b, c) == a \o b \o c
Cat4(a, b, c, d) == a \o b \o c \o d
Cat5(a, b, c, d, f) == a \o b \o c \o d \o f
Cat6(a, b, c, d, f, g) == a \o b \o c \o d \o f \o g

\* Two lists in a row are the first, and what follows it; three; four; five.
LEMMA Join2 ==
  ASSUME NEW S, NEW a \in Seq(S), NEW b \in Seq(S), NEW e, e = <<>>
  PROVE  a \o b = Join(a, Join(b, e)) /\ a \o b \in Seq(S)
BY JoinLast, JoinTwice DEF Join

\* Three.
LEMMA Join3 ==
  ASSUME NEW S, NEW a \in Seq(S), NEW b \in Seq(S), NEW c \in Seq(S), NEW e, e = <<>>
  PROVE  Cat3(a, b, c) = Join(a, Join(b, Join(c, e))) /\ Cat3(a, b, c) \in Seq(S)
<1>1. a \o b \in Seq(S) /\ Join(c, e) = c
  BY JoinTwice, JoinLast
<1>2. Join(a \o b, c) = Join(a, Join(b, c)) /\ Join(a \o b, c) \in Seq(S)
  BY <1>1, JoinTwice
<1> QED BY <1>1, <1>2 DEF Join, Cat3

\* Four.
LEMMA Join4 ==
  ASSUME NEW S, NEW a \in Seq(S), NEW b \in Seq(S), NEW c \in Seq(S), NEW d \in Seq(S), NEW e, e = <<>>
  PROVE  Cat4(a, b, c, d) = Join(a, Join(b, Join(c, Join(d, e)))) /\ Cat4(a, b, c, d) \in Seq(S)
<1>1. PICK f, g : f = a \o b \o c /\ g = Join(d, e)
  OBVIOUS
<1>2. g = d /\ g \in Seq(S)
  BY <1>1, JoinLast
<1>3. PICK h, k : h = a \o b /\ k = Join(c, g)
  OBVIOUS
<1>4. h \in Seq(S) /\ k \in Seq(S) /\ h \o c \in Seq(S)
  BY <1>2, <1>3, JoinTwice
<1>5. Join(h \o c, g) = Join(h, k) /\ Join(h \o c, g) \in Seq(S)
  <2>1. Join(h \o c, g) = Join(h, Join(c, g))
    BY <1>2, <1>4, JoinTwice
  <2>2. Join(h \o c, g) \in Seq(S)
    BY <1>2, <1>4, JoinTwice
  <2> QED BY <2>1, <2>2, <1>3
<1>6. Join(a \o b, k) = Join(a, Join(b, k))
  BY <1>4, JoinTwice
<1>7. a \o b \o c \o d = Join(h \o c, g)
  BY <1>2, <1>3 DEF Join
<1> QED BY <1>1, <1>3, <1>5, <1>6, <1>7 DEF Cat4

\* Five.
LEMMA Join5 ==
  ASSUME NEW S, NEW a \in Seq(S), NEW b \in Seq(S), NEW c \in Seq(S), NEW d \in Seq(S), NEW f \in Seq(S), NEW e, e = <<>>
  PROVE  Cat5(a, b, c, d, f) = Join(a, Join(b, Join(c, Join(d, Join(f, e))))) /\ Cat5(a, b, c, d, f) \in Seq(S)
<1>1. PICK g, k : g = Join(f, e) /\ k = Join(d, g)
  OBVIOUS
<1>2. g = f /\ g \in Seq(S)
  BY <1>1, JoinLast
<1>3. k \in Seq(S)
  BY <1>1, <1>2, JoinTwice
<1>4. PICK h : h = a \o b \o c
  OBVIOUS
<1>5. h \in Seq(S)
  <2>1. a \o b \in Seq(S)
    BY JoinTwice
  <2> QED BY <2>1, <1>4, JoinTwice
<1>6. h \o d \in Seq(S) /\ Join(h \o d, g) = Join(h, k) /\ Join(h \o d, g) \in Seq(S)
  <2>1. h \o d \in Seq(S) /\ Join(h \o d, g) = Join(h, Join(d, g))
    BY <1>2, <1>5, JoinTwice
  <2>2. Join(h \o d, g) \in Seq(S)
    BY <2>1, <1>2, JoinTwice
  <2> QED BY <2>1, <2>2, <1>1
<1>7. a \o b \in Seq(S) /\ Join((a \o b) \o c, k) = Join(a \o b, Join(c, k)) /\ Join(c, k) \in Seq(S)
  <2>1. PICK f2 : f2 = a \o b
    OBVIOUS
  <2>2. f2 \in Seq(S)
    BY <2>1, JoinTwice
  <2>3. Join(f2 \o c, k) = Join(f2, Join(c, k))
    BY <2>2, <1>3, JoinTwice
  <2>4. Join(c, k) \in Seq(S)
    BY <1>3, JoinTwice
  <2> QED BY <2>1, <2>2, <2>3, <2>4
<1>8. Join(a \o b, Join(c, k)) = Join(a, Join(b, Join(c, k)))
  BY <1>7, JoinTwice
<1>9. a \o b \o c \o d \o f = Join(h \o d, g)
  BY <1>2, <1>4 DEF Join
<1> QED BY <1>1, <1>4, <1>6, <1>7, <1>8, <1>9 DEF Cat5

-----------------------------------------------------------------------------
\* The parts of the calls are lists of steps.
LEMMA Pieces ==
  ASSUME NEW t \in Nat
  PROVE  /\ \A d \in DataSet : Release(d) \in Seq(StepSet(t)) /\ Hold(d) \in Seq(StepSet(t))
         /\ \A b \in Blocks : Inc(b) \in Seq(StepSet(t))
         /\ \A b \in Blocks : \A x \in Nat : Put(b, x) \in Seq(StepSet(t))
         /\ \A p \in PlaceSet(t) : Edit(p) \in Seq(StepSet(t)) /\ \A d \in DataSet : Set(p, d) \in Seq(StepSet(t))
         /\ \A n \in {t} \X (Nat \ {0}) : \A k \in BlockSet : k.ref \in {0, 1} => New(n, k) \in Seq(StepSet(t))
<1>1. \A x \in StepSet(t) : <<x>> \in Seq(StepSet(t))
  OBVIOUS
<1>2. <<>> \in Seq(StepSet(t))
  OBVIOUS
<1>3. \A b \in Blocks : [op |-> "inc", block |-> b] \in StepSet(t) /\ [op |-> "dec", block |-> b] \in StepSet(t)
  BY DEF StepSet
<1>4. \A d \in DataSet : Release(d) \in Seq(StepSet(t)) /\ Hold(d) \in Seq(StepSet(t))
  BY <1>1, <1>2, <1>3, DataShape DEF Release, Hold, Inc
<1>5. \A b \in Blocks : Inc(b) \in Seq(StepSet(t))
  BY <1>1, <1>3 DEF Inc
<1>6. \A b \in Blocks : \A x \in Nat : Put(b, x) \in Seq(StepSet(t))
  <2>1. \A b \in Blocks : \A x \in Nat : [op |-> "put", block |-> b, data |-> x] \in StepSet(t)
    BY DEF StepSet
  <2> QED BY <1>1, <2>1 DEF Put
<1>7. \A p \in PlaceSet(t) : Edit(p) \in Seq(StepSet(t)) /\ \A d \in DataSet : Set(p, d) \in Seq(StepSet(t))
  <2>1. \A p \in PlaceSet(t) : [op |-> "edit", place |-> p] \in StepSet(t)
                               /\ \A d \in DataSet : [op |-> "set", place |-> p, data |-> d] \in StepSet(t)
    BY DEF StepSet
  <2> QED BY <1>1, <2>1 DEF Edit, Set
<1>8. \A n \in {t} \X (Nat \ {0}) : \A k \in BlockSet : k.ref \in {0, 1} => New(n, k) \in Seq(StepSet(t))
  <2>1. \A n \in {t} \X (Nat \ {0}) : \A k \in BlockSet : k.ref \in {0, 1} =>
          [op |-> "new", block |-> n, data |-> k] \in StepSet(t)
    BY DEF StepSet
  <2> QED BY <1>1, <2>1 DEF New
<1> QED BY <1>4, <1>5, <1>6, <1>7, <1>8

\* The blocks and the data the calls make.
LEMMA Made ==
  /\ \A x \in Nat : Inline(x) \in DataSet /\ Inline(x).at = NoBlock /\ ~Shares(Inline(x))
                    /\ Str(x) \in BlockSet /\ Str(x).ref = 1 /\ Str(x).inner = Null
  /\ Null \in DataSet /\ Null.at = NoBlock /\ ~Shares(Null)
  /\ \A b \in Blocks : InBlock(b) \in DataSet /\ InBlock(b).at = b /\ Shares(InBlock(b))
  /\ \A d \in DataSet : \A type \in Kinds :
       Var(type, d) \in BlockSet /\ Var(type, d).ref = 1 /\ Var(type, d).inner = d
<1>1. \A x \in Nat : Inline(x) \in DataSet /\ Inline(x).at = NoBlock /\ ~Shares(Inline(x))
  BY DEF Inline, DataSet, Shares
<1>2. Null \in DataSet /\ Null.at = NoBlock /\ ~Shares(Null)
  BY <1>1 DEF Null
<1>3. \A b \in Blocks : InBlock(b) \in DataSet /\ InBlock(b).at = b /\ Shares(InBlock(b))
  BY PlacesDiffer DEF InBlock, DataSet, Shares
<1>4. \A x \in Nat : Str(x) \in BlockSet /\ Str(x).ref = 1 /\ Str(x).inner = Null
  BY <1>2 DEF Str, BlockSet, Kinds
<1>5. \A d \in DataSet : \A type \in Kinds :
        Var(type, d) \in BlockSet /\ Var(type, d).ref = 1 /\ Var(type, d).inner = d
  BY DEF Var, BlockSet
<1> QED BY <1>1, <1>2, <1>3, <1>4, <1>5

\* Three lists, and what follows them.
LEMMA JoinThrice ==
  ASSUME NEW S, NEW a \in Seq(S), NEW b \in Seq(S), NEW c \in Seq(S), NEW r \in Seq(S)
  PROVE  Join(Cat3(a, b, c), r) = Join(a, Join(b, Join(c, r))) /\ Cat3(a, b, c) \in Seq(S)
<1>1. PICK f, g : f = a \o b /\ g = Join(c, r)
  OBVIOUS
<1>2. f \in Seq(S) /\ g \in Seq(S)
  BY <1>1, JoinTwice
<1>3. Join(f \o c, r) = Join(f, g) /\ f \o c \in Seq(S)
  <2>1. Join(f \o c, r) = Join(f, Join(c, r)) /\ f \o c \in Seq(S)
    BY <1>2, JoinTwice
  <2> QED BY <2>1, <1>1
<1>4. Join(a \o b, g) = Join(a, Join(b, g))
  BY <1>2, JoinTwice
<1> QED BY <1>1, <1>3, <1>4 DEF Cat3

\* A new String.
LEMMA DoString ==
  ASSUME NEW t \in Nat, NEW K, NEW r, Good(t, K, r), NEW n \in {t} \X (Nat \ {0}), NEW x \in Nat,
         n \notin NewIn(r), Carried(r, n) >= 1, NEW L, L = Join(New(n, Str(x)), r)
  PROVE  /\ Good(t, K, L) /\ L # <<>> /\ n \in Blocks /\ (\A b : ~HeadIs(L, "inc", b))
         /\ SetIn(L) = SetIn(r) /\ NewIn(L) = NewIn(r) \cup {n}
         /\ \A b \in Blocks : b \in WrittenIn(L) <=> b \in WrittenIn(r)
         /\ \A b \in Blocks : b \in Open(L) <=> b \in Open(r) /\ b # n
         /\ \A b \in Blocks : Carried(L, b) = Carried(r, b) - One(n, b)
<1>1. PICK k, free : k = Str(x) /\ free = (IF Within(n) \in SetIn(r) THEN 0 ELSE 1)
  OBVIOUS
<1>2. k \in BlockSet /\ k.ref = 1 /\ k.inner.at = NoBlock
  BY <1>1, Made
<1>3. n \in Blocks /\ NoBlock \notin Blocks /\ NoBlock \notin WrittenIn(r) /\ NoBlock # n
  BY PlacesDiffer DEF Blocks, WrittenIn
<1>4. \A b \in Blocks : One(k.inner.at, b) = 0
  BY <1>2, <1>3 DEF One
<1>5. /\ Good(t, K, L) /\ L # <<>> /\ n \in Blocks /\ (\A b : ~HeadIs(L, "inc", b))
      /\ SetIn(L) = SetIn(r) /\ NewIn(L) = NewIn(r) \cup {n}
      /\ \A b \in Blocks : b \in WrittenIn(L) <=> b \in WrittenIn(r)
      /\ \A b \in Blocks : b \in Open(L) <=> b \in Open(r) /\ b # n
      /\ \A b \in Blocks : Carried(L, b) = Carried(r, b) + free * One(k.inner.at, b) - One(n, b)
  <2>1. k.inner.at \notin WrittenIn(r) /\ k.inner.at # n /\ L = Join(New(n, k), r)
    BY <1>1, <1>2, <1>3
  <2> QED BY <1>1, <1>2, <2>1, DoNew
<1>6. \A b \in Blocks : Carried(L, b) = Carried(r, b) - One(n, b)
  <2> SUFFICES ASSUME NEW b \in Blocks PROVE Carried(L, b) = Carried(r, b) - One(n, b)
    OBVIOUS
  <2>1. free \in {0, 1} /\ Carried(r, b) \in Nat /\ One(n, b) \in Nat
    BY <1>1 DEF Good, Well, One
  <2>2. free * One(k.inner.at, b) = 0
    BY <1>4, <2>1
  <2>3. Carried(L, b) = Carried(r, b) + free * One(k.inner.at, b) - One(n, b)
    BY <1>5
  <2> QED BY <2>1, <2>2, <2>3
<1> QED BY <1>5, <1>6

\* The data of a copy of a String.
LEMMA CopyData ==
  ASSUME NEW t \in Nat, NEW d \in DataSet, NEW n \in {t} \X (Nat \ {0}), NEW c, c = CopyString(d, n)
  PROVE  /\ c.data \in DataSet /\ c.steps \in Seq(StepSet(t))
         /\ Shares(d) => c.data = d /\ c.steps = Inc(d.at)
         /\ ~Shares(d) => \/ c.steps = <<>> /\ c.data = Null
                          \/ c.steps = New(n, Str(d.val)) /\ c.data = InBlock(n)
<1>1. n \in Blocks /\ d.val \in Nat /\ (Shares(d) => d.at \in Blocks)
  BY DataShape DEF Blocks
<1>2. CASE Shares(d)
  BY <1>1, <1>2, Pieces DEF CopyString
<1>3. CASE ~Shares(d) /\ d = Null
  <2>1. <<>> \in Seq(StepSet(t))
    OBVIOUS
  <2> QED BY <2>1, <1>3 DEF CopyString
<1>4. CASE ~Shares(d) /\ d # Null
  <2>1. New(n, Str(d.val)) \in Seq(StepSet(t)) /\ InBlock(n) \in DataSet
    BY <1>1, Made, Pieces
  <2> QED BY <2>1, <1>4 DEF CopyString
<1> QED BY <1>2, <1>3, <1>4

\* What the list L is, that copies the data d of a String and then goes on with the list r.
Copied(t, K, r, d, n, c, L) ==
  /\ Well(t, K, L) /\ (L # <<>> \/ r = <<>>)
  /\ SetIn(L) = SetIn(r) /\ NewIn(r) \subseteq NewIn(L) /\ NewIn(L) \subseteq NewIn(r) \cup {n}
  /\ \A b \in Blocks : b \in WrittenIn(L) <=> b \in WrittenIn(r)
  /\ \A b \in Blocks : b \in Open(L) => b \in Open(r)
  /\ \A b \in Blocks : Carried(L, b) = Carried(r, b) - One(c.data.at, b)
  /\ \A b : Shares(d) /\ HeadIs(L, "inc", b) => b = d.at
  /\ ~Shares(d) \/ d.at \in K \/ Carried(r, d.at) >= 2 => Safe(K, L)

\* A String is copied.
LEMMA DoCopy ==
  ASSUME NEW t \in Nat, NEW K, NEW r, Good(t, K, r), NEW d \in DataSet, NEW n \in {t} \X (Nat \ {0}),
         NEW c, c = CopyString(d, n), n \notin NewIn(r), d.at \notin WrittenIn(r),
         Shares(c.data) => Carried(r, c.data.at) >= 1,
         NEW L, L = Join(c.steps, r)
  PROVE  Copied(t, K, r, d, n, c, L)
<1> SUFFICES /\ Well(t, K, L) /\ (L # <<>> \/ r = <<>>)
             /\ SetIn(L) = SetIn(r) /\ NewIn(r) \subseteq NewIn(L) /\ NewIn(L) \subseteq NewIn(r) \cup {n}
             /\ \A b \in Blocks : b \in WrittenIn(L) <=> b \in WrittenIn(r)
             /\ \A b \in Blocks : b \in Open(L) => b \in Open(r)
             /\ \A b \in Blocks : Carried(L, b) = Carried(r, b) - One(c.data.at, b)
             /\ \A b : Shares(d) /\ HeadIs(L, "inc", b) => b = d.at
             /\ ~Shares(d) \/ d.at \in K \/ Carried(r, d.at) >= 2 => Safe(K, L)
  BY DEF Copied
<1>1. CASE Shares(d)
  <2>1. c.data = d /\ L = Join(Inc(d.at), r) /\ d.at \in Blocks /\ Carried(r, d.at) >= 1
    <3>1. c.data = d /\ c.steps = Inc(d.at)
      BY <1>1, CopyData
    <3>2. d.at \in Blocks
      BY <1>1, DataShape
    <3> QED BY <1>1, <3>1, <3>2
  <2>2. /\ Well(t, K, L) /\ Like(L, r) /\ L # <<>>
        /\ \A b \in Blocks : Carried(L, b) = Carried(r, b) - One(d.at, b)
        /\ \A b : HeadIs(L, "inc", b) <=> b = d.at
        /\ d.at \in K \/ Carried(r, d.at) >= 2 => Safe(K, L)
    BY <2>1, DoInc
  <2> QED BY <2>1, <2>2, <1>1 DEF Like
<1>2. CASE ~Shares(d) /\ c.steps = <<>> /\ c.data = Null
  <2>1. r \in Seq(StepSet(t)) /\ \A b \in Blocks : Carried(r, b) \in Nat
    BY DEF Good, Well
  <2>2. L = r
    BY <1>2, <2>1, JoinFirst
  <2>3. \A b \in Blocks : One(c.data.at, b) = 0
    BY <1>2, Made, PlacesDiffer DEF One
  <2> QED BY <1>2, <2>1, <2>2, <2>3 DEF Good
<1>3. CASE ~Shares(d) /\ c.steps = New(n, Str(d.val)) /\ c.data = InBlock(n)
  <2>1. n \in Blocks /\ d.val \in Nat
    BY DataShape DEF Blocks
  <2>2. c.data.at = n /\ Carried(r, n) >= 1
    BY <1>3, <2>1, Made
  <2>3. L = Join(New(n, Str(d.val)), r)
    BY <1>3
  <2>4. /\ Good(t, K, L) /\ L # <<>> /\ (\A b : ~HeadIs(L, "inc", b))
        /\ SetIn(L) = SetIn(r) /\ NewIn(L) = NewIn(r) \cup {n}
        /\ \A b \in Blocks : b \in WrittenIn(L) <=> b \in WrittenIn(r)
        /\ \A b \in Blocks : b \in Open(L) <=> b \in Open(r) /\ b # n
        /\ \A b \in Blocks : Carried(L, b) = Carried(r, b) - One(n, b)
    BY <2>1, <2>2, <2>3, DoString
  <2> QED BY <1>3, <2>2, <2>4 DEF Good
<1> QED BY <1>1, <1>2, <1>3, CopyData

\* A place is a handle, or within a block.
LEMMA PlaceShape ==
  ASSUME NEW t, NEW p \in PlaceSet(t)
  PROVE  /\ p.block = NoBlock => \E h \in Own(t) : p = Here(h)
         /\ p.block # NoBlock => p.block \in Blocks /\ p = Within(p.block)
BY PlacesDiffer DEF PlaceSet

\* A String is assigned.
LEMMA DoAssign ==
  ASSUME NEW t \in Nat, NEW K, NEW r, Good(t, K, r), WrittenIn(r) = {}, NEW p \in PlaceSet(t), p \notin SetIn(r),
         NEW old \in DataSet, NEW d \in DataSet, NEW n \in {t} \X (Nat \ {0}), n \notin NewIn(r),
         \A b \in Blocks : p = Within(b) => old.at # b /\ d.at # b /\ n # b,
         Shares(d) => d.at \in K \/ d.at = old.at \/ Carried(r, d.at) >= 1,
         NEW L, L = Join(Assign(p, old, d, n), r)
  PROVE  /\ Good(t, K, L) /\ L # <<>>
         /\ SetIn(L) = SetIn(r) \cup {p} /\ NewIn(r) \subseteq NewIn(L) /\ NewIn(L) \subseteq NewIn(r) \cup {n}
         /\ \A b \in Blocks : b \in WrittenIn(L) <=> p = Within(b)
         /\ \A b \in Blocks : b \in Open(L) => p = Within(b)
         /\ \A b \in Blocks : Carried(L, b) = Carried(r, b) + One(old.at, b)
<1>0. /\ r \in Seq(StepSet(t)) /\ n \in Blocks /\ \A b \in Blocks : Carried(r, b) \in Nat
  BY DEF Good, Well, Blocks
<1>0a. \A b \in Blocks : b \notin Open(r)
  BY <1>0, StepsInSeq
<1>1. CASE Shares(d)
  <2>1. d.at \in Blocks /\ Inc(d.at) \in Seq(StepSet(t)) /\ Release(old) \in Seq(StepSet(t)) /\ Set(p, d) \in Seq(StepSet(t))
    BY <1>1, DataShape, Pieces
  <2>2. PICK A, B : A = Join(Set(p, d), r) /\ B = Join(Release(old), A)
    OBVIOUS
  <2>3. L = Join(Inc(d.at), B)
    <3>1. Assign(p, old, d, n) = Cat3(Inc(d.at), Release(old), Set(p, d))
      BY <1>1 DEF Assign, Cat3
    <3> QED BY <3>1, <2>1, <2>2, <1>0, JoinThrice
  <2>4. /\ Good(t, K, A) /\ A # <<>>
        /\ SetIn(A) = SetIn(r) \cup {p} /\ NewIn(A) = NewIn(r)
        /\ \A b \in Blocks : b \in WrittenIn(A) <=> b \in WrittenIn(r) \/ p = Within(b)
        /\ \A b \in Blocks : b \in Open(A) <=> b \in Open(r) \/ p = Within(b)
        /\ \A b \in Blocks : Carried(A, b) = Carried(r, b) + One(d.at, b)
    <3>1. p.block # NoBlock => d.at # p.block /\ (d.at \in WrittenIn(r) => JustPut(r))
      BY PlaceShape
    <3> QED BY <3>1, <2>2, DoSet
  <2>5. /\ Good(t, K, B) /\ Like(B, A)
        /\ \A b \in Blocks : Carried(B, b) = Carried(A, b) + One(old.at, b)
    <3>1. old.at \notin WrittenIn(A)
      <4>1. \A b \in Blocks : b \in WrittenIn(A) => old.at # b
        BY <2>4
      <4> QED BY <4>1 DEF WrittenIn
    <3> QED BY <3>1, <2>2, <2>4, DoRelease
  <2>6. d.at \notin WrittenIn(B)
    <3>1. d.at \notin WrittenIn(A)
      BY <2>1, <2>4
    <3> QED BY <3>1, <2>5 DEF Like
  <2>7. Carried(B, d.at) >= 1 /\ (d.at \in K \/ Carried(B, d.at) >= 2)
    <3>1. Carried(A, d.at) = Carried(r, d.at) + 1 /\ Carried(r, d.at) \in Nat
      BY <2>1, <2>4, <1>0 DEF One
    <3>2. Carried(B, d.at) = Carried(A, d.at) + One(old.at, d.at) /\ One(old.at, d.at) \in Nat
      BY <2>1, <2>5 DEF One
    <3>3. d.at = old.at => One(old.at, d.at) = 1
      BY DEF One
    <3> QED BY <3>1, <3>2, <3>3, <1>1
  <2>8. /\ Well(t, K, L) /\ Like(L, B) /\ L # <<>>
        /\ \A b \in Blocks : Carried(L, b) = Carried(B, b) - One(d.at, b)
        /\ d.at \in K \/ Carried(B, d.at) >= 2 => Safe(K, L)
    BY <2>1, <2>3, <2>5, <2>6, <2>7, DoInc
  <2>9. \A b \in Blocks : Carried(L, b) = Carried(r, b) + One(old.at, b)
    <3> SUFFICES ASSUME NEW b \in Blocks PROVE Carried(L, b) = Carried(r, b) + One(old.at, b)
      OBVIOUS
    <3>1. Carried(r, b) \in Nat /\ One(d.at, b) \in Nat /\ One(old.at, b) \in Nat
      BY <1>0 DEF One
    <3>2. /\ Carried(L, b) = Carried(B, b) - One(d.at, b) /\ Carried(B, b) = Carried(A, b) + One(old.at, b)
          /\ Carried(A, b) = Carried(r, b) + One(d.at, b)
      BY <2>4, <2>5, <2>8
    <3> QED BY <3>1, <3>2
  <2> QED BY <1>0a, <2>4, <2>5, <2>7, <2>8, <2>9 DEF Like, Good
<1>2. CASE ~Shares(d)
  <2>1. /\ d.val \in Nat /\ Str(d.val) \in BlockSet /\ Str(d.val).ref = 1 /\ InBlock(n) \in DataSet /\ InBlock(n).at = n
    BY <1>0, DataShape, Made
  <2>1a. New(n, Str(d.val)) \in Seq(StepSet(t)) /\ Release(old) \in Seq(StepSet(t)) /\ Set(p, InBlock(n)) \in Seq(StepSet(t))
    BY <2>1, Pieces
  <2>2. PICK f : f = InBlock(n)
    OBVIOUS
  <2>3. PICK A, B : A = Join(Set(p, f), r) /\ B = Join(New(n, Str(d.val)), A)
    OBVIOUS
  <2>4. L = Join(Release(old), B)
    <3>1. Assign(p, old, d, n) = Cat3(Release(old), New(n, Str(d.val)), Set(p, f))
      BY <1>2, <2>2 DEF Assign, Cat3
    <3> QED BY <3>1, <2>1a, <2>2, <2>3, <1>0, JoinThrice
  <2>5. /\ Good(t, K, A) /\ A # <<>>
        /\ SetIn(A) = SetIn(r) \cup {p} /\ NewIn(A) = NewIn(r)
        /\ \A b \in Blocks : b \in WrittenIn(A) <=> b \in WrittenIn(r) \/ p = Within(b)
        /\ \A b \in Blocks : b \in Open(A) <=> b \in Open(r) \/ p = Within(b)
        /\ \A b \in Blocks : Carried(A, b) = Carried(r, b) + One(f.at, b)
    <3>1. p.block # NoBlock => f.at # p.block /\ (f.at \in WrittenIn(r) => JustPut(r))
      BY <2>1, <2>2, PlaceShape
    <3> QED BY <3>1, <2>1, <2>2, <2>3, DoSet
  <2>6. Carried(A, n) >= 1
    <3>1. Carried(A, n) = Carried(r, n) + 1 /\ Carried(r, n) \in Nat
      BY <1>0, <2>1, <2>2, <2>5 DEF One
    <3> QED BY <3>1
  <2>7. /\ Good(t, K, B) /\ B # <<>>
        /\ SetIn(B) = SetIn(A) /\ NewIn(B) = NewIn(A) \cup {n}
        /\ \A b \in Blocks : b \in WrittenIn(B) <=> b \in WrittenIn(A)
        /\ \A b \in Blocks : b \in Open(B) <=> b \in Open(A) /\ b # n
        /\ \A b \in Blocks : Carried(B, b) = Carried(A, b) - One(n, b)
    BY <2>1, <2>3, <2>5, <2>6, DoString
  <2>8. /\ Good(t, K, L) /\ Like(L, B) /\ (L # <<>> \/ B = <<>>)
        /\ \A b \in Blocks : Carried(L, b) = Carried(B, b) + One(old.at, b)
    <3>1. old.at \notin WrittenIn(B)
      <4>1. \A b \in Blocks : b \in WrittenIn(B) => old.at # b
        BY <2>5, <2>7
      <4> QED BY <4>1 DEF WrittenIn
    <3> QED BY <3>1, <2>4, <2>7, DoRelease
  <2>9. \A b \in Blocks : Carried(L, b) = Carried(r, b) + One(old.at, b)
    <3> SUFFICES ASSUME NEW b \in Blocks PROVE Carried(L, b) = Carried(r, b) + One(old.at, b)
      OBVIOUS
    <3>1. Carried(r, b) \in Nat /\ One(n, b) \in Nat /\ One(old.at, b) \in Nat
      BY <1>0 DEF One
    <3>2. /\ Carried(L, b) = Carried(B, b) + One(old.at, b) /\ Carried(B, b) = Carried(A, b) - One(n, b)
          /\ Carried(A, b) = Carried(r, b) + One(n, b)
      BY <2>1, <2>2, <2>5, <2>7, <2>8
    <3> QED BY <3>1, <3>2
  <2> QED BY <1>0a, <2>5, <2>7, <2>8, <2>9 DEF Like
<1> QED BY <1>1, <1>2

\* A set of numbers that is not empty has a least one.
LEMMA LeastOf ==
  ASSUME NEW A, A \subseteq Nat, A # {} PROVE \E x \in A : \A y \in A : x <= y
<1>1. PICK x \in A : \A y \in A : ~(<<y, x>> \in OpToRel(<, Nat))
  BY NatLessThanWellFounded, WFMin
<1>2. ASSUME NEW y \in A PROVE x <= y
  <2>1. x \in Nat /\ y \in Nat /\ ~(y < x)
    BY <1>1 DEF OpToRel
  <2> QED BY <2>1
<1> QED BY <1>2

\* The numbers of a set below one of its numbers.
Below(A, i) == {j \in A : j < i}

\* The k-th number of a set of numbers that has three.
LEMMA Ranked ==
  ASSUME NEW A, A \subseteq Nat, IsFiniteSet(A)
  PROVE  /\ A # {} => \E i \in A : Cardinality(Below(A, i)) = 0
         /\ Cardinality(A) >= 3 => \A k \in {1, 2, 3} : \E i \in A : Cardinality(Below(A, i)) = k - 1
<1>1. Cardinality(A) \in Nat /\ (A = {} => Cardinality(A) = 0)
  BY FS_CardinalityType, FS_EmptySet
<1>2. ASSUME NEW a \in A, \A y \in A : a <= y PROVE Below(A, a) = {} /\ Cardinality(Below(A, a)) = 0
  <2>1. \A j \in A : ~(j < a)
    BY <1>2
  <2>2. Below(A, a) = {}
    BY <2>1 DEF Below
  <2> QED BY <2>2, FS_EmptySet
<1>3. A # {} => \E i \in A : Cardinality(Below(A, i)) = 0
  BY <1>2, LeastOf
<1>4. ASSUME Cardinality(A) >= 3, NEW k \in {1, 2, 3} PROVE \E i \in A : Cardinality(Below(A, i)) = k - 1
  <2>0. A # {}
    BY <1>1, <1>4
  <2>1. PICK a \in A : \A y \in A : a <= y
    BY <2>0, LeastOf
  <2>2. IsFiniteSet(A \ {a}) /\ Cardinality(A \ {a}) = Cardinality(A) - 1
    BY <2>1, FS_RemoveElement
  <2>3. A \ {a} # {}
    BY <1>1, <1>4, <2>2, FS_EmptySet
  <2>4. PICK b \in A \ {a} : \A y \in A \ {a} : b <= y
    <3>1. PICK B : B = A \ {a}
      OBVIOUS
    <3> QED BY <3>1, <2>3, LeastOf
  <2>5. IsFiniteSet((A \ {a}) \ {b}) /\ Cardinality((A \ {a}) \ {b}) = Cardinality(A) - 2
    <3>1. PICK B : B = A \ {a}
      OBVIOUS
    <3>2. IsFiniteSet(B \ {b}) /\ Cardinality(B \ {b}) = Cardinality(B) - 1
      BY <3>1, <2>2, <2>4, FS_RemoveElement
    <3> QED BY <3>1, <3>2, <2>2, <1>1
  <2>6. (A \ {a}) \ {b} # {}
    BY <1>1, <1>4, <2>5, FS_EmptySet
  <2>7. PICK c \in (A \ {a}) \ {b} : \A y \in (A \ {a}) \ {b} : c <= y
    <3>1. PICK B : B = (A \ {a}) \ {b}
      OBVIOUS
    <3> QED BY <3>1, <2>6, LeastOf
  <2>8. a \in Nat /\ b \in Nat /\ c \in Nat /\ a < b /\ b < c
    <3>1. a \in Nat /\ b \in Nat /\ c \in Nat
      BY <2>1, <2>4, <2>7
    <3>2. a <= b /\ a # b /\ b <= c /\ b # c
      BY <2>1, <2>4, <2>7
    <3> QED BY <3>1, <3>2
  <2>9. Below(A, a) = {}
    BY <1>2, <2>1
  <2>10. Below(A, b) = {a}
    <3>1. ASSUME NEW j \in A, j < b PROVE j = a
      <4>1. ~(b <= j)
        BY <3>1, <2>8
      <4> QED BY <4>1, <2>4
    <3> QED BY <3>1, <2>1, <2>8 DEF Below
  <2>11. Below(A, c) = {a, b}
    <3>1. ASSUME NEW j \in A, j < c PROVE j \in {a, b}
      <4>1. ~(c <= j)
        BY <3>1, <2>8
      <4> QED BY <4>1, <2>7
    <3>2. a < c
      BY <2>8
    <3> QED BY <3>1, <3>2, <2>1, <2>4, <2>8 DEF Below
  <2>12. Cardinality({a}) = 1 /\ Cardinality({a, b}) = 2
    <3>1. IsFiniteSet({a}) /\ Cardinality({a}) = 1
      BY FS_Singleton
    <3>2. Cardinality({a} \cup {b}) = 2
      <4>1. b \notin {a}
        BY <2>8
      <4>2. PICK B : B = {a}
        OBVIOUS
      <4>3. Cardinality(B \cup {b}) = Cardinality(B) + 1
        BY <3>1, <4>1, <4>2, FS_AddElement
      <4> QED BY <3>1, <4>2, <4>3
    <3>3. {a} \cup {b} = {a, b}
      OBVIOUS
    <3> QED BY <3>1, <3>2, <3>3
  <2>13. CASE k = 1
    BY <2>13, <2>1, <1>2
  <2>14. CASE k = 2
    BY <2>14, <2>10, <2>12, <2>4
  <2>15. CASE k = 3
    BY <2>15, <2>11, <2>12, <2>7
  <2> QED BY <2>13, <2>14, <2>15
<1> QED BY <1>3, <1>4

\* The block that Fresh names is not allocated.
LEMMA FreshBlock ==
  ASSUME DataAssumption, NEW t \in Threads, NEW k, \E i \in Free(t) : Cardinality(Below(Free(t), i)) = k - 1
  PROVE  /\ Fresh(t, k) \in {t} \X (Nat \ {0}) /\ Fresh(t, k) \in Blocks /\ ~Live(Fresh(t, k))
         /\ \E i \in Free(t) : Fresh(t, k) = <<t, i>> /\ Cardinality(Below(Free(t), i)) = k - 1
<1>1. \A i \in Free(t) : i \in Nat \ {0} /\ ~Live(<<t, i>>)
  BY DEF Free, DataAssumption
<1> DEFINE i == CHOOSE j \in Free(t) : Cardinality(Below(Free(t), j)) = k - 1
<1>2. i \in Free(t) /\ Cardinality(Below(Free(t), i)) = k - 1
  OBVIOUS
<1>3. Fresh(t, k) = <<t, i>>
  BY DEF Fresh, Below
<1> HIDE DEF i
<1>4. t \in Nat
  BY DEF DataAssumption
<1> QED BY <1>1, <1>2, <1>3, <1>4 DEF Blocks

\* There is a block that can be allocated.
LEMMA FreshOne ==
  ASSUME DataAssumption, NEW t \in Threads, Free(t) # {}, NEW n, n = Fresh(t, 1)
  PROVE  n \in {t} \X (Nat \ {0}) /\ n \in Blocks /\ ~Live(n)
<1>1. Free(t) \subseteq Nat /\ IsFiniteSet(Free(t))
  <2>1. Free(t) \subseteq 1 .. PoolSize /\ IsFiniteSet(1 .. PoolSize) /\ 1 .. PoolSize \subseteq Nat
    BY FS_Interval DEF Free, DataAssumption
  <2> QED BY <2>1, FS_Subset
<1>2. \E i \in Free(t) : Cardinality(Below(Free(t), i)) = 0
  BY <1>1, Ranked
<1>3. PICK k : k = 1
  OBVIOUS
<1>4. \E i \in Free(t) : Cardinality(Below(Free(t), i)) = k - 1
  BY <1>2, <1>3
<1> QED BY <1>3, <1>4, FreshBlock

\* There are three.
LEMMA FreshThree ==
  ASSUME DataAssumption, NEW t \in Threads, Cardinality(Free(t)) >= 3,
         NEW n, NEW m, NEW o, n = Fresh(t, 1), m = Fresh(t, 2), o = Fresh(t, 3)
  PROVE  /\ n \in {t} \X (Nat \ {0}) /\ n \in Blocks /\ ~Live(n)
         /\ m \in {t} \X (Nat \ {0}) /\ m \in Blocks /\ ~Live(m)
         /\ o \in {t} \X (Nat \ {0}) /\ o \in Blocks /\ ~Live(o)
         /\ n # m /\ n # o /\ m # o
<1>1. Free(t) \subseteq Nat /\ IsFiniteSet(Free(t))
  <2>1. Free(t) \subseteq 1 .. PoolSize /\ IsFiniteSet(1 .. PoolSize) /\ 1 .. PoolSize \subseteq Nat
    BY FS_Interval DEF Free, DataAssumption
  <2> QED BY <2>1, FS_Subset
<1>2. \A k \in {1, 2, 3} : \E i \in Free(t) : Cardinality(Below(Free(t), i)) = k - 1
  BY <1>1, Ranked
<1>3. \A k \in {1, 2, 3} :
        /\ Fresh(t, k) \in {t} \X (Nat \ {0}) /\ Fresh(t, k) \in Blocks /\ ~Live(Fresh(t, k))
        /\ \E i \in Free(t) : Fresh(t, k) = <<t, i>> /\ Cardinality(Below(Free(t), i)) = k - 1
  BY <1>2, FreshBlock
<1>4. ASSUME NEW k \in {1, 2, 3}, NEW l \in {1, 2, 3}, Fresh(t, k) = Fresh(t, l) PROVE k = l
  <2>1. PICK i \in Free(t) : Fresh(t, k) = <<t, i>> /\ Cardinality(Below(Free(t), i)) = k - 1
    BY <1>3
  <2>2. PICK j \in Free(t) : Fresh(t, l) = <<t, j>> /\ Cardinality(Below(Free(t), j)) = l - 1
    BY <1>3
  <2>3. i = j
    BY <2>1, <2>2, <1>4
  <2> QED BY <2>1, <2>2, <2>3
<1>5. n # m /\ n # o /\ m # o
  BY <1>4
<1> QED BY <1>3, <1>5

\* What a thread has in its hands is allocated, and stays so.
Reached(t, d) == Shares(d) => Owns(t, d.at) \/ \E a \in Blocks : Within(a) \in Kept(d.at)

\* A handle of a thread that is about to set nothing.
LEMMA OwnFree ==
  ASSUME DataAssumption, DataInv, NEW t \in Threads, SetIn(todo[t]) = {}, NEW h \in Own(t)
  PROVE  /\ Here(h) \in Places /\ ~Busy(Here(h)) /\ handle[h] \in DataSet /\ Data(Here(h)) = handle[h]
         /\ \A b : Here(h) \in Kept(b) <=> handle[h].at = b
         /\ Reached(t, handle[h])
         /\ handle[h].at \in Blocks => /\ handle[h].at \in Mine(t) /\ Owns(t, handle[h].at) /\ Live(handle[h].at)
                                       /\ Ref(handle[h].at) = heap[handle[h].at].ref /\ Ref(handle[h].at) \in Nat
                                       /\ Ref(handle[h].at) >= 1
<1>0. Typed /\ AllCounted
  BY DEF DataInv
<1>1. h \in Handles /\ Here(h) \in Places /\ handle[h] \in DataSet
  BY <1>0 DEF Handles, Own, Places, Typed
<1>2. Data(Here(h)) = handle[h]
  BY PlacesDiffer DEF Data
<1>3. ~Busy(Here(h))
  <2>1. \A u \in Threads : Here(h) \notin SetIn(todo[u])
    BY <1>0, OwnPlaces
  <2>2. \A u \in Threads : Here(h).block \notin DelIn(todo[u])
    <3>1. \A u \in Threads : DelIn(todo[u]) \subseteq Blocks
      BY <1>0, StepsInSeq DEF DataAssumption, Typed
    <3> QED BY <3>1, PlacesDiffer
  <2> QED BY <2>1, <2>2 DEF Busy
<1>4. \A b : Here(h) \in Kept(b) <=> handle[h].at = b
  BY <1>1, <1>2, <1>3 DEF Kept
<1>5. ASSUME handle[h].at \in Blocks
      PROVE  /\ handle[h].at \in Mine(t) /\ Owns(t, handle[h].at) /\ Live(handle[h].at)
             /\ Ref(handle[h].at) = heap[handle[h].at].ref /\ Ref(handle[h].at) \in Nat
             /\ Ref(handle[h].at) >= 1
  <2>1. PICK b \in Blocks : b = handle[h].at
    BY <1>5
  <2>2. b \in Mine(t)
    BY <2>1 DEF Mine
  <2>3. Owns(t, b)
    BY <2>2 DEF Owns
  <2>4. Live(b) /\ heap[b].ref \in Nat /\ heap[b].ref >= 1 /\ Ref(b) = heap[b].ref
    BY <1>0, <2>3, OwnsLive
  <2> QED BY <2>1, <2>2, <2>3, <2>4
<1>6. Reached(t, handle[h])
  BY <1>1, <1>5, DataShape DEF Reached
<1> QED BY <1>1, <1>2, <1>3, <1>4, <1>5, <1>6

\* What is in data that a thread has in its hands is reached, too.
LEMMA InsideReached ==
  ASSUME DataAssumption, DataInv, NEW t \in Threads, SetIn(todo[t]) = {}, NEW d \in DataSet, Reached(t, d)
  PROVE  /\ Inside(d) \in DataSet /\ Reached(t, Inside(d))
         /\ Shares(d) => /\ d.at \in Blocks /\ Live(d.at) /\ heap[d.at] \in BlockSet
                         /\ heap[d.at].inner \in DataSet /\ Reached(t, heap[d.at].inner)
                         /\ Within(d.at) \in Kept(heap[d.at].inner.at)
                         /\ Within(d.at) \in Places /\ ~Busy(Within(d.at))
<1>1. ASSUME Shares(d)
      PROVE  /\ d.at \in Blocks /\ Live(d.at) /\ heap[d.at] \in BlockSet
             /\ heap[d.at].inner \in DataSet /\ Reached(t, heap[d.at].inner)
             /\ Within(d.at) \in Kept(heap[d.at].inner.at)
             /\ Within(d.at) \in Places /\ ~Busy(Within(d.at))
  <2>1. d.at \in Blocks /\ (Owns(t, d.at) \/ \E a \in Blocks : Within(a) \in Kept(d.at))
    BY <1>1, DataShape DEF Reached
  <2>2. PICK c \in Blocks : c = d.at
    BY <2>1
  <2>3. Within(c) \notin SetIn(todo[t])
    OBVIOUS
  <2>4. /\ ~Busy(Within(c)) /\ Live(c) /\ Within(c) \in Places /\ heap[c].inner \in DataSet
        /\ Within(c) \in Kept(heap[c].inner.at)
    BY <2>1, <2>2, <2>3, NotBusy
  <2>5. heap[c] \in BlockSet
    BY <2>4 DEF DataInv, Typed, Live
  <2>6. Reached(t, heap[c].inner)
    BY <2>4 DEF Reached
  <2> QED BY <2>2, <2>4, <2>5, <2>6
<1> QED BY <1>1 DEF Inside

\* What is read at the end of what a thread has in its hands is a number.
LEMMA TextNat ==
  ASSUME DataAssumption, DataInv, NEW t \in Threads, SetIn(todo[t]) = {}, NEW d \in DataSet, Reached(t, d)
  PROVE  Text(d) \in Nat /\ Grown(Text(d)) \in Nat
<1>1. PICK x, y : x = Inside(d) /\ y = Inside(x)
  OBVIOUS
<1>2. x \in DataSet /\ Reached(t, x)
  BY <1>1, InsideReached
<1>3. y \in DataSet /\ Reached(t, y)
  BY <1>1, <1>2, InsideReached
<1>4. Shares(y) => heap[y.at] \in BlockSet
  BY <1>3, InsideReached
<1>5. Text(d) = IF Shares(y) THEN heap[y.at].val ELSE y.val
  BY <1>1 DEF Text
<1>6. Text(d) \in Nat
  BY <1>3, <1>4, <1>5, DataShape DEF BlockSet
<1>7. \A n \in Nat : Grown(n) \in Nat
  BY DEF Grown, DataAssumption
<1> QED BY <1>6, <1>7

-----------------------------------------------------------------------------
\* A thread between two calls has nothing to do.
LEMMA RestCalm ==
  ASSUME NEW t, todo[t] = <<>> PROVE Calm(t)
<1>1. PICK s : s = todo[t]
  OBVIOUS
<1>2. s = <<>>
  BY <1>1
<1>3. SetIn(s) = {} /\ DelIn(s) = {} /\ (\A b : Carried(s, b) = 0) /\ \A b : ~HeadIs(s, "inc", b)
  BY <1>2, NothingLeft DEF HeadIs
<1> QED BY <1>1, <1>3 DEF Calm

\* What is to be edited is the last of the steps.
LEMMA EditCalm ==
  ASSUME DataAssumption, DataInv, NEW t \in Threads, todo[t] # <<>>, Head(todo[t]).op = "edit"
  PROVE  Calm(t) /\ Tail(todo[t]) = <<>>
<1> DEFINE s == todo[t]
           x == Head(s)
           r == Tail(s)
<1>0. /\ t \in Nat /\ s \in Seq(StepSet(t)) /\ r \in Seq(StepSet(t)) /\ x \in StepSet(t)
      /\ \A b : Carried(s, b) = Carried(r, b) + Weight(x, r, b)
      /\ Follows(Mine(t), x, r)
  BY HeadFacts
<1>1. x.op = "edit" /\ s # <<>>
  OBVIOUS
<1>2. SetIn(s) = SetIn(r) /\ DelIn(s) = DelIn(r)
  BY <1>0, <1>1, SetInSplit, DelInSplit
<1> HIDE DEF s, x, r
<1>3. r = <<>>
  BY <1>0, <1>1 DEF Follows
<1>4. SetIn(r) = {} /\ DelIn(r) = {} /\ \A b : Carried(r, b) = 0
  BY <1>3, NothingLeft
<1>5. \A b : Weight(x, r, b) = 0
  BY <1>1 DEF Weight, Spends, Gains, IsNew
<1>6. \A b \in Blocks : Carried(s, b) = 0
  BY <1>0, <1>4, <1>5
<1>7. \A b \in Blocks : ~HeadIs(s, "inc", b)
  BY <1>1 DEF HeadIs, x
<1> QED BY <1>2, <1>3, <1>4, <1>6, <1>7 DEF Calm, s, r

\* The places a list of steps sets, as far as they are there already: none, one, two.
LEMMA CreditNone ==
  ASSUME NEW P, P \cap Places = {}, NEW b
  PROVE  Cardinality(Kept(b) \cap P) = 0
<1>1. Kept(b) \cap P = {}
  BY DEF Kept
<1> QED BY <1>1, FS_EmptySet

\* One.
LEMMA CreditOne ==
  ASSUME NEW P, NEW p, P \cap Places = {p}, ~Busy(p), NEW b
  PROVE  Cardinality(Kept(b) \cap P) = One(Data(p).at, b)
<1>1. CASE Data(p).at = b
  <2>1. Kept(b) \cap P = {p}
    BY <1>1 DEF Kept
  <2> QED BY <1>1, <2>1, FS_Singleton DEF One
<1>2. CASE Data(p).at # b
  <2>1. Kept(b) \cap P = {}
    BY <1>2 DEF Kept
  <2> QED BY <1>2, <2>1, FS_EmptySet DEF One
<1> QED BY <1>1, <1>2

\* Two.
LEMMA CreditTwo ==
  ASSUME NEW P, NEW p, NEW q, p # q, P \cap Places = {p, q}, ~Busy(p), ~Busy(q), NEW b
  PROVE  Cardinality(Kept(b) \cap P) = One(Data(p).at, b) + One(Data(q).at, b)
<1>1. PICK A : A = Kept(b) \cap {p}
  OBVIOUS
<1>2. IsFiniteSet(A) /\ Cardinality(A) = One(Data(p).at, b) /\ q \notin A
  <2>1. {p} \cap Places = {p}
    OBVIOUS
  <2>2. Cardinality(Kept(b) \cap {p}) = One(Data(p).at, b)
    BY <2>1, CreditOne
  <2>3. A \subseteq {p} /\ IsFiniteSet({p})
    BY <1>1, FS_Singleton
  <2> QED BY <1>1, <2>2, <2>3, FS_Subset
<1>3. CASE Data(q).at = b
  <2>1. Kept(b) \cap P = A \cup {q}
    BY <1>1, <1>3 DEF Kept
  <2>2. Cardinality(A \cup {q}) = Cardinality(A) + 1
    BY <1>2, FS_AddElement
  <2> QED BY <1>2, <1>3, <2>1, <2>2 DEF One
<1>4. CASE Data(q).at # b
  <2>1. Kept(b) \cap P = A
    BY <1>1, <1>4 DEF Kept
  <2> QED BY <1>2, <1>4, <2>1 DEF One
<1> QED BY <1>3, <1>4

-----------------------------------------------------------------------------
\* The first step, if it takes a reference.
Headed(t, P, L) == \A b \in Blocks : HeadIs(L, "inc", b) =>
  \/ Carried(L, b) >= 1 \/ b \in Firm(t, P)
  \/ \E a \in Blocks : (Carried(L, a) >= 1 \/ a \in Firm(t, P)) /\ Within(a) \in Kept(b) \ P

\* Steps that set one place that is there, and others within what they allocate.
LEMMA BegunPlace ==
  ASSUME DataAssumption, DataInv, NEW t \in Threads, SetIn(todo[t]) = {}, NEW P, NEW L, Well(t, Firm(t, P), L), SetIn(L) = P,
         \A n \in NewIn(L) : ~Live(n), Headed(t, P, L),
         NEW p \in P, p \in Places, ~Busy(p), \A c \in Blocks : p = Within(c) => Ref(c) = 1 /\ c \in Firm(t, P),
         \A q \in P : q = p \/ \E n \in NewIn(L) : q = Within(n),
         \A b \in Open(L) : p = Within(b),
         \A b \in Blocks : Carried(L, b) = One(Data(p).at, b)
  PROVE  Begun(t, L)
<1>1. P \cap Places = {p}
  <2>1. ASSUME NEW n \in NewIn(L) PROVE Within(n) \notin Places
    <3>1. ~Live(n)
      OBVIOUS
    <3>2. n \in Blocks
      BY StepsInSeq DEF Well, DataAssumption
    <3> QED BY <3>1, <3>2, PlacesDiffer DEF Places, Live
  <2> QED BY <2>1
<1>2. \A b \in Blocks : Carried(L, b) = Cardinality(Kept(b) \cap SetIn(L))
  <2> SUFFICES ASSUME NEW b \in Blocks PROVE Carried(L, b) = Cardinality(Kept(b) \cap SetIn(L))
    OBVIOUS
  <2>1. Cardinality(Kept(b) \cap P) = One(Data(p).at, b)
    BY <1>1, CreditOne
  <2> QED BY <2>1
<1>3. L \in Seq(StepSet(t)) /\ DelIn(L) = {} /\ Sound(Firm(t, SetIn(L)), L)
  BY DEF Well
<1>4. \A b \in Open(L) : Ref(b) = 1 /\ b \in Firm(t, SetIn(L))
  <2>1. Open(L) \subseteq Blocks
    BY <1>3, StepsInSeq DEF DataAssumption
  <2> QED BY <2>1
<1>5. \A a \in Blocks : Within(a) \in SetIn(L) => a \in NewIn(L) \/ Sole(t, a)
  <2> SUFFICES ASSUME NEW a \in Blocks, Within(a) \in P, a \notin NewIn(L) PROVE Sole(t, a)
    OBVIOUS
  <2>1. p = Within(a)
    BY PlacesDiffer
  <2>2. Ref(a) = 1 /\ a \in Firm(t, P)
    BY <2>1
  <2>3. Owns(t, a)
    <3>1. a \in Mine(t)
      BY <2>2 DEF Firm, Mine
    <3> QED BY <3>1 DEF Owns
  <2> QED BY <2>2, <2>3 DEF Sole
<1> QED BY <1>2, <1>3, <1>4, <1>5 DEF Begun, Headed

\* Steps that set a handle.
LEMMA BegunHandle ==
  ASSUME DataAssumption, DataInv, NEW t \in Threads, SetIn(todo[t]) = {}, NEW P, NEW L, Well(t, Firm(t, P), L), SetIn(L) = P,
         \A n \in NewIn(L) : ~Live(n), Headed(t, P, L),
         NEW h \in Own(t), Here(h) \in P,
         \A q \in P : q = Here(h) \/ \E n \in NewIn(L) : q = Within(n),
         \A b \in Blocks : b \notin Open(L) /\ Carried(L, b) = One(handle[h].at, b)
  PROVE  Begun(t, L)
<1>1. Here(h) \in Places /\ ~Busy(Here(h)) /\ Data(Here(h)) = handle[h]
  BY OwnFree
<1>2. \A c \in Blocks : Here(h) # Within(c)
  BY PlacesDiffer
<1>3. \A b \in Open(L) : FALSE
  <2>1. Open(L) \subseteq Blocks
    BY StepsInSeq DEF DataAssumption, Well
  <2> QED BY <2>1
<1> QED BY <1>1, <1>2, <1>3, BegunPlace

\* Steps that set nothing.
LEMMA BegunNothing ==
  ASSUME DataAssumption, DataInv, NEW t \in Threads, NEW L, Well(t, Firm(t, {}), L), SetIn(L) = {}, NewIn(L) = {}, Headed(t, {}, L),
         \A b \in Open(L) : \/ Ref(b) = 1 /\ b \in Firm(t, {})
                            \/ /\ JustPut(L) /\ Ref(b) = 1
                               /\ \E a \in Firm(t, {}) : Ref(a) = 1 /\ Within(a) \in Kept(b),
         \A b \in Blocks : Carried(L, b) = 0
  PROVE  Begun(t, L)
<1>1. \A b \in Blocks : Carried(L, b) = Cardinality(Kept(b) \cap SetIn(L))
  BY CreditNone
<1> QED BY <1>1 DEF Begun, Headed, Well

\* A handle that is not set is firm.
LEMMA FirmHandle ==
  ASSUME NEW t, NEW P, NEW h \in Own(t), Here(h) \notin P, handle[h].at \in Blocks
  PROVE  handle[h].at \in Firm(t, P)
BY DEF Firm

\* A list that takes no unowned reference first.
LEMMA SafeHeaded ==
  ASSUME NEW t, NEW P, NEW L, Safe(Firm(t, P), L)
  PROVE  Headed(t, P, L)
BY DEF Safe, Headed

-----------------------------------------------------------------------------
\* A block that one handle of a thread refers to, and nothing else.
LEMMA OneHandle ==
  ASSUME DataAssumption, DataInv, NEW t \in Threads, SetIn(todo[t]) = {}, NEW h \in Own(t), NEW c, c = handle[h].at,
         Shares(handle[h]), heap[c].ref <= 1
  PROVE  /\ c \in Blocks /\ Live(c) /\ Ref(c) = 1 /\ Sole(t, c)
         /\ \A g \in Own(t) \ {h} : handle[g].at # c
         /\ heap[c].inner \in DataSet /\ heap[c].inner.at # c /\ Reached(t, heap[c].inner)
         /\ Within(c) \in PlaceSet(t) /\ Within(c) \in Places /\ ~Busy(Within(c)) /\ Data(Within(c)) = heap[c].inner
         /\ Within(c) \in Kept(heap[c].inner.at)
<1>1. handle[h] \in DataSet /\ Reached(t, handle[h])
  BY OwnFree
<1>2. c \in Blocks
  BY <1>1, DataShape
<1>3. Live(c) /\ Ref(c) = heap[c].ref /\ Ref(c) \in Nat /\ Ref(c) >= 1 /\ Owns(t, c) /\ Here(h) \in Kept(c)
  BY <1>2, OwnFree
<1>4. Ref(c) = 1 /\ Sole(t, c)
  BY <1>3 DEF Sole
<1>5. Counted(c)
  BY <1>2 DEF DataInv, AllCounted
<1>6. \A p, q \in Kept(c) : p = q
  BY <1>4, <1>5, CountedFacts
<1>7. \A g \in Own(t) \ {h} : handle[g].at # c
  <2> SUFFICES ASSUME NEW g \in Own(t) \ {h}, handle[g].at = c PROVE FALSE
    OBVIOUS
  <2>1. Here(g) \in Kept(c)
    BY OwnFree
  <2> QED BY <2>1, <1>3, <1>6, PlacesDiffer
<1>8. /\ heap[c].inner \in DataSet /\ Reached(t, heap[c].inner) /\ Within(c) \in Kept(heap[c].inner.at)
      /\ Within(c) \in Places /\ ~Busy(Within(c))
  BY <1>1, InsideReached
<1>9. heap[c].inner.at # c
  <2>1. Within(c) \notin Kept(c)
    BY <1>2, <1>3, <1>6, PlacesDiffer
  <2> QED BY <2>1, <1>8
<1>10. Within(c) \in PlaceSet(t) /\ Data(Within(c)) = heap[c].inner
  BY <1>2, PlacesDiffer DEF PlaceSet, Data
<1> QED BY <1>2, <1>3, <1>4, <1>7, <1>8, <1>9, <1>10

\* Four lists, and what follows them; six.
LEMMA JoinFour ==
  ASSUME NEW S, NEW a \in Seq(S), NEW b \in Seq(S), NEW c \in Seq(S), NEW d \in Seq(S), NEW r \in Seq(S)
  PROVE  Join(Cat4(a, b, c, d), r) = Join(a, Join(b, Join(c, Join(d, r)))) /\ Cat4(a, b, c, d) \in Seq(S)
<1>1. PICK f, g : f = Cat3(a, b, c) /\ g = Join(d, r)
  OBVIOUS
<1>2. f \in Seq(S)
  BY <1>1, JoinThrice
<1>2a. g \in Seq(S)
  BY <1>1, JoinTwice
<1>3. Join(f \o d, r) = Join(f, g) /\ f \o d \in Seq(S)
  <2>1. Join(f \o d, r) = Join(f, Join(d, r)) /\ f \o d \in Seq(S)
    BY <1>2, JoinTwice
  <2> QED BY <2>1, <1>1
<1>4. Join(Cat3(a, b, c), g) = Join(a, Join(b, Join(c, g)))
  BY <1>2a, JoinThrice
<1> QED BY <1>1, <1>3, <1>4 DEF Cat3, Cat4

\* Six lists in a row.
LEMMA Join6 ==
  ASSUME NEW S, NEW a \in Seq(S), NEW b \in Seq(S), NEW c \in Seq(S), NEW d \in Seq(S), NEW f \in Seq(S), NEW g \in Seq(S),
         NEW e, e = <<>>
  PROVE  Cat6(a, b, c, d, f, g) = Join(a, Join(b, Join(c, Join(d, Join(f, Join(g, e))))))
<1>1. PICK h, k, l : h = Cat4(a, b, c, d) /\ k = Join(g, e) /\ l = Join(f, k)
  OBVIOUS
<1>2. h \in Seq(S)
  BY <1>1, JoinFour
<1>2a. k = g /\ k \in Seq(S)
  BY <1>1, JoinLast
<1>2b. l \in Seq(S)
  BY <1>1, <1>2a, JoinTwice
<1>3. Join(h \o f, k) = Join(h, Join(f, k))
  BY <1>2, <1>2a, JoinTwice
<1>4. Join(Cat4(a, b, c, d), l) = Join(a, Join(b, Join(c, Join(d, l))))
  BY <1>2b, JoinFour
<1>5. Cat6(a, b, c, d, f, g) = Join(h \o f, k)
  BY <1>1, <1>2a DEF Join, Cat4, Cat6
<1> QED BY <1>1, <1>3, <1>4, <1>5

\* The data of one place is replaced: Variant::operator=, and that of a pointer.
LEMMA DoReplace ==
  ASSUME NEW t \in Nat, NEW K, NEW r, Good(t, K, r), WrittenIn(r) = {}, NEW h \in Own(t), Here(h) \notin SetIn(r),
         NEW old \in DataSet, NEW d \in DataSet,
         Shares(d) => d.at \in K \/ d.at = old.at \/ Carried(r, d.at) >= 1,
         NEW L, L = Join(AssignVariant(h, old, d), r)
  PROVE  /\ Good(t, K, L) /\ L # <<>> /\ SetIn(L) = SetIn(r) \cup {Here(h)} /\ NewIn(L) = NewIn(r)
         /\ WrittenIn(L) = {} /\ Open(L) = {}
         /\ \A b \in Blocks : Carried(L, b) = Carried(r, b) + One(old.at, b)
<1>0. r \in Seq(StepSet(t)) /\ \A b \in Blocks : Carried(r, b) \in Nat
  BY DEF Good, Well
<1>1. PICK p : p = Here(h)
  OBVIOUS
<1>2. p \in PlaceSet(t) /\ p.block = NoBlock /\ \A b \in Blocks : p # Within(b)
  BY <1>1, PlacesDiffer DEF PlaceSet
<1>3. Hold(d) \in Seq(StepSet(t)) /\ Release(old) \in Seq(StepSet(t)) /\ Set(p, d) \in Seq(StepSet(t))
  BY <1>2, Pieces
<1>4. PICK A, B : A = Join(Set(p, d), r) /\ B = Join(Release(old), A)
  OBVIOUS
<1>5. L = Join(Hold(d), B)
  <2>1. AssignVariant(h, old, d) = Cat3(Hold(d), Release(old), Set(p, d))
    BY <1>1 DEF AssignVariant, Cat3
  <2> QED BY <2>1, <1>0, <1>3, <1>4, JoinThrice
<1>6. /\ Good(t, K, A) /\ A # <<>>
      /\ SetIn(A) = SetIn(r) \cup {p} /\ NewIn(A) = NewIn(r)
      /\ \A b \in Blocks : b \in WrittenIn(A) <=> b \in WrittenIn(r) \/ p = Within(b)
      /\ \A b \in Blocks : b \in Open(A) <=> b \in Open(r) \/ p = Within(b)
      /\ \A b \in Blocks : Carried(A, b) = Carried(r, b) + One(d.at, b)
  BY <1>1, <1>2, <1>4, DoSet
<1>7. WrittenIn(A) = {}
  BY <1>2, <1>6 DEF WrittenIn
<1>8. /\ Good(t, K, B) /\ Like(B, A)
      /\ \A b \in Blocks : Carried(B, b) = Carried(A, b) + One(old.at, b)
      /\ B # <<>> \/ A = <<>>
  <2>1. old.at \notin WrittenIn(A)
    BY <1>7
  <2> QED BY <2>1, <1>4, <1>6, DoRelease
<1>9. ASSUME Shares(d) PROVE Carried(B, d.at) >= 1 /\ (d.at \in K \/ Carried(B, d.at) >= 2)
  <2>0. d.at \in Blocks
    BY <1>9, DataShape
  <2>1. Carried(A, d.at) = Carried(r, d.at) + 1 /\ Carried(r, d.at) \in Nat
    BY <2>0, <1>6, <1>0 DEF One
  <2>2. Carried(B, d.at) = Carried(A, d.at) + One(old.at, d.at) /\ One(old.at, d.at) \in Nat
    BY <2>0, <1>8 DEF One
  <2>3. d.at = old.at => One(old.at, d.at) = 1
    BY DEF One
  <2> QED BY <2>1, <2>2, <2>3, <1>9
<1>10. /\ Well(t, K, L) /\ Like(L, B)
       /\ \A b \in Blocks : Carried(L, b) = Carried(B, b) - One(d.at, b)
       /\ ~Shares(d) \/ d.at \in K \/ Carried(B, d.at) >= 2 => Safe(K, L)
       /\ L # <<>> \/ B = <<>>
  <2>1. d.at \notin WrittenIn(B)
    BY <1>7, <1>8 DEF Like
  <2> QED BY <2>1, <1>5, <1>8, <1>9, DoHold
<1>11. \A b \in Blocks : Carried(L, b) = Carried(r, b) + One(old.at, b)
  <2> SUFFICES ASSUME NEW b \in Blocks PROVE Carried(L, b) = Carried(r, b) + One(old.at, b)
    OBVIOUS
  <2>1. Carried(r, b) \in Nat /\ One(d.at, b) \in Nat /\ One(old.at, b) \in Nat
    BY <1>0 DEF One
  <2>2. /\ Carried(L, b) = Carried(B, b) - One(d.at, b) /\ Carried(B, b) = Carried(A, b) + One(old.at, b)
        /\ Carried(A, b) = Carried(r, b) + One(d.at, b)
    BY <1>6, <1>8, <1>10
  <2> QED BY <2>1, <2>2
<1>12. WrittenIn(L) = {} /\ Open(L) = {}
  <2>1. WrittenIn(L) = {} /\ L \in Seq(StepSet(t))
    BY <1>7, <1>8, <1>10 DEF Like, Well
  <2> QED BY <2>1, StepsInSeq
<1> QED BY <1>1, <1>6, <1>8, <1>9, <1>10, <1>11, <1>12 DEF Like, Good

-----------------------------------------------------------------------------
\* A call whose steps may be begun.
LEMMA CallBegun ==
  ASSUME DataAssumption, DataInv, NEW t \in Threads, todo[t] = <<>>, NEW L, Begun(t, L),
         NEW h \in Own(t), NEW x \in Words \X Nat, Call(t, L, h, x)
  PROVE  DataInv'
<1>1. value' \in [Handles -> Words \X Nat]
  BY DEF Call, DataInv, Typed
<1> QED BY <1>1, RestCalm, Begin DEF Call

\* What is allocated is not what a thread has in its hands.
LEMMA NotFresh ==
  ASSUME DataAssumption, DataInv, NEW t \in Threads, SetIn(todo[t]) = {}, NEW d \in DataSet, Reached(t, d),
         NEW n \in Blocks, ~Live(n)
  PROVE  d.at # n
BY InsideReached, DataShape, PlacesDiffer

\* The String or the container in a Variant; type is what it is asked for.
LEMMA ElementFacts ==
  ASSUME DataAssumption, DataInv, NEW t \in Threads, SetIn(todo[t]) = {}, NEW d \in DataSet, Reached(t, d),
         NEW type \in Kinds, NEW e, e = (IF TypeOf(d) = type THEN heap[d.at].inner ELSE Null)
  PROVE  /\ e \in DataSet /\ Reached(t, e) /\ (TypeOf(d) = type => Shares(d))
         /\ Shares(e) => d.at \in Blocks /\ Within(d.at) \in Kept(e.at)
<1>1. TypeOf(d) = type => Shares(d)
  BY DEF TypeOf, Kinds
<1>2. CASE TypeOf(d) = type
  BY <1>1, <1>2, InsideReached
<1>3. CASE TypeOf(d) # type
  BY <1>3, Made DEF Reached
<1> QED BY <1>1, <1>2, <1>3

\* The String that toString() const returns.
LEMMA StringOfFacts ==
  ASSUME DataAssumption, DataInv, NEW t \in Threads, SetIn(todo[t]) = {}, NEW d \in DataSet, Reached(t, d),
         NEW e, e = StringOf(d)
  PROVE  /\ e \in DataSet /\ Reached(t, e)
         /\ Shares(e) => d.at \in Blocks /\ Within(d.at) \in Kept(e.at)
<1>1. CASE TypeOf(d) = "string"
  <2>1. "string" \in Kinds /\ e = (IF TypeOf(d) = "string" THEN heap[d.at].inner ELSE Null)
    BY <1>1 DEF StringOf, Kinds
  <2> QED BY <2>1, ElementFacts
<1>2. CASE TypeOf(d) # "string" /\ Shares(d)
  <2>1. e = Null
    BY <1>2 DEF StringOf
  <2> QED BY <2>1, Made DEF Reached
<1>3. CASE TypeOf(d) # "string" /\ ~Shares(d)
  <2>1. e = d
    BY <1>3 DEF StringOf
  <2> QED BY <2>1, <1>3
<1> QED BY <1>1, <1>2, <1>3

\* What a handle must hold is a word and a number.
LEMMA ValueFacts ==
  ASSUME DataAssumption, DataInv, NEW t \in Threads
  PROVE  /\ \A h \in Own(t) : /\ value[h] \in Words \X Nat /\ value[h][2] \in Nat /\ Grown(value[h][2]) \in Nat
                              /\ AsString(value[h]) \in Words \X Nat /\ Grown(AsString(value[h])[2]) \in Nat
         /\ \A x \in Nat : String(x) \in Words \X Nat /\ Scalar(x) \in Words \X Nat /\ Grown(x) \in Nat
<1>1. \A x \in Nat : String(x) \in Words \X Nat /\ Scalar(x) \in Words \X Nat /\ Grown(x) \in Nat /\ String(x)[2] = x
  <2>1. \A x \in Nat : Grown(x) \in Nat
    BY DEF Grown, DataAssumption
  <2>2. \A x \in Nat : String(x) \in Words \X Nat /\ Scalar(x) \in Words \X Nat /\ String(x)[2] = x
    <3> SUFFICES ASSUME NEW x \in Nat PROVE String(x) \in Words \X Nat /\ Scalar(x) \in Words \X Nat /\ String(x)[2] = x
      OBVIOUS
    <3>1. "string" \in Words /\ "scalar" \in Words
      BY DEF Words
    <3> QED BY <3>1 DEF String, Scalar
  <2> QED BY <2>1, <2>2
<1>2. \A h \in Own(t) : h \in Handles
  BY DEF Own, Handles
<1>3. \A h \in Own(t) : value[h] \in Words \X Nat /\ value[h][2] \in Nat
  BY <1>2 DEF DataInv, Typed
<1>4. \A h \in Own(t) : AsString(value[h]) \in Words \X Nat /\ AsString(value[h])[2] \in Nat
  BY <1>1, <1>3 DEF AsString
<1> QED BY <1>1, <1>3, <1>4

\* Between two calls.
LEMMA ReadyFacts ==
  ASSUME NEW t, Ready(t)
  PROVE  todo[t] = <<>> /\ Cardinality(Free(t)) >= 3 /\ Calm(t) /\ SetIn(todo[t]) = {}
BY RestCalm DEF Ready, Calm

\* append() and the like keep the invariant.
LEMMA AppendCall ==
  ASSUME DataAssumption, DataInv, NEW t \in Threads, Ready(t), NEW s \in Own(t), String_append(t, s)
  PROVE  DataInv'
<1>0. t \in Nat /\ todo[t] = <<>> /\ SetIn(todo[t]) = {}
  BY ReadyFacts DEF DataAssumption
<1>1. PICK p, L, x : p = Here(s) /\ L = Edit(p) /\ x = String(Grown(value[s][2]))
  OBVIOUS
<1>2. Call(t, L, s, x) /\ x \in Words \X Nat
  BY <1>1, ValueFacts DEF String_append
<1>3. p \in PlaceSet(t) /\ \A b \in Blocks : p # Within(b)
  BY <1>1, PlacesDiffer DEF PlaceSet
<1>4. PICK K : K = Firm(t, {})
  OBVIOUS
<1>5. /\ Good(t, K, L) /\ L # <<>> /\ (\A b : ~HeadIs(L, "inc", b))
      /\ SetIn(L) = {} /\ NewIn(L) = {}
      /\ \A b \in Blocks : b \in WrittenIn(L) <=> p = Within(b)
      /\ \A b \in Blocks : b \in Open(L) <=> p = Within(b)
      /\ \A b \in Blocks : Carried(L, b) = 0
  BY <1>0, <1>1, <1>3, DoEdit
<1>6. \A b \in Open(L) : FALSE
  <2>1. Open(L) \subseteq Blocks
    BY <1>0, <1>5, StepsInSeq DEF Good, Well
  <2> QED BY <2>1, <1>3, <1>5
<1>7. Headed(t, {}, L)
  BY <1>5 DEF Headed
<1>8. Begun(t, L)
  BY <1>4, <1>5, <1>6, <1>7, BegunNothing DEF Good
<1> QED BY <1>0, <1>2, <1>8, CallBegun

\* prepend() keeps the invariant, also in place of what it copies.
LEMMA PrependCall ==
  ASSUME DataAssumption, DataInv, NEW t \in Threads, Ready(t), NEW s \in Own(t), String_prepend(t, s)
  PROVE  DataInv'
<1>0. t \in Nat /\ todo[t] = <<>> /\ SetIn(todo[t]) = {} /\ Cardinality(Free(t)) >= 3
  BY ReadyFacts DEF DataAssumption
<1>1. PICK d, n, m, o, x, y, e, p :
        /\ d = handle[s] /\ n = Fresh(t, 1) /\ m = Fresh(t, 2) /\ o = Fresh(t, 3)
        /\ x = Grown(value[s][2]) /\ y = String(x) /\ e = <<>> /\ p = Here(s)
  OBVIOUS
<1>2. PICK c, f, K, P : c = CopyString(d, n) /\ f = InBlock(m) /\ P = {p} /\ K = Firm(t, P)
  OBVIOUS
<1>3. /\ n \in {t} \X (Nat \ {0}) /\ n \in Blocks /\ ~Live(n)
      /\ m \in {t} \X (Nat \ {0}) /\ m \in Blocks /\ ~Live(m) /\ n # m
  BY <1>0, <1>1, FreshThree
<1>4. d \in DataSet /\ Reached(t, d) /\ d.at # n /\ d.at # m /\ x \in Nat /\ y \in Words \X Nat
  <2>1. d \in DataSet /\ Reached(t, d)
    BY <1>0, <1>1, OwnFree
  <2>2. d.at # n /\ d.at # m
    BY <2>1, <1>0, <1>3, NotFresh
  <2>3. x \in Nat /\ y \in Words \X Nat
    BY <1>1, ValueFacts
  <2> QED BY <2>1, <2>2, <2>3
<1>5. /\ c.data \in DataSet /\ c.steps \in Seq(StepSet(t))
      /\ Shares(d) => c.data = d
      /\ ~Shares(d) => c.data = Null \/ c.data = InBlock(n)
  BY <1>0, <1>2, <1>3, <1>4, CopyData
<1>6. c.data.at # m
  BY <1>3, <1>4, <1>5, Made, PlacesDiffer
<1>7. p \in PlaceSet(t) /\ p.block = NoBlock /\ (\A b \in Blocks : p # Within(b)) /\ f \in DataSet /\ f.at = m
  BY <1>1, <1>2, <1>3, Made, PlacesDiffer DEF PlaceSet
<1>8. PICK A, B, C, D, E, L :
        /\ A = Join(Release(c.data), e) /\ B = Join(Put(m, x), A) /\ C = Join(Set(p, f), B)
        /\ D = Join(Release(d), C) /\ E = Join(New(m, Str(0)), D) /\ L = Join(c.steps, E)
  OBVIOUS
<1>9. Call(t, L, s, y)
  <2>1. Str(0) \in BlockSet /\ Str(0).ref = 1
    BY Made
  <2>2. /\ Release(c.data) \in Seq(StepSet(t)) /\ Put(m, x) \in Seq(StepSet(t)) /\ Set(p, f) \in Seq(StepSet(t))
        /\ Release(d) \in Seq(StepSet(t)) /\ New(m, Str(0)) \in Seq(StepSet(t))
    BY <2>1, <1>0, <1>3, <1>4, <1>5, <1>7, Pieces
  <2>3. L = c.steps \o New(m, Str(0)) \o Release(d) \o Set(p, f) \o Put(m, x) \o Release(c.data)
    <3>1. PICK a1, a2, a3, a4, a5, a6 :
            /\ a1 = c.steps /\ a2 = New(m, Str(0)) /\ a3 = Release(d)
            /\ a4 = Set(p, f) /\ a5 = Put(m, x) /\ a6 = Release(c.data)
      BY Zenon
    <3>2. /\ a1 \in Seq(StepSet(t)) /\ a2 \in Seq(StepSet(t)) /\ a3 \in Seq(StepSet(t))
          /\ a4 \in Seq(StepSet(t)) /\ a5 \in Seq(StepSet(t)) /\ a6 \in Seq(StepSet(t))
      BY <2>2, <1>5, <3>1
    <3>3. Cat6(a1, a2, a3, a4, a5, a6) = Join(a1, Join(a2, Join(a3, Join(a4, Join(a5, Join(a6, e))))))
      BY <3>2, <1>1, Join6
    <3>4. Cat6(a1, a2, a3, a4, a5, a6) = L
      BY <3>1, <3>3, <1>8
    <3> QED BY <3>1, <3>4 DEF Cat6
  <2> QED BY <2>3, <1>1, <1>2 DEF String_prepend
<1>10. /\ Good(t, K, e) /\ SetIn(e) = {} /\ NewIn(e) = {} /\ WrittenIn(e) = {} /\ Open(e) = {} /\ \A b : Carried(e, b) = 0
  BY <1>1, GoodNothing, NothingLeft
<1>11. /\ Good(t, K, A) /\ Like(A, e)
       /\ \A b \in Blocks : Carried(A, b) = Carried(e, b) + One(c.data.at, b)
  BY <1>0, <1>5, <1>8, <1>10, DoRelease
<1>12. /\ Good(t, K, B)
       /\ SetIn(B) = SetIn(A) /\ NewIn(B) = NewIn(A)
       /\ \A b \in Blocks : b \in WrittenIn(B) <=> b \in WrittenIn(A) \/ b = m
       /\ \A b \in Blocks : b \in Open(B) <=> b \in Open(A) \/ b = m
       /\ \A b \in Blocks : Carried(B, b) = Carried(A, b)
  <2>1. m \in Blocks /\ x \in Nat /\ B = Join(Put(m, x), A)
    BY <1>3, <1>4, <1>8
  <2> QED BY <2>1, <1>0, <1>11, DoPut
<1>13. /\ Good(t, K, C)
       /\ SetIn(C) = SetIn(B) \cup {p} /\ NewIn(C) = NewIn(B)
       /\ \A b \in Blocks : b \in WrittenIn(C) <=> b \in WrittenIn(B) \/ p = Within(b)
       /\ \A b \in Blocks : b \in Open(C) <=> b \in Open(B) \/ p = Within(b)
       /\ \A b \in Blocks : Carried(C, b) = Carried(B, b) + One(f.at, b)
  <2>1. p \notin SetIn(B)
    BY <1>10, <1>11, <1>12 DEF Like
  <2> QED BY <2>1, <1>0, <1>7, <1>8, <1>12, DoSet
<1>14. WrittenIn(C) \subseteq {m} /\ SetIn(C) = {p} /\ NewIn(C) = {} /\ \A b \in Blocks : b \in Open(C) => b = m
  BY <1>7, <1>10, <1>11, <1>12, <1>13 DEF Like, WrittenIn
<1>15. /\ Good(t, K, D) /\ Like(D, C)
       /\ \A b \in Blocks : Carried(D, b) = Carried(C, b) + One(d.at, b)
  <2>1. d.at \notin WrittenIn(C)
    BY <1>4, <1>14
  <2> QED BY <2>1, <1>0, <1>4, <1>8, <1>13, DoRelease
<1>16. \A b \in Blocks : /\ Carried(D, b) = One(c.data.at, b) + One(m, b) + One(d.at, b)
                         /\ One(c.data.at, b) \in Nat /\ One(m, b) \in Nat /\ One(d.at, b) \in Nat
  <2> SUFFICES ASSUME NEW b \in Blocks
               PROVE  /\ Carried(D, b) = One(c.data.at, b) + One(m, b) + One(d.at, b)
                      /\ One(c.data.at, b) \in Nat /\ One(m, b) \in Nat /\ One(d.at, b) \in Nat
    OBVIOUS
  <2>1. One(c.data.at, b) \in Nat /\ One(m, b) \in Nat /\ One(d.at, b) \in Nat
    BY DEF One
  <2>2. /\ Carried(D, b) = Carried(C, b) + One(d.at, b) /\ Carried(C, b) = Carried(B, b) + One(m, b)
        /\ Carried(B, b) = Carried(A, b) /\ Carried(A, b) = Carried(e, b) + One(c.data.at, b) /\ Carried(e, b) = 0
    BY <1>7, <1>10, <1>11, <1>12, <1>13, <1>15
  <2> QED BY <2>1, <2>2
<1>17. /\ Good(t, K, E)
       /\ SetIn(E) = SetIn(D) /\ NewIn(E) = NewIn(D) \cup {m}
       /\ \A b \in Blocks : b \in WrittenIn(E) <=> b \in WrittenIn(D)
       /\ \A b \in Blocks : b \in Open(E) <=> b \in Open(D) /\ b # m
       /\ \A b \in Blocks : Carried(E, b) = Carried(D, b) - One(m, b)
  <2>1. Carried(D, m) >= 1
    <3>1. One(m, m) = 1
      BY DEF One
    <3> QED BY <3>1, <1>3, <1>16
  <2>2. m \notin NewIn(D) /\ 0 \in Nat
    BY <1>14, <1>15 DEF Like
  <2> QED BY <2>1, <2>2, <1>0, <1>3, <1>8, <1>15, DoString
<1>18. \A b \in Blocks : Carried(E, b) = One(c.data.at, b) + One(d.at, b)
  BY <1>16, <1>17
<1>19. /\ Well(t, K, L)
       /\ SetIn(L) = SetIn(E) /\ NewIn(E) \subseteq NewIn(L) /\ NewIn(L) \subseteq NewIn(E) \cup {n}
       /\ \A b \in Blocks : b \in Open(L) => b \in Open(E)
       /\ \A b \in Blocks : Carried(L, b) = Carried(E, b) - One(c.data.at, b)
       /\ ~Shares(d) \/ d.at \in K \/ Carried(E, d.at) >= 2 => Safe(K, L)
  <2>1. n \notin NewIn(E)
    BY <1>3, <1>14, <1>15, <1>17 DEF Like
  <2>2. d.at \notin WrittenIn(E)
    <3>1. \A b \in Blocks : b \in WrittenIn(E) => b = m
      BY <1>14, <1>15, <1>17 DEF Like
    <3> QED BY <3>1, <1>4 DEF WrittenIn
  <2>3. Shares(c.data) => Carried(E, c.data.at) >= 1
    <3> SUFFICES ASSUME Shares(c.data) PROVE Carried(E, c.data.at) >= 1
      OBVIOUS
    <3>1. c.data.at \in Blocks /\ One(c.data.at, c.data.at) = 1
      BY <1>5, DataShape DEF One
    <3> QED BY <3>1, <1>16, <1>18
  <2>4. Copied(t, K, E, d, n, c, L)
    BY <2>1, <2>2, <2>3, <1>0, <1>2, <1>3, <1>4, <1>8, <1>17, DoCopy
  <2> QED BY <2>4 DEF Copied
<1>20. Safe(K, L)
  <2>1. ASSUME Shares(d) PROVE Carried(E, d.at) >= 2
    <3>1. d.at \in Blocks /\ c.data = d /\ One(d.at, d.at) = 1
      BY <2>1, <1>4, <1>5, DataShape DEF One
    <3> QED BY <3>1, <1>18
  <2> QED BY <2>1, <1>19
<1>21. Begun(t, L)
  <2>1. SetIn(L) = P /\ \A k \in NewIn(L) : ~Live(k)
    BY <1>2, <1>3, <1>14, <1>15, <1>17, <1>19 DEF Like
  <2>2. \A b \in Blocks : b \notin Open(L) /\ Carried(L, b) = One(handle[s].at, b)
    BY <1>1, <1>14, <1>15, <1>16, <1>17, <1>18, <1>19 DEF Like
  <2>3. Headed(t, P, L)
    BY <1>2, <1>20, SafeHeaded
  <2>4. Here(s) \in P /\ \A q \in P : q = Here(s) \/ \E k \in NewIn(L) : q = Within(k)
    BY <1>1, <1>2
  <2>5. Well(t, Firm(t, P), L)
    BY <1>2, <1>19
  <2> QED BY <2>1, <2>2, <2>3, <2>4, <2>5, <1>0, BegunHandle
<1> QED BY <1>0, <1>4, <1>9, <1>21, CallBegun

\* A handle gives up what it has, for a value.
LEMMA ResetBegun ==
  ASSUME DataAssumption, DataInv, NEW t \in Threads, SetIn(todo[t]) = {}, NEW h \in Own(t), NEW x \in Nat,
         NEW L, L = Release(handle[h]) \o Set(Here(h), Inline(x))
  PROVE  Begun(t, L)
<1>0. t \in Nat
  BY DEF DataAssumption
<1>1. PICK d, f, e, p, P, K : d = handle[h] /\ f = Inline(x) /\ e = <<>> /\ p = Here(h) /\ P = {p} /\ K = Firm(t, P)
  OBVIOUS
<1>2. d \in DataSet /\ f \in DataSet /\ f.at = NoBlock
  BY <1>1, OwnFree, Made
<1>3. p \in PlaceSet(t) /\ p.block = NoBlock /\ \A b \in Blocks : p # Within(b)
  BY <1>1, PlacesDiffer DEF PlaceSet
<1>4. PICK A : A = Join(Set(p, f), e)
  OBVIOUS
<1>5. L = Join(Release(d), A)
  <2>1. Set(p, f) \in Seq(StepSet(t))
    BY <1>0, <1>2, <1>3, Pieces
  <2>2. A = Set(p, f)
    BY <2>1, <1>1, <1>4, JoinLast
  <2> QED BY <2>2, <1>1 DEF Join
<1>6. /\ Good(t, K, e) /\ SetIn(e) = {} /\ NewIn(e) = {} /\ WrittenIn(e) = {} /\ Open(e) = {} /\ \A b : Carried(e, b) = 0
  BY <1>1, GoodNothing, NothingLeft
<1>7. /\ Good(t, K, A)
      /\ SetIn(A) = SetIn(e) \cup {p} /\ NewIn(A) = NewIn(e)
      /\ \A b \in Blocks : b \in WrittenIn(A) <=> b \in WrittenIn(e) \/ p = Within(b)
      /\ \A b \in Blocks : b \in Open(A) <=> b \in Open(e) \/ p = Within(b)
      /\ \A b \in Blocks : Carried(A, b) = Carried(e, b) + One(f.at, b)
  BY <1>0, <1>2, <1>3, <1>4, <1>6, DoSet
<1>8. /\ Good(t, K, L) /\ Like(L, A)
      /\ \A b \in Blocks : Carried(L, b) = Carried(A, b) + One(d.at, b)
  <2>1. d.at \notin WrittenIn(A)
    BY <1>3, <1>6, <1>7 DEF WrittenIn
  <2> QED BY <2>1, <1>0, <1>2, <1>5, <1>7, DoRelease
<1>9. SetIn(L) = P /\ \A n \in NewIn(L) : ~Live(n)
  BY <1>1, <1>6, <1>7, <1>8 DEF Like
<1>10. \A b \in Blocks : b \notin Open(L) /\ Carried(L, b) = One(handle[h].at, b)
  <2> SUFFICES ASSUME NEW b \in Blocks PROVE b \notin Open(L) /\ Carried(L, b) = One(handle[h].at, b)
    OBVIOUS
  <2>1. One(f.at, b) = 0 /\ One(d.at, b) \in Nat
    BY <1>2, PlacesDiffer DEF One
  <2>2. Carried(A, b) = Carried(e, b) + One(f.at, b) /\ Carried(L, b) = Carried(A, b) + One(d.at, b) /\ Carried(e, b) = 0
    BY <1>6, <1>7, <1>8
  <2>3. b \notin Open(L)
    BY <1>3, <1>6, <1>7, <1>8 DEF Like
  <2> QED BY <2>1, <2>2, <2>3, <1>1
<1>11. Headed(t, P, L) /\ Well(t, Firm(t, P), L)
  BY <1>1, <1>8, SafeHeaded DEF Good
<1>12. Here(h) \in P /\ \A q \in P : q = Here(h) \/ \E n \in NewIn(L) : q = Within(n)
  BY <1>1
<1> QED BY <1>9, <1>10, <1>11, <1>12, BegunHandle

\* A handle is given the data of another handle of the thread, of itself, or none.
LEMMA ReplaceBegun ==
  ASSUME DataAssumption, DataInv, NEW t \in Threads, SetIn(todo[t]) = {}, NEW h \in Own(t),
         NEW d, d = Null \/ \E g \in Own(t) : d = handle[g],
         NEW L, L = AssignVariant(h, handle[h], d)
  PROVE  Begun(t, L)
<1>0. t \in Nat
  BY DEF DataAssumption
<1>1. PICK old, e, p, P, K : old = handle[h] /\ e = <<>> /\ p = Here(h) /\ P = {p} /\ K = Firm(t, P)
  OBVIOUS
<1>2. old \in DataSet /\ d \in DataSet
  BY <1>1, OwnFree, Made
<1>3. Shares(d) => d.at \in K \/ d.at = old.at
  <2> SUFFICES ASSUME Shares(d), d.at # old.at PROVE d.at \in K
    OBVIOUS
  <2>1. PICK g \in Own(t) : d = handle[g]
    BY Made
  <2>2. g # h /\ d.at \in Blocks
    BY <2>1, <1>1, <1>2, DataShape
  <2>3. Here(g) \notin P
    BY <2>2, <1>1, PlacesDiffer
  <2> QED BY <2>1, <2>2, <2>3, <1>1, FirmHandle
<1>4. /\ Good(t, K, e) /\ SetIn(e) = {} /\ NewIn(e) = {} /\ WrittenIn(e) = {} /\ Open(e) = {} /\ \A b : Carried(e, b) = 0
  BY <1>1, GoodNothing, NothingLeft
<1>5. L = Join(AssignVariant(h, old, d), e)
  <2>1. Hold(d) \in Seq(StepSet(t)) /\ Release(old) \in Seq(StepSet(t)) /\ Set(p, d) \in Seq(StepSet(t))
    BY <1>0, <1>1, <1>2, Pieces DEF PlaceSet
  <2>2. Cat3(Hold(d), Release(old), Set(p, d)) \in Seq(StepSet(t))
    BY <2>1, <1>1, Join3
  <2>3. L = Cat3(Hold(d), Release(old), Set(p, d))
    BY <1>1 DEF AssignVariant, Cat3
  <2>4. L \in Seq(StepSet(t))
    BY <2>2, <2>3
  <2> QED BY <2>4, <1>1, JoinLast
<1>6. /\ Good(t, K, L) /\ L # <<>> /\ SetIn(L) = SetIn(e) \cup {Here(h)} /\ NewIn(L) = NewIn(e)
      /\ WrittenIn(L) = {} /\ Open(L) = {}
      /\ \A b \in Blocks : Carried(L, b) = Carried(e, b) + One(old.at, b)
  <2>1. Here(h) \notin SetIn(e)
    BY <1>4
  <2> QED BY <2>1, <1>0, <1>2, <1>3, <1>4, <1>5, DoReplace
<1>7. SetIn(L) = P /\ \A n \in NewIn(L) : ~Live(n)
  BY <1>1, <1>4, <1>6
<1>8. \A b \in Blocks : b \notin Open(L) /\ Carried(L, b) = One(handle[h].at, b)
  <2>1. \A b \in Blocks : One(old.at, b) \in Nat
    BY DEF One
  <2> QED BY <2>1, <1>1, <1>4, <1>6
<1>9. Headed(t, P, L) /\ Well(t, Firm(t, P), L)
  BY <1>1, <1>6, SafeHeaded DEF Good
<1>10. Here(h) \in P /\ \A q \in P : q = Here(h) \/ \E n \in NewIn(L) : q = Within(n)
  BY <1>1
<1> QED BY <1>7, <1>8, <1>9, <1>10, BegunHandle

\* A String is assigned a value, or itself.
LEMMA AssignBegun ==
  ASSUME DataAssumption, DataInv, NEW t \in Threads, SetIn(todo[t]) = {}, NEW s \in Own(t),
         NEW n \in {t} \X (Nat \ {0}), ~Live(n),
         NEW d, d = handle[s] \/ \E x \in Nat : d = Inline(x),
         NEW L, L = Assign(Here(s), handle[s], d, n)
  PROVE  Begun(t, L)
<1>0. t \in Nat
  BY DEF DataAssumption
<1>1. PICK old, e, p, P, K : old = handle[s] /\ e = <<>> /\ p = Here(s) /\ P = {p} /\ K = Firm(t, P)
  OBVIOUS
<1>2. old \in DataSet /\ d \in DataSet /\ (Shares(d) => d.at = old.at)
  BY <1>1, OwnFree, Made
<1>3. p \in PlaceSet(t) /\ \A b \in Blocks : p # Within(b)
  BY <1>1, PlacesDiffer DEF PlaceSet
<1>4. /\ Good(t, K, e) /\ SetIn(e) = {} /\ NewIn(e) = {} /\ WrittenIn(e) = {} /\ Open(e) = {} /\ \A b : Carried(e, b) = 0
  BY <1>1, GoodNothing, NothingLeft
<1>5. L = Join(Assign(p, old, d, n), e)
  <2>1. /\ Release(old) \in Seq(StepSet(t))
        /\ Shares(d) => Inc(d.at) \in Seq(StepSet(t)) /\ Set(p, d) \in Seq(StepSet(t))
        /\ ~Shares(d) => New(n, Str(d.val)) \in Seq(StepSet(t)) /\ Set(p, InBlock(n)) \in Seq(StepSet(t))
    <3>1. n \in Blocks /\ InBlock(n) \in DataSet
      BY <1>0, Made DEF Blocks
    <3>2. d.val \in Nat /\ (Shares(d) => d.at \in Blocks)
      BY <1>2, DataShape
    <3>3. Str(d.val) \in BlockSet /\ Str(d.val).ref = 1
      BY <3>2, Made
    <3> QED BY <3>1, <3>2, <3>3, <1>0, <1>2, <1>3, Pieces
  <2>2. L = IF Shares(d) THEN Cat3(Inc(d.at), Release(old), Set(p, d))
            ELSE Cat3(Release(old), New(n, Str(d.val)), Set(p, InBlock(n)))
    BY <1>1 DEF Assign, Cat3
  <2>3. L \in Seq(StepSet(t))
    BY <2>1, <2>2, <1>1, Join3
  <2> QED BY <2>3, <1>1, JoinLast
<1>6. /\ Good(t, K, L) /\ L # <<>>
      /\ SetIn(L) = SetIn(e) \cup {p} /\ NewIn(e) \subseteq NewIn(L) /\ NewIn(L) \subseteq NewIn(e) \cup {n}
      /\ \A b \in Blocks : b \in WrittenIn(L) <=> p = Within(b)
      /\ \A b \in Blocks : b \in Open(L) => p = Within(b)
      /\ \A b \in Blocks : Carried(L, b) = Carried(e, b) + One(old.at, b)
  <2>1. p \notin SetIn(e) /\ n \notin NewIn(e)
    BY <1>4
  <2>2. \A b \in Blocks : p = Within(b) => old.at # b /\ d.at # b /\ n # b
    BY <1>3
  <2>3. Shares(d) => d.at \in K \/ d.at = old.at \/ Carried(e, d.at) >= 1
    BY <1>2
  <2> QED BY <2>1, <2>2, <2>3, <1>0, <1>2, <1>3, <1>4, <1>5, DoAssign
<1>7. SetIn(L) = P /\ \A k \in NewIn(L) : ~Live(k)
  BY <1>1, <1>4, <1>6
<1>8. \A b \in Blocks : b \notin Open(L) /\ Carried(L, b) = One(handle[s].at, b)
  <2>1. \A b \in Blocks : One(old.at, b) \in Nat
    BY DEF One
  <2> QED BY <2>1, <1>1, <1>3, <1>4, <1>6
<1>9. Headed(t, P, L) /\ Well(t, Firm(t, P), L)
  BY <1>1, <1>6, SafeHeaded DEF Good
<1>10. Here(s) \in P /\ \A q \in P : q = Here(s) \/ \E k \in NewIn(L) : q = Within(k)
  BY <1>1
<1> QED BY <1>7, <1>8, <1>9, <1>10, BegunHandle

\* The values are numbers.
LEMMA NumbersNat == ASSUME DataAssumption PROVE Numbers \subseteq Nat
BY DEF Numbers, DataAssumption

\* attach() keeps the invariant,
LEMMA AttachCall ==
  ASSUME DataAssumption, DataInv, NEW t \in Threads, Ready(t), NEW s \in Own(t), NEW x \in Numbers, String_attach(t, s, x)
  PROVE  DataInv'
<1>0. todo[t] = <<>> /\ SetIn(todo[t]) = {} /\ x \in Nat
  BY ReadyFacts, NumbersNat
<1>1. PICK L, y : L = Release(handle[s]) \o Set(Here(s), Inline(x)) /\ y = String(x)
  OBVIOUS
<1>2. Call(t, L, s, y) /\ y \in Words \X Nat
  BY <1>0, <1>1, ValueFacts DEF String_attach
<1>3. Begun(t, L)
  BY <1>0, <1>1, ResetBegun
<1> QED BY <1>0, <1>2, <1>3, CallBegun

\* and so does the assignment of a scalar,
LEMMA AssignScalarCall ==
  ASSUME DataAssumption, DataInv, NEW t \in Threads, Ready(t), NEW v \in Own(t), NEW x \in Numbers, Variant_assignScalar(t, v, x)
  PROVE  DataInv'
<1>0. todo[t] = <<>> /\ SetIn(todo[t]) = {} /\ x \in Nat
  BY ReadyFacts, NumbersNat
<1>1. PICK L, y : L = Release(handle[v]) \o Set(Here(v), Inline(x)) /\ y = Scalar(x)
  OBVIOUS
<1>2. Call(t, L, v, y) /\ y \in Words \X Nat
  BY <1>0, <1>1, ValueFacts DEF Variant_assignScalar
<1>3. Begun(t, L)
  BY <1>0, <1>1, ResetBegun
<1> QED BY <1>0, <1>2, <1>3, CallBegun

\* clear(),
LEMMA ClearCall ==
  ASSUME DataAssumption, DataInv, NEW t \in Threads, Ready(t), NEW s \in Own(t), String_clear(t, s)
  PROVE  DataInv'
<1>0. t \in Nat /\ todo[t] = <<>> /\ SetIn(todo[t]) = {} /\ 0 \in Nat
  BY ReadyFacts DEF DataAssumption
<1>1. PICK d, y : d = handle[s] /\ y = String(0)
  OBVIOUS
<1>2. y \in Words \X Nat /\ d \in DataSet
  BY <1>0, <1>1, ValueFacts, OwnFree
<1>3. CASE Shares(d) /\ heap[d.at].ref = 1
  <2>1. PICK c, z, L, e, K : c = d.at /\ z = 0 /\ L = Put(c, z) /\ e = <<>> /\ K = Firm(t, {})
    OBVIOUS
  <2>2. Call(t, L, s, y)
    BY <1>1, <1>3, <2>1 DEF String_clear
  <2>3. c \in Blocks /\ Ref(c) = 1 /\ c \in K
    <3>1. c \in Blocks /\ Ref(c) = 1
      BY <1>0, <1>1, <1>3, <2>1, OneHandle
    <3> QED BY <3>1, <1>1, <2>1, FirmHandle
  <2>4. L = Join(Put(c, z), e) /\ z \in Nat
    BY <1>0, <2>1, <2>3, Pieces, JoinLast
  <2>5. /\ Good(t, K, e) /\ SetIn(e) = {} /\ NewIn(e) = {} /\ WrittenIn(e) = {} /\ Open(e) = {} /\ \A b : Carried(e, b) = 0
    BY <2>1, GoodNothing, NothingLeft
  <2>6. /\ Good(t, K, L)
        /\ SetIn(L) = SetIn(e) /\ NewIn(L) = NewIn(e)
        /\ \A b \in Blocks : b \in WrittenIn(L) <=> b \in WrittenIn(e) \/ b = c
        /\ \A b \in Blocks : b \in Open(L) <=> b \in Open(e) \/ b = c
        /\ \A b \in Blocks : Carried(L, b) = Carried(e, b)
    BY <1>0, <2>3, <2>4, <2>5, DoPut
  <2>7. \A b \in Open(L) : Ref(b) = 1 /\ b \in Firm(t, {})
    <3>1. Open(L) \subseteq Blocks
      BY <1>0, <2>6, StepsInSeq DEF Good, Well
    <3> QED BY <3>1, <2>1, <2>3, <2>5, <2>6
  <2>8. Headed(t, {}, L)
    BY <2>1, <2>6, SafeHeaded DEF Good
  <2>9. Begun(t, L)
    BY <2>1, <2>5, <2>6, <2>7, <2>8, BegunNothing DEF Good
  <2> QED BY <1>0, <1>2, <2>2, <2>9, CallBegun
<1>4. CASE ~(Shares(d) /\ heap[d.at].ref = 1)
  <2>1. PICK L : L = Release(handle[s]) \o Set(Here(s), Inline(0))
    OBVIOUS
  <2>2. Call(t, L, s, y)
    BY <1>1, <1>4, <2>1 DEF String_clear, Null
  <2>3. Begun(t, L)
    BY <1>0, <2>1, ResetBegun
  <2> QED BY <1>0, <1>2, <2>2, <2>3, CallBegun
<1> QED BY <1>3, <1>4

\* operator= of a String, also of itself,
LEMMA StringAssignCall ==
  ASSUME DataAssumption, DataInv, NEW t \in Threads, Ready(t), NEW s \in Own(t),
         NEW d, d = handle[s] \/ \E x \in Numbers : d = Inline(x), String_assign(t, s, d)
  PROVE  DataInv'
<1>0. todo[t] = <<>> /\ SetIn(todo[t]) = {} /\ Cardinality(Free(t)) >= 3 /\ Numbers \subseteq Nat
  BY ReadyFacts, NumbersNat
<1>1. PICK n, m, o, y, L : /\ n = Fresh(t, 1) /\ m = Fresh(t, 2) /\ o = Fresh(t, 3) /\ y = String(Text(d))
                           /\ L = Assign(Here(s), handle[s], d, n)
  OBVIOUS
<1>2. n \in {t} \X (Nat \ {0}) /\ ~Live(n)
  BY <1>0, <1>1, FreshThree
<1>3. d \in DataSet /\ Reached(t, d)
  BY <1>0, OwnFree, Made DEF Reached
<1>4. y \in Words \X Nat
  <2>1. Text(d) \in Nat
    BY <1>0, <1>3, TextNat
  <2> QED BY <2>1, <1>1, ValueFacts
<1>5. Call(t, L, s, y)
  BY <1>1 DEF String_assign
<1>6. Begun(t, L)
  <2>1. d = handle[s] \/ \E x \in Nat : d = Inline(x)
    BY <1>0
  <2> QED BY <2>1, <1>0, <1>1, <1>2, AssignBegun
<1> QED BY <1>0, <1>4, <1>5, <1>6, CallBegun

\* of a pointer,
LEMMA PtrAssignCall ==
  ASSUME DataAssumption, DataInv, NEW t \in Threads, Ready(t), NEW p \in Own(t),
         NEW d, d = Null \/ \E q \in Own(t) : d = handle[q], Ptr_assign(t, p, d)
  PROVE  DataInv'
<1>0. todo[t] = <<>> /\ SetIn(todo[t]) = {} /\ 0 \in Nat
  BY ReadyFacts
<1>1. PICK L, y : L = AssignVariant(p, handle[p], d) /\ y = String(0)
  OBVIOUS
<1>2. Call(t, L, p, y) /\ y \in Words \X Nat
  BY <1>0, <1>1, ValueFacts DEF Ptr_assign, AssignVariant
<1>3. Begun(t, L)
  BY <1>0, <1>1, ReplaceBegun
<1> QED BY <1>0, <1>2, <1>3, CallBegun

\* and of a Variant.
LEMMA VariantAssignCall ==
  ASSUME DataAssumption, DataInv, NEW t \in Threads, Ready(t), NEW v \in Own(t), NEW w \in Own(t), Variant_assign(t, v, w)
  PROVE  DataInv'
<1>0. t \in Nat /\ todo[t] = <<>> /\ SetIn(todo[t]) = {}
  BY ReadyFacts DEF DataAssumption
<1>1. PICK y : y = value[w]
  OBVIOUS
<1>2. y \in Words \X Nat
  BY <1>1, ValueFacts
<1>3. CASE v = w
  <2>1. PICK e, K : e = <<>> /\ K = Firm(t, {})
    OBVIOUS
  <2>2. Call(t, e, v, y)
    BY <1>1, <1>3, <2>1 DEF Variant_assign
  <2>3. /\ Good(t, K, e) /\ SetIn(e) = {} /\ NewIn(e) = {} /\ WrittenIn(e) = {} /\ Open(e) = {} /\ \A b : Carried(e, b) = 0
    BY <2>1, GoodNothing, NothingLeft
  <2>4. Headed(t, {}, e)
    BY <2>1, <2>3, SafeHeaded DEF Good
  <2>5. Begun(t, e)
    BY <2>1, <2>3, <2>4, BegunNothing DEF Good
  <2> QED BY <1>0, <1>2, <2>2, <2>5, CallBegun
<1>4. CASE v # w
  <2>1. PICK L : L = AssignVariant(v, handle[v], handle[w])
    OBVIOUS
  <2>2. Call(t, L, v, y)
    BY <1>1, <1>4, <2>1 DEF Variant_assign
  <2>3. Begun(t, L)
    BY <1>0, <2>1, ReplaceBegun
  <2> QED BY <1>0, <1>2, <2>2, <2>3, CallBegun
<1> QED BY <1>3, <1>4

\* The parts of an assignment are lists of steps, and so is the whole.
LEMMA AssignPieces ==
  ASSUME NEW t \in Nat, NEW p \in PlaceSet(t), NEW old \in DataSet, NEW d \in DataSet, NEW n \in {t} \X (Nat \ {0})
  PROVE  Assign(p, old, d, n) \in Seq(StepSet(t))
<1>1. PICK e : e = <<>>
  OBVIOUS
<1>2. /\ Release(old) \in Seq(StepSet(t))
      /\ Shares(d) => Inc(d.at) \in Seq(StepSet(t)) /\ Set(p, d) \in Seq(StepSet(t))
      /\ ~Shares(d) => New(n, Str(d.val)) \in Seq(StepSet(t)) /\ Set(p, InBlock(n)) \in Seq(StepSet(t))
  <2>1. n \in Blocks /\ InBlock(n) \in DataSet
    BY Made DEF Blocks
  <2>2. d.val \in Nat /\ (Shares(d) => d.at \in Blocks)
    BY DataShape
  <2>3. Str(d.val) \in BlockSet /\ Str(d.val).ref = 1
    BY <2>2, Made
  <2> QED BY <2>1, <2>2, <2>3, Pieces
<1>3. Assign(p, old, d, n) = IF Shares(d) THEN Cat3(Inc(d.at), Release(old), Set(p, d))
                             ELSE Cat3(Release(old), New(n, Str(d.val)), Set(p, InBlock(n)))
  BY DEF Assign, Cat3
<1> QED BY <1>1, <1>2, <1>3, Join3

\* The same of the assignment of a Variant.
LEMMA ReplacePieces ==
  ASSUME NEW t \in Nat, NEW h \in Own(t), NEW old \in DataSet, NEW d \in DataSet
  PROVE  AssignVariant(h, old, d) \in Seq(StepSet(t))
<1>1. PICK e, p : e = <<>> /\ p = Here(h)
  OBVIOUS
<1>2. Hold(d) \in Seq(StepSet(t)) /\ Release(old) \in Seq(StepSet(t)) /\ Set(p, d) \in Seq(StepSet(t))
  BY <1>1, Pieces DEF PlaceSet
<1>3. AssignVariant(h, old, d) = Cat3(Hold(d), Release(old), Set(p, d))
  BY <1>1 DEF AssignVariant, Cat3
<1> QED BY <1>1, <1>2, <1>3, Join3

\* A String is assigned that of a Variant, by way of a temporary.
LEMMA AssignVariantCall ==
  ASSUME DataAssumption, DataInv, NEW t \in Threads, Ready(t), NEW s \in Own(t), NEW v \in Own(t), s # v,
         String_assignVariant(t, s, v)
  PROVE  DataInv'
<1>0. t \in Nat /\ todo[t] = <<>> /\ SetIn(todo[t]) = {} /\ Cardinality(Free(t)) >= 3
  BY ReadyFacts DEF DataAssumption
<1>1. PICK old, d, n, m, o, y, e, p :
        /\ old = handle[s] /\ d = handle[v] /\ n = Fresh(t, 1) /\ m = Fresh(t, 2) /\ o = Fresh(t, 3)
        /\ y = AsString(value[v]) /\ e = <<>> /\ p = Here(s)
  OBVIOUS
<1>2. PICK g, P : g = StringOf(d) /\ P = {p}
  OBVIOUS
<1>2a. PICK c, K : c = CopyString(g, n) /\ K = Firm(t, P)
  OBVIOUS
<1>3. /\ n \in {t} \X (Nat \ {0}) /\ n \in Blocks /\ ~Live(n)
      /\ m \in {t} \X (Nat \ {0}) /\ m \in Blocks /\ ~Live(m) /\ n # m
  BY <1>0, <1>1, FreshThree
<1>4. old \in DataSet /\ d \in DataSet /\ Reached(t, d) /\ y \in Words \X Nat
  BY <1>0, <1>1, OwnFree, ValueFacts
<1>5. g \in DataSet /\ Reached(t, g) /\ (Shares(g) => d.at \in Blocks /\ Within(d.at) \in Kept(g.at))
  BY <1>0, <1>2, <1>4, StringOfFacts
<1>6. /\ c.data \in DataSet /\ c.steps \in Seq(StepSet(t))
      /\ Shares(g) => c.data = g
      /\ ~Shares(g) => c.data = Null \/ c.data = InBlock(n)
  BY <1>0, <1>2a, <1>3, <1>5, CopyData
<1>7. p \in PlaceSet(t) /\ \A b \in Blocks : p # Within(b)
  BY <1>1, PlacesDiffer DEF PlaceSet
<1>8. PICK A, B, L : /\ A = Join(Release(c.data), e) /\ B = Join(Assign(p, old, c.data, m), A) /\ L = Join(c.steps, B)
  OBVIOUS
<1>9. Call(t, L, s, y)
  <2>1. Release(c.data) \in Seq(StepSet(t)) /\ Assign(p, old, c.data, m) \in Seq(StepSet(t))
    BY <1>0, <1>3, <1>4, <1>6, <1>7, Pieces, AssignPieces
  <2>2. Cat3(c.steps, Assign(p, old, c.data, m), Release(c.data)) = L
    <3>1. PICK a1, a2, a3 : a1 = c.steps /\ a2 = Assign(p, old, c.data, m) /\ a3 = Release(c.data)
      OBVIOUS
    <3>2. a1 \in Seq(StepSet(t)) /\ a2 \in Seq(StepSet(t)) /\ a3 \in Seq(StepSet(t)) /\ e = <<>>
      BY <3>1, <2>1, <1>1, <1>6
    <3>3. Cat3(a1, a2, a3) = Join(a1, Join(a2, Join(a3, e)))
      BY <3>2, Join3
    <3> QED BY <3>1, <3>3, <1>8
  <2>3. L = c.steps \o Assign(p, old, c.data, m) \o Release(c.data)
    BY <2>2 DEF Cat3
  <2> QED BY <2>3, <1>1, <1>2, <1>2a DEF String_assignVariant
<1>10. /\ Good(t, K, e) /\ SetIn(e) = {} /\ NewIn(e) = {} /\ WrittenIn(e) = {} /\ Open(e) = {} /\ \A b : Carried(e, b) = 0
  BY <1>1, GoodNothing, NothingLeft
<1>11. /\ Good(t, K, A) /\ Like(A, e)
       /\ \A b \in Blocks : Carried(A, b) = Carried(e, b) + One(c.data.at, b)
  BY <1>0, <1>6, <1>8, <1>10, DoRelease
<1>12. Shares(c.data) => c.data.at \in Blocks /\ One(c.data.at, c.data.at) = 1
  BY <1>6, DataShape DEF One
<1>13. /\ Good(t, K, B) /\ B # <<>>
       /\ SetIn(B) = SetIn(A) \cup {p} /\ NewIn(A) \subseteq NewIn(B) /\ NewIn(B) \subseteq NewIn(A) \cup {m}
       /\ \A b \in Blocks : b \in WrittenIn(B) <=> p = Within(b)
       /\ \A b \in Blocks : b \in Open(B) => p = Within(b)
       /\ \A b \in Blocks : Carried(B, b) = Carried(A, b) + One(old.at, b)
  <2>1. p \notin SetIn(A) /\ m \notin NewIn(A) /\ WrittenIn(A) = {}
    BY <1>10, <1>11 DEF Like
  <2>2. \A b \in Blocks : p = Within(b) => old.at # b /\ c.data.at # b /\ m # b
    BY <1>7
  <2>3. Shares(c.data) => c.data.at \in K \/ c.data.at = old.at \/ Carried(A, c.data.at) >= 1
    BY <1>10, <1>11, <1>12
  <2> QED BY <2>1, <2>2, <2>3, <1>0, <1>3, <1>4, <1>6, <1>7, <1>8, <1>11, DoAssign
<1>14. \A b \in Blocks : /\ Carried(B, b) = One(c.data.at, b) + One(old.at, b)
                         /\ One(c.data.at, b) \in Nat /\ One(old.at, b) \in Nat
  <2>1. \A b \in Blocks : One(c.data.at, b) \in Nat /\ One(old.at, b) \in Nat
    BY DEF One
  <2> QED BY <2>1, <1>10, <1>11, <1>13
<1>15. /\ Well(t, K, L) /\ (L # <<>> \/ B = <<>>)
       /\ SetIn(L) = SetIn(B) /\ NewIn(B) \subseteq NewIn(L) /\ NewIn(L) \subseteq NewIn(B) \cup {n}
       /\ \A b \in Blocks : b \in WrittenIn(L) <=> b \in WrittenIn(B)
       /\ \A b \in Blocks : b \in Open(L) => b \in Open(B)
       /\ \A b \in Blocks : Carried(L, b) = Carried(B, b) - One(c.data.at, b)
       /\ \A b : Shares(g) /\ HeadIs(L, "inc", b) => b = g.at
       /\ ~Shares(g) \/ g.at \in K \/ Carried(B, g.at) >= 2 => Safe(K, L)
  <2>1. n \notin NewIn(B)
    BY <1>3, <1>10, <1>11, <1>13 DEF Like
  <2>2. g.at \notin WrittenIn(B)
    BY <1>7, <1>13 DEF WrittenIn
  <2>3. Shares(c.data) => Carried(B, c.data.at) >= 1
    BY <1>12, <1>14
  <2>4. Copied(t, K, B, g, n, c, L)
    BY <2>1, <2>2, <2>3, <1>0, <1>2a, <1>3, <1>5, <1>8, <1>13, DoCopy
  <2> QED BY <2>4 DEF Copied
<1>16. Headed(t, P, L)
  <2>1. CASE ~Shares(g)
    <3>1. Safe(Firm(t, P), L)
      BY <2>1, <1>2a, <1>15
    <3> QED BY <3>1, SafeHeaded
  <2>2. CASE Shares(g)
    <3>1. d.at \in Firm(t, P)
      <4>1. Here(v) \notin P
        BY <1>1, <1>2, PlacesDiffer
      <4> QED BY <4>1, <2>2, <1>1, <1>5, FirmHandle
    <3>2. Within(d.at) \in Kept(g.at) \ P
      BY <2>2, <1>2, <1>5, <1>7
    <3>3. \A b \in Blocks : HeadIs(L, "inc", b) => b = g.at
      BY <2>2, <1>15
    <3> QED BY <3>1, <3>2, <3>3, <2>2, <1>5 DEF Headed
  <2> QED BY <2>1, <2>2
<1>17. Begun(t, L)
  <2>1. SetIn(L) = P /\ \A k \in NewIn(L) : ~Live(k)
    BY <1>2, <1>3, <1>10, <1>11, <1>13, <1>15 DEF Like
  <2>2. \A b \in Blocks : b \notin Open(L) /\ Carried(L, b) = One(handle[s].at, b)
    BY <1>1, <1>7, <1>13, <1>14, <1>15
  <2>3. Here(s) \in P /\ \A q \in P : q = Here(s) \/ \E k \in NewIn(L) : q = Within(k)
    BY <1>1, <1>2
  <2>4. Well(t, Firm(t, P), L)
    BY <1>2a, <1>15
  <2> QED BY <2>1, <2>2, <2>3, <2>4, <1>0, <1>16, BegunHandle
<1> QED BY <1>0, <1>4, <1>9, <1>17, CallBegun

\* A pointer is assigned a new object.
LEMMA PtrAssignNewCall ==
  ASSUME DataAssumption, DataInv, NEW t \in Threads, Ready(t), NEW h \in Own(t), Ptr_assignNew(t, h)
  PROVE  DataInv'
<1>0. t \in Nat /\ todo[t] = <<>> /\ SetIn(todo[t]) = {} /\ Cardinality(Free(t)) >= 3 /\ 0 \in Nat
  BY ReadyFacts DEF DataAssumption
<1>1. PICK d, n, m, o, y, e, p :
        /\ d = handle[h] /\ n = Fresh(t, 1) /\ m = Fresh(t, 2) /\ o = Fresh(t, 3)
        /\ y = String(0) /\ e = <<>> /\ p = Here(h)
  OBVIOUS
<1>2. PICK f, P, K : f = InBlock(n) /\ P = {p} /\ K = Firm(t, P)
  OBVIOUS
<1>3. n \in {t} \X (Nat \ {0}) /\ n \in Blocks /\ ~Live(n)
  BY <1>0, <1>1, FreshThree
<1>4. d \in DataSet /\ d.at # n /\ y \in Words \X Nat
  <2>1. d \in DataSet /\ Reached(t, d)
    BY <1>0, <1>1, OwnFree
  <2> QED BY <2>1, <1>0, <1>1, <1>3, NotFresh, ValueFacts
<1>5. p \in PlaceSet(t) /\ p.block = NoBlock /\ (\A b \in Blocks : p # Within(b)) /\ f \in DataSet /\ f.at = n
  BY <1>1, <1>2, <1>3, Made, PlacesDiffer DEF PlaceSet
<1>6. PICK A, B, L : /\ A = Join(Set(p, f), e) /\ B = Join(Release(d), A) /\ L = Join(New(n, Object), Join(Inc(n), B))
  OBVIOUS
<1>7. Call(t, L, h, y)
  <2>1. Object \in BlockSet /\ Object.ref = 0
    BY Made DEF Object, BlockSet, Kinds
  <2>2. /\ New(n, Object) \in Seq(StepSet(t)) /\ Inc(n) \in Seq(StepSet(t))
        /\ Release(d) \in Seq(StepSet(t)) /\ Set(p, f) \in Seq(StepSet(t))
    BY <2>1, <1>0, <1>3, <1>4, <1>5, Pieces
  <2>3. Cat4(New(n, Object), Inc(n), Release(d), Set(p, f)) = L
    BY <2>2, <1>1, <1>6, Join4
  <2>4. L = New(n, Object) \o Inc(n) \o Release(d) \o Set(p, f)
    BY <2>3 DEF Cat4
  <2> QED BY <2>4, <1>1, <1>2 DEF Ptr_assignNew
<1>8. /\ Good(t, K, e) /\ SetIn(e) = {} /\ NewIn(e) = {} /\ WrittenIn(e) = {} /\ Open(e) = {} /\ \A b : Carried(e, b) = 0
  BY <1>1, GoodNothing, NothingLeft
<1>9. /\ Good(t, K, A)
      /\ SetIn(A) = SetIn(e) \cup {p} /\ NewIn(A) = NewIn(e)
      /\ \A b \in Blocks : b \in WrittenIn(A) <=> b \in WrittenIn(e) \/ p = Within(b)
      /\ \A b \in Blocks : b \in Open(A) <=> b \in Open(e) \/ p = Within(b)
      /\ \A b \in Blocks : Carried(A, b) = Carried(e, b) + One(f.at, b)
  <2>1. p \notin SetIn(e)
    BY <1>8
  <2> QED BY <2>1, <1>0, <1>5, <1>6, <1>8, DoSet
<1>10. /\ Good(t, K, B) /\ Like(B, A)
       /\ \A b \in Blocks : Carried(B, b) = Carried(A, b) + One(d.at, b)
  <2>1. d.at \notin WrittenIn(A)
    BY <1>5, <1>8, <1>9 DEF WrittenIn
  <2> QED BY <2>1, <1>0, <1>4, <1>6, <1>9, DoRelease
<1>11. \A b \in Blocks : Carried(B, b) = One(n, b) + One(d.at, b) /\ One(n, b) \in Nat /\ One(d.at, b) \in Nat
  <2>1. \A b \in Blocks : One(n, b) \in Nat /\ One(d.at, b) \in Nat
    BY DEF One
  <2> QED BY <2>1, <1>5, <1>8, <1>9, <1>10
<1>12. n \notin NewIn(B) /\ Carried(B, n) >= 1 /\ n \notin WrittenIn(B)
  <2>1. One(n, n) = 1
    BY DEF One
  <2>2. Carried(B, n) >= 1
    BY <2>1, <1>3, <1>11
  <2> QED BY <2>2, <1>3, <1>5, <1>8, <1>9, <1>10 DEF Like
<1>13. /\ Good(t, K, L)
       /\ SetIn(L) = SetIn(B) /\ NewIn(L) = NewIn(B) \cup {n}
       /\ \A b \in Blocks : b \in Open(L) => b \in Open(B)
       /\ \A b \in Blocks : Carried(L, b) = Carried(B, b) - One(n, b)
  BY <1>0, <1>3, <1>6, <1>10, <1>12, DoObject
<1>14. Begun(t, L)
  <2>1. SetIn(L) = P /\ \A k \in NewIn(L) : ~Live(k)
    BY <1>2, <1>3, <1>8, <1>9, <1>10, <1>13 DEF Like
  <2>2. \A b \in Blocks : b \notin Open(L) /\ Carried(L, b) = One(handle[h].at, b)
    BY <1>1, <1>5, <1>8, <1>9, <1>10, <1>11, <1>13 DEF Like
  <2>3. Here(h) \in P /\ \A q \in P : q = Here(h) \/ \E k \in NewIn(L) : q = Within(k)
    BY <1>1, <1>2
  <2>4. Well(t, Firm(t, P), L) /\ Headed(t, P, L)
    BY <1>2, <1>13, SafeHeaded DEF Good
  <2> QED BY <2>1, <2>2, <2>3, <2>4, <1>0, BegunHandle
<1> QED BY <1>0, <1>4, <1>7, <1>14, CallBegun

\* A Variant is assigned a String.
LEMMA VariantAssignStringCall ==
  ASSUME DataAssumption, DataInv, NEW t \in Threads, Ready(t), NEW v \in Own(t), NEW s \in Own(t), s # v,
         Variant_assignString(t, v, s)
  PROVE  DataInv'
<1>0. t \in Nat /\ todo[t] = <<>> /\ SetIn(todo[t]) = {} /\ Cardinality(Free(t)) >= 3
  BY ReadyFacts DEF DataAssumption
<1>1. PICK d, g, n, m, o, y, e :
        /\ d = handle[v] /\ g = handle[s] /\ n = Fresh(t, 1) /\ m = Fresh(t, 2) /\ o = Fresh(t, 3)
        /\ y = value[s] /\ e = <<>>
  OBVIOUS
<1>2. /\ n \in {t} \X (Nat \ {0}) /\ n \in Blocks /\ ~Live(n)
      /\ m \in {t} \X (Nat \ {0}) /\ m \in Blocks /\ ~Live(m) /\ n # m
  BY <1>0, <1>1, FreshThree
<1>3. d \in DataSet /\ g \in DataSet /\ Reached(t, d) /\ Reached(t, g) /\ y \in Words \X Nat
  BY <1>0, <1>1, OwnFree, ValueFacts
<1>4. d.at # n /\ d.at # m /\ g.at # n /\ g.at # m
  BY <1>0, <1>2, <1>3, NotFresh
<1>5. CASE Unshared(d, "string")
  <2>0. Shares(d) /\ heap[d.at].ref <= 1
    BY <1>5 DEF Unshared, TypeOf
  <2>1. PICK c, old, p, P : c = d.at /\ old = heap[c].inner /\ p = Within(c) /\ P = {p}
    OBVIOUS
  <2>2. PICK K, L : K = Firm(t, P) /\ L = Assign(p, old, g, n)
    OBVIOUS
  <2>3. Call(t, L, v, y)
    BY <1>1, <1>5, <2>1, <2>2 DEF Variant_assignString
  <2>4. /\ c \in Blocks /\ Live(c) /\ Ref(c) = 1 /\ Sole(t, c) /\ g.at # c
        /\ old \in DataSet /\ old.at # c /\ Reached(t, old)
        /\ p \in PlaceSet(t) /\ p \in Places /\ ~Busy(p) /\ Data(p) = old
    BY <1>0, <1>1, <2>0, <2>1, OneHandle
  <2>5. c \in K /\ (Shares(g) => g.at \in K)
    <3>1. Here(v) \notin P /\ Here(s) \notin P /\ (Shares(g) => g.at \in Blocks)
      BY <1>3, <2>1, <2>4, PlacesDiffer, DataShape
    <3> QED BY <3>1, <1>1, <2>1, <2>2, <2>4, FirmHandle
  <2>6. L = Join(Assign(p, old, g, n), e)
    BY <1>0, <1>1, <1>2, <1>3, <2>2, <2>4, AssignPieces, JoinLast
  <2>7. /\ Good(t, K, e) /\ SetIn(e) = {} /\ NewIn(e) = {} /\ WrittenIn(e) = {} /\ Open(e) = {} /\ \A b : Carried(e, b) = 0
    BY <1>1, GoodNothing, NothingLeft
  <2>8. /\ Good(t, K, L) /\ L # <<>>
        /\ SetIn(L) = SetIn(e) \cup {p} /\ NewIn(e) \subseteq NewIn(L) /\ NewIn(L) \subseteq NewIn(e) \cup {n}
        /\ \A b \in Blocks : b \in WrittenIn(L) <=> p = Within(b)
        /\ \A b \in Blocks : b \in Open(L) => p = Within(b)
        /\ \A b \in Blocks : Carried(L, b) = Carried(e, b) + One(old.at, b)
    <3>1. p \notin SetIn(e) /\ n \notin NewIn(e)
      BY <2>7
    <3>2. \A b \in Blocks : p = Within(b) => old.at # b /\ g.at # b /\ n # b
      BY <1>4, <2>1, <2>4, PlacesDiffer
    <3>3. Shares(g) => g.at \in K \/ g.at = old.at \/ Carried(e, g.at) >= 1
      BY <2>5
    <3> QED BY <3>1, <3>2, <3>3, <1>0, <1>2, <1>3, <2>4, <2>6, <2>7, DoAssign
  <2>9. Begun(t, L)
    <3>1. SetIn(L) = P /\ (\A k \in NewIn(L) : ~Live(k)) /\ Well(t, Firm(t, P), L) /\ Headed(t, P, L)
      BY <1>2, <2>1, <2>2, <2>7, <2>8, SafeHeaded DEF Good
    <3>2. \A b \in Blocks : p = Within(b) => Ref(b) = 1 /\ b \in Firm(t, P)
      BY <2>1, <2>2, <2>4, <2>5, PlacesDiffer
    <3>3. \A b \in Open(L) : p = Within(b)
      <4>1. Open(L) \subseteq Blocks
        BY <1>0, <2>8, StepsInSeq DEF Good, Well
      <4> QED BY <4>1, <2>8
    <3>4. \A b \in Blocks : Carried(L, b) = One(Data(p).at, b)
      <4>1. \A b \in Blocks : One(old.at, b) \in Nat
        BY DEF One
      <4> QED BY <4>1, <2>4, <2>7, <2>8
    <3>5. p \in P /\ \A q \in P : q = p \/ \E k \in NewIn(L) : q = Within(k)
      BY <2>1
    <3> QED BY <3>1, <3>2, <3>3, <3>4, <3>5, <1>0, <2>4, BegunPlace
  <2> QED BY <1>0, <1>3, <2>3, <2>9, CallBegun
<1>6. CASE ~Unshared(d, "string")
  <2>1. PICK c, f, p, P : c = CopyString(g, m) /\ f = InBlock(n) /\ p = Here(v) /\ P = {p}
    OBVIOUS
  <2>2. PICK k, K : k = Var("string", c.data) /\ K = Firm(t, P)
    OBVIOUS
  <2>3. /\ c.data \in DataSet /\ c.steps \in Seq(StepSet(t))
        /\ Shares(g) => c.data = g
        /\ ~Shares(g) => c.data = Null \/ c.data = InBlock(m)
    BY <1>0, <1>2, <1>3, <2>1, CopyData
  <2>4. c.data.at # n /\ (Shares(c.data) => c.data.at \in Blocks)
    BY <1>2, <1>4, <2>3, Made, PlacesDiffer, DataShape
  <2>5. p \in PlaceSet(t) /\ p.block = NoBlock /\ (\A b \in Blocks : p # Within(b)) /\ f \in DataSet /\ f.at = n
    BY <1>2, <2>1, Made, PlacesDiffer DEF PlaceSet
  <2>6. k \in BlockSet /\ k.ref = 1 /\ k.inner = c.data
    BY <2>2, <2>3, Made DEF Kinds
  <2>7. PICK A, B, C, L : /\ A = Join(Set(p, f), e) /\ B = Join(New(n, k), A) /\ C = Join(c.steps, B) /\ L = Join(Release(d), C)
    OBVIOUS
  <2>8. Call(t, L, v, y)
    <3>1. PICK a1, a2, a3, a4 : a1 = Release(d) /\ a2 = c.steps /\ a3 = New(n, k) /\ a4 = Set(p, f)
      OBVIOUS
    <3>2. a1 \in Seq(StepSet(t)) /\ a2 \in Seq(StepSet(t)) /\ a3 \in Seq(StepSet(t)) /\ a4 \in Seq(StepSet(t)) /\ e = <<>>
      BY <3>1, <1>0, <1>1, <1>2, <1>3, <2>3, <2>5, <2>6, Pieces
    <3>3. Cat4(a1, a2, a3, a4) = Join(a1, Join(a2, Join(a3, Join(a4, e))))
      BY <3>2, Join4
    <3>4. L = Release(d) \o c.steps \o New(n, k) \o Set(p, f)
      BY <3>1, <3>3, <2>7 DEF Cat4
    <3> QED BY <3>4, <1>1, <1>6, <2>1, <2>2 DEF Variant_assignString
  <2>9. /\ Good(t, K, e) /\ SetIn(e) = {} /\ NewIn(e) = {} /\ WrittenIn(e) = {} /\ Open(e) = {} /\ \A b : Carried(e, b) = 0
    BY <1>1, GoodNothing, NothingLeft
  <2>10. /\ Good(t, K, A)
         /\ SetIn(A) = SetIn(e) \cup {p} /\ NewIn(A) = NewIn(e)
         /\ \A b \in Blocks : b \in WrittenIn(A) <=> b \in WrittenIn(e) \/ p = Within(b)
         /\ \A b \in Blocks : b \in Open(A) <=> b \in Open(e) \/ p = Within(b)
         /\ \A b \in Blocks : Carried(A, b) = Carried(e, b) + One(f.at, b)
    <3>1. p \notin SetIn(e)
      BY <2>9
    <3> QED BY <3>1, <1>0, <2>5, <2>7, <2>9, DoSet
  <2>11. WrittenIn(A) = {} /\ Within(n) \notin SetIn(A) /\ Carried(A, n) >= 1
    <3>1. WrittenIn(A) = {}
      BY <2>5, <2>9, <2>10 DEF WrittenIn
    <3>2. Within(n) \notin SetIn(A)
      BY <1>2, <2>5, <2>9, <2>10
    <3>3. Carried(A, n) = 0 + 1
      BY <1>2, <2>5, <2>9, <2>10 DEF One
    <3> QED BY <3>1, <3>2, <3>3
  <2>12. /\ Good(t, K, B)
         /\ SetIn(B) = SetIn(A) /\ NewIn(B) = NewIn(A) \cup {n}
         /\ \A b \in Blocks : b \in WrittenIn(B) <=> b \in WrittenIn(A)
         /\ \A b \in Blocks : b \in Open(B) <=> b \in Open(A) /\ b # n
         /\ \A b \in Blocks : Carried(B, b) = Carried(A, b) + 1 * One(k.inner.at, b) - One(n, b)
    <3>1. PICK free : free = (IF Within(n) \in SetIn(A) THEN 0 ELSE 1) /\ free = 1
      BY <2>11
    <3>2. n \notin NewIn(A) /\ k.inner.at \notin WrittenIn(A) /\ k.inner.at # n
      BY <2>4, <2>6, <2>9, <2>10, <2>11
    <3>3. /\ Good(t, K, B) /\ B # <<>> /\ n \in Blocks /\ (\A b : ~HeadIs(B, "inc", b))
          /\ SetIn(B) = SetIn(A) /\ NewIn(B) = NewIn(A) \cup {n}
          /\ \A b \in Blocks : b \in WrittenIn(B) <=> b \in WrittenIn(A)
          /\ \A b \in Blocks : b \in Open(B) <=> b \in Open(A) /\ b # n
          /\ \A b \in Blocks : Carried(B, b) = Carried(A, b) + free * One(k.inner.at, b) - One(n, b)
      BY <3>1, <3>2, <1>0, <1>2, <2>6, <2>7, <2>10, <2>11, DoNew
    <3> QED BY <3>1, <3>3
  <2>13. \A b \in Blocks : Carried(B, b) = One(c.data.at, b) /\ One(c.data.at, b) \in Nat
    <3> SUFFICES ASSUME NEW b \in Blocks PROVE Carried(B, b) = One(c.data.at, b) /\ One(c.data.at, b) \in Nat
      OBVIOUS
    <3>1. One(c.data.at, b) \in Nat /\ One(n, b) \in Nat
      BY DEF One
    <3>2. /\ Carried(B, b) = Carried(A, b) + 1 * One(c.data.at, b) - One(n, b) /\ Carried(A, b) = Carried(e, b) + One(n, b)
          /\ Carried(e, b) = 0
      BY <2>5, <2>6, <2>9, <2>10, <2>12
    <3> QED BY <3>1, <3>2
  <2>14. /\ Well(t, K, C) /\ (C # <<>> \/ B = <<>>)
         /\ SetIn(C) = SetIn(B) /\ NewIn(B) \subseteq NewIn(C) /\ NewIn(C) \subseteq NewIn(B) \cup {m}
         /\ \A b \in Blocks : b \in WrittenIn(C) <=> b \in WrittenIn(B)
         /\ \A b \in Blocks : b \in Open(C) => b \in Open(B)
         /\ \A b \in Blocks : Carried(C, b) = Carried(B, b) - One(c.data.at, b)
         /\ \A b : Shares(g) /\ HeadIs(C, "inc", b) => b = g.at
         /\ ~Shares(g) \/ g.at \in K \/ Carried(B, g.at) >= 2 => Safe(K, C)
    <3>1. m \notin NewIn(B) /\ g.at \notin WrittenIn(B)
      BY <1>2, <2>9, <2>10, <2>11, <2>12 DEF WrittenIn
    <3>2. Shares(c.data) => Carried(B, c.data.at) >= 1
      <4>1. One(c.data.at, c.data.at) = 1
        BY DEF One
      <4> QED BY <4>1, <2>4, <2>13
    <3>3. /\ c = CopyString(g, m) /\ C = Join(c.steps, B) /\ Good(t, K, B)
          /\ t \in Nat /\ g \in DataSet /\ m \in {t} \X (Nat \ {0})
      BY <1>0, <1>2, <1>3, <2>1, <2>7, <2>12
    <3>4. Copied(t, K, B, g, m, c, C)
      BY <3>1, <3>2, <3>3, DoCopy
    <3> QED BY <3>4 DEF Copied
  <2>15. Good(t, K, C)
    <3>1. Shares(g) => g.at \in K
      <4>1. Here(s) \notin P /\ (Shares(g) => g.at \in Blocks)
        BY <1>3, <2>1, PlacesDiffer, DataShape
      <4> QED BY <4>1, <1>1, <2>2, FirmHandle
    <3> QED BY <3>1, <2>14 DEF Good
  <2>16. /\ Good(t, K, L) /\ Like(L, C)
         /\ \A b \in Blocks : Carried(L, b) = Carried(C, b) + One(d.at, b)
    <3>1. d.at \notin WrittenIn(C)
      BY <2>11, <2>12, <2>14 DEF WrittenIn
    <3> QED BY <3>1, <1>0, <1>3, <2>7, <2>15, DoRelease
  <2>17. Begun(t, L)
    <3>1. SetIn(L) = P /\ \A i \in NewIn(L) : ~Live(i)
      BY <1>2, <2>1, <2>9, <2>10, <2>12, <2>14, <2>16 DEF Like
    <3>2. \A b \in Blocks : b \notin Open(L) /\ Carried(L, b) = One(handle[v].at, b)
      <4> SUFFICES ASSUME NEW b \in Blocks PROVE b \notin Open(L) /\ Carried(L, b) = One(handle[v].at, b)
        OBVIOUS
      <4>1. b \notin Open(L)
        BY <2>5, <2>9, <2>10, <2>12, <2>14, <2>16 DEF Like
      <4>2. One(d.at, b) \in Nat
        BY DEF One
      <4>3. Carried(L, b) = Carried(C, b) + One(d.at, b) /\ Carried(C, b) = 0
        BY <2>13, <2>14, <2>16
      <4> QED BY <4>1, <4>2, <4>3, <1>1
    <3>3. Here(v) \in P /\ \A q \in P : q = Here(v) \/ \E i \in NewIn(L) : q = Within(i)
      BY <2>1
    <3>4. Well(t, Firm(t, P), L) /\ Headed(t, P, L)
      BY <2>2, <2>16, SafeHeaded DEF Good
    <3> QED BY <3>1, <3>2, <3>3, <3>4, <1>0, BegunHandle
  <2> QED BY <1>0, <1>3, <2>8, <2>17, CallBegun
<1> QED BY <1>5, <1>6

\* A handle gives up its block, for the new block n with the data i in it, and goes on with the
\* steps r, which write no more than that block.
Exchanged(t, K, h, d, n, i, r, L, free) ==
  /\ Good(t, K, L) /\ L # <<>> /\ (\A b : ~HeadIs(L, "inc", b))
  /\ SetIn(L) = SetIn(r) \cup {Here(h)} /\ NewIn(L) = {n} /\ WrittenIn(L) \subseteq {n} /\ Open(L) = {}
  /\ \A b \in Blocks : Carried(L, b) = Carried(r, b) + One(d.at, b) + free * One(i.at, b)

\* toString() of a Variant and the containers' functions: the block of a Variant is replaced.
LEMMA DoExchange ==
  ASSUME NEW t \in Nat, NEW K, NEW r, Good(t, K, r), NEW h \in Own(t), Here(h) \notin SetIn(r),
         NEW n \in {t} \X (Nat \ {0}), WrittenIn(r) \subseteq {n}, Open(r) \subseteq {n}, NewIn(r) = {},
         NEW d \in DataSet, d.at # n, NEW i \in DataSet, i.at # n, NEW type \in Kinds,
         NEW free, free = (IF Within(n) \in SetIn(r) THEN 0 ELSE 1),
         NEW L, L = Join(New(n, Var(type, i)), Join(Release(d), Join(Set(Here(h), InBlock(n)), r)))
  PROVE  Exchanged(t, K, h, d, n, i, r, L, free)
<1>1. PICK p, f, k : p = Here(h) /\ f = InBlock(n) /\ k = Var(type, i)
  OBVIOUS
<1>2. n \in Blocks
  BY DEF Blocks
<1>3. p \in PlaceSet(t) /\ p.block = NoBlock /\ (\A b \in Blocks : p # Within(b)) /\ f \in DataSet /\ f.at = n
  BY <1>1, <1>2, Made, PlacesDiffer DEF PlaceSet
<1>4. k \in BlockSet /\ k.ref = 1 /\ k.inner = i
  BY <1>1, Made
<1>5. PICK A, B : A = Join(Set(p, f), r) /\ B = Join(Release(d), A)
  OBVIOUS
<1>6. L = Join(New(n, k), B)
  BY <1>1, <1>5
<1>7. /\ Good(t, K, A) /\ A # <<>> /\ (\A b : ~HeadIs(A, "inc", b))
      /\ SetIn(A) = SetIn(r) \cup {p} /\ NewIn(A) = NewIn(r)
      /\ \A b \in Blocks : b \in WrittenIn(A) <=> b \in WrittenIn(r) \/ p = Within(b)
      /\ \A b \in Blocks : b \in Open(A) <=> b \in Open(r) \/ p = Within(b)
      /\ \A b \in Blocks : Carried(A, b) = Carried(r, b) + One(f.at, b)
  BY <1>1, <1>3, <1>5, DoSet
<1>8. WrittenIn(A) \subseteq {n} /\ Open(A) \subseteq {n}
  <2>1. WrittenIn(A) \subseteq Blocks /\ Open(A) \subseteq Blocks
    BY DEF WrittenIn, Open
  <2> QED BY <2>1, <1>3, <1>7
<1>9. /\ Good(t, K, B) /\ Like(B, A)
      /\ \A b \in Blocks : Carried(B, b) = Carried(A, b) + One(d.at, b)
      /\ B # <<>> \/ A = <<>>
  <2>1. d.at \notin WrittenIn(A)
    BY <1>8
  <2> QED BY <2>1, <1>5, <1>7, DoRelease
<1>10. SetIn(B) = SetIn(r) \cup {p} /\ NewIn(B) = {} /\ WrittenIn(B) \subseteq {n} /\ Open(B) \subseteq {n}
  BY <1>7, <1>8, <1>9 DEF Like
<1>11. \A b \in Blocks : /\ Carried(r, b) \in Nat /\ One(n, b) \in Nat /\ One(d.at, b) \in Nat
                         /\ Carried(B, b) = Carried(r, b) + One(n, b) + One(d.at, b)
  <2>1. \A b \in Blocks : Carried(r, b) \in Nat
    BY DEF Good, Well
  <2>2. \A b \in Blocks : One(n, b) \in Nat /\ One(d.at, b) \in Nat
    BY DEF One
  <2> QED BY <2>1, <2>2, <1>3, <1>7, <1>9
<1>12. Carried(B, n) >= 1
  <2>1. One(n, n) = 1
    BY DEF One
  <2> QED BY <2>1, <1>2, <1>11
<1>13. free = (IF Within(n) \in SetIn(B) THEN 0 ELSE 1) /\ free \in {0, 1}
  <2>1. Within(n) # p
    BY <1>2, <1>3
  <2> QED BY <2>1, <1>10
<1>14. /\ Good(t, K, L) /\ L # <<>> /\ n \in Blocks /\ (\A b : ~HeadIs(L, "inc", b))
       /\ SetIn(L) = SetIn(B) /\ NewIn(L) = NewIn(B) \cup {n}
       /\ \A b \in Blocks : b \in WrittenIn(L) <=> b \in WrittenIn(B)
       /\ \A b \in Blocks : b \in Open(L) <=> b \in Open(B) /\ b # n
       /\ \A b \in Blocks : Carried(L, b) = Carried(B, b) + free * One(k.inner.at, b) - One(n, b)
  <2>1. n \notin NewIn(B) /\ k.inner.at \notin WrittenIn(B) /\ k.inner.at # n
    BY <1>4, <1>10
  <2> QED BY <2>1, <1>4, <1>6, <1>9, <1>12, <1>13, DoNew
<1>15. WrittenIn(L) \subseteq {n} /\ Open(L) = {} /\ SetIn(L) = SetIn(r) \cup {Here(h)} /\ NewIn(L) = {n}
  <2>1. WrittenIn(L) \subseteq Blocks /\ Open(L) \subseteq Blocks
    BY DEF WrittenIn, Open
  <2> QED BY <2>1, <1>1, <1>10, <1>14
<1>16. \A b \in Blocks : Carried(L, b) = Carried(r, b) + One(d.at, b) + free * One(i.at, b)
  <2> SUFFICES ASSUME NEW b \in Blocks PROVE Carried(L, b) = Carried(r, b) + One(d.at, b) + free * One(i.at, b)
    OBVIOUS
  <2>1. PICK z : z = free * One(i.at, b)
    OBVIOUS
  <2>2. z \in {0, 1}
    BY <2>1, <1>13 DEF One
  <2>3. Carried(L, b) = Carried(r, b) + One(n, b) + One(d.at, b) + z - One(n, b)
    BY <2>1, <1>4, <1>11, <1>14
  <2>4. Carried(r, b) \in Nat /\ One(n, b) \in Nat /\ One(d.at, b) \in Nat
    BY <1>11
  <2> QED BY <2>1, <2>2, <2>3, <2>4
<1> QED BY <1>14, <1>15, <1>16 DEF Exchanged

\* A list that takes the reference to what is in the block of a handle first, and releases that block.
LEMMA HeadedWithin ==
  ASSUME NEW t, NEW P, NEW L, NEW K, K = Firm(t, P), NEW g \in DataSet, NEW c,
         \A b : Shares(g) /\ HeadIs(L, "inc", b) => b = g.at,
         ~Shares(g) => Safe(K, L),
         Shares(g) => c \in Blocks /\ Carried(L, c) >= 1 /\ Within(c) \in Kept(g.at) \ P
  PROVE  Headed(t, P, L)
<1>1. CASE Shares(g)
  BY <1>1 DEF Headed
<1>2. CASE ~Shares(g)
  BY <1>2, SafeHeaded
<1> QED BY <1>1, <1>2

\* A call that has only a String to edit in a block that nobody else refers to.
LEMMA EditBegun ==
  ASSUME DataAssumption, DataInv, NEW t \in Threads, SetIn(todo[t]) = {}, NEW p \in PlaceSet(t),
         NEW L, L = Edit(p),
         \A b \in Blocks : p = Within(b) => Ref(b) = 1 /\ b \in Firm(t, {})
  PROVE  Begun(t, L)
<1>0. t \in Nat
  BY DEF DataAssumption
<1>1. PICK K : K = Firm(t, {})
  OBVIOUS
<1>2. /\ Good(t, K, L) /\ L # <<>> /\ (\A b : ~HeadIs(L, "inc", b))
      /\ SetIn(L) = {} /\ NewIn(L) = {}
      /\ \A b \in Blocks : b \in WrittenIn(L) <=> p = Within(b)
      /\ \A b \in Blocks : b \in Open(L) <=> p = Within(b)
      /\ \A b \in Blocks : Carried(L, b) = 0
  BY <1>0, DoEdit
<1>3. \A b \in Open(L) : Ref(b) = 1 /\ b \in Firm(t, {})
  <2>1. Open(L) \subseteq Blocks
    BY DEF Open
  <2> QED BY <2>1, <1>2
<1>4. Headed(t, {}, L)
  BY <1>2 DEF Headed
<1> QED BY <1>1, <1>2, <1>3, <1>4, BegunNothing DEF Good

\* toString() leaves a string in the Variant, which the caller changes.
LEMMA ToStringCall ==
  ASSUME DataAssumption, DataInv, NEW t \in Threads, Ready(t), NEW v \in Own(t), Variant_toString(t, v)
  PROVE  DataInv'
<1>0. t \in Nat /\ todo[t] = <<>> /\ SetIn(todo[t]) = {} /\ Cardinality(Free(t)) >= 3
  BY ReadyFacts DEF DataAssumption
<1>1. PICK d, g, n, m, o, y, e :
        /\ d = handle[v] /\ g = StringOf(d) /\ n = Fresh(t, 1) /\ m = Fresh(t, 2) /\ o = Fresh(t, 3)
        /\ y = String(Grown(AsString(value[v])[2])) /\ e = <<>>
  OBVIOUS
<1>2. /\ n \in {t} \X (Nat \ {0}) /\ n \in Blocks /\ ~Live(n)
      /\ m \in {t} \X (Nat \ {0}) /\ m \in Blocks /\ ~Live(m) /\ n # m
  BY <1>0, <1>1, FreshThree
<1>3. d \in DataSet /\ Reached(t, d) /\ y \in Words \X Nat
  <2>1. d \in DataSet /\ Reached(t, d)
    BY <1>0, <1>1, OwnFree
  <2>2. PICK z : z = Grown(AsString(value[v])[2])
    OBVIOUS
  <2>3. z \in Nat
    BY <2>2, ValueFacts
  <2>4. String(z) \in Words \X Nat
    BY <2>3, ValueFacts
  <2> QED BY <2>1, <2>2, <2>4, <1>1
<1>4. /\ g \in DataSet /\ Reached(t, g)
      /\ Shares(g) => d.at \in Blocks /\ Within(d.at) \in Kept(g.at)
  BY <1>0, <1>1, <1>3, StringOfFacts
<1>5. d.at # n /\ g.at # n
  BY <1>0, <1>2, <1>3, <1>4, NotFresh
<1>6. CASE Unshared(d, "string")
  <2>1. Shares(d) /\ heap[d.at].ref <= 1
    BY <1>6 DEF Unshared, TypeOf
  <2>2. PICK c, p, L : c = d.at /\ p = Within(c) /\ L = Edit(p)
    OBVIOUS
  <2>3. Call(t, L, v, y)
    BY <1>1, <1>6, <2>2 DEF Variant_toString
  <2>4. c \in Blocks /\ Ref(c) = 1 /\ p \in PlaceSet(t)
    BY <1>0, <1>1, <2>1, <2>2, OneHandle
  <2>5. c \in Firm(t, {})
    BY <1>1, <2>2, <2>4, FirmHandle
  <2>6. \A b \in Blocks : p = Within(b) => Ref(b) = 1 /\ b \in Firm(t, {})
    BY <2>2, <2>4, <2>5, PlacesDiffer
  <2>7. Begun(t, L)
    BY <1>0, <2>2, <2>4, <2>6, EditBegun
  <2> QED BY <1>0, <1>3, <2>3, <2>7, CallBegun
<1>7. CASE ~Unshared(d, "string")
  <2>1. PICK c, p, q, P : c = CopyString(g, m) /\ p = Here(v) /\ q = Within(n) /\ P = {p}
    OBVIOUS
  <2>2. PICK K, i : K = Firm(t, P) /\ i = c.data
    OBVIOUS
  <2>3. /\ i \in DataSet /\ c.steps \in Seq(StepSet(t))
        /\ Shares(g) => i = g
        /\ ~Shares(g) => i = Null \/ i = InBlock(m)
    BY <1>0, <1>2, <1>4, <2>1, <2>2, CopyData
  <2>4. i.at # n /\ (Shares(i) => i.at \in Blocks)
    BY <1>2, <1>5, <2>3, Made, PlacesDiffer, DataShape
  <2>5. /\ p \in PlaceSet(t) /\ (\A b \in Blocks : p # Within(b)) /\ q \in PlaceSet(t)
        /\ InBlock(n) \in DataSet /\ Var("string", i) \in BlockSet /\ Var("string", i).ref = 1
    BY <1>2, <2>1, <2>3, Made, PlacesDiffer DEF PlaceSet, Kinds
  <2>6. PICK A, B, L : /\ A = Edit(q) /\ B = Join(New(n, Var("string", i)), Join(Release(d), Join(Set(p, InBlock(n)), A)))
                       /\ L = Join(c.steps, B)
    OBVIOUS
  <2>7. Call(t, L, v, y)
    <3>1. PICK a1, a2, a3, a4 : a1 = c.steps /\ a2 = New(n, Var("string", i)) /\ a3 = Release(d) /\ a4 = Set(p, InBlock(n))
      OBVIOUS
    <3>2. a1 \in Seq(StepSet(t)) /\ a2 \in Seq(StepSet(t)) /\ a3 \in Seq(StepSet(t)) /\ a4 \in Seq(StepSet(t)) /\ A \in Seq(StepSet(t))
      BY <3>1, <1>0, <1>2, <1>3, <2>3, <2>5, <2>6, Pieces
    <3>3. Cat5(a1, a2, a3, a4, A) = Join(a1, Join(a2, Join(a3, Join(a4, Join(A, e)))))
      BY <3>2, <1>1, Join5
    <3>4. Join(A, e) = A
      BY <3>2, <1>1, JoinLast
    <3>5. L = c.steps \o New(n, Var("string", i)) \o Release(d) \o Set(p, InBlock(n)) \o Edit(q)
      BY <3>1, <3>3, <3>4, <2>6 DEF Cat5
    <3> QED BY <3>5, <1>1, <1>7, <2>1, <2>2 DEF Variant_toString
  <2>8. /\ Good(t, K, A) /\ A # <<>> /\ (\A b : ~HeadIs(A, "inc", b))
        /\ SetIn(A) = {} /\ NewIn(A) = {}
        /\ \A b \in Blocks : b \in WrittenIn(A) <=> q = Within(b)
        /\ \A b \in Blocks : b \in Open(A) <=> q = Within(b)
        /\ \A b \in Blocks : Carried(A, b) = 0
    BY <1>0, <2>5, <2>6, DoEdit
  <2>9. WrittenIn(A) \subseteq {n} /\ Open(A) \subseteq {n} /\ Here(v) \notin SetIn(A)
    <3>1. WrittenIn(A) \subseteq Blocks /\ Open(A) \subseteq Blocks
      BY DEF WrittenIn, Open
    <3> QED BY <3>1, <2>1, <2>8, PlacesDiffer
  <2>10. PICK free : free = (IF Within(n) \in SetIn(A) THEN 0 ELSE 1) /\ free = 1
    BY <2>8
  <2>11. Exchanged(t, K, v, d, n, i, A, B, free)
    BY <1>0, <1>2, <1>3, <1>5, <2>1, <2>3, <2>4, <2>6, <2>8, <2>9, <2>10, DoExchange DEF Kinds
  <2>12. /\ Good(t, K, B) /\ SetIn(B) = P /\ NewIn(B) = {n} /\ WrittenIn(B) \subseteq {n} /\ Open(B) = {}
         /\ \A b \in Blocks : /\ Carried(B, b) = One(d.at, b) + One(i.at, b)
                              /\ One(d.at, b) \in Nat /\ One(i.at, b) \in Nat
    <3>1. \A b \in Blocks : One(d.at, b) \in Nat /\ One(i.at, b) \in Nat
      BY DEF One
    <3>2. \A b \in Blocks : Carried(B, b) = 0 + One(d.at, b) + 1 * One(i.at, b)
      BY <2>8, <2>10, <2>11 DEF Exchanged
    <3>3. \A b \in Blocks : Carried(B, b) = One(d.at, b) + One(i.at, b)
      BY <3>1, <3>2
    <3> QED BY <3>1, <3>3, <2>1, <2>8, <2>11 DEF Exchanged
  <2>13. Copied(t, K, B, g, m, c, L)
    <3>1. m \notin NewIn(B) /\ g.at \notin WrittenIn(B)
      BY <1>2, <1>5, <2>12
    <3>2. Shares(c.data) => Carried(B, c.data.at) >= 1
      <4>1. One(i.at, i.at) = 1
        BY DEF One
      <4> QED BY <4>1, <2>2, <2>4, <2>12
    <3> QED BY <3>1, <3>2, <1>0, <1>2, <1>4, <2>1, <2>6, <2>12, DoCopy
  <2>14. Begun(t, L)
    <3>1. Well(t, Firm(t, P), L) /\ SetIn(L) = P /\ (\A j \in NewIn(L) : ~Live(j))
      BY <1>2, <2>2, <2>12, <2>13 DEF Copied
    <3>2. \A b \in Blocks : b \notin Open(L) /\ Carried(L, b) = One(handle[v].at, b)
      BY <1>1, <2>2, <2>12, <2>13 DEF Copied
    <3>3. Headed(t, P, L)
      <4>1. \A b : Shares(g) /\ HeadIs(L, "inc", b) => b = g.at
        BY <2>13 DEF Copied
      <4>2. ~Shares(g) => Safe(K, L)
        BY <2>13 DEF Copied
      <4>3. ASSUME Shares(g) PROVE d.at \in Blocks /\ Carried(L, d.at) >= 1 /\ Within(d.at) \in Kept(g.at) \ P
        <5>1. Within(d.at) # p /\ One(d.at, d.at) = 1
          BY <4>3, <1>4, <2>5 DEF One
        <5> QED BY <4>3, <5>1, <1>1, <1>4, <2>1, <3>2
      <4> QED BY <4>1, <4>2, <4>3, <1>4, <2>2, HeadedWithin
    <3>4. Here(v) \in P /\ \A z \in P : z = Here(v) \/ \E j \in NewIn(L) : z = Within(j)
      BY <2>1
    <3> QED BY <3>1, <3>2, <3>3, <3>4, <1>0, BegunHandle
  <2> QED BY <1>0, <1>3, <2>7, <2>14, CallBegun
<1> QED BY <1>6, <1>7

\* The content of a block gives way to a value.
Cleared(t, K, old, c, R) ==
  /\ Good(t, K, R) /\ SetIn(R) = {Within(c)} /\ NewIn(R) = {} /\ WrittenIn(R) \subseteq {c} /\ Open(R) \subseteq {c}
  /\ \A b \in Blocks : Carried(R, b) = One(old.at, b) /\ One(old.at, b) \in Nat

\* The steps that do so.
LEMMA DoClear ==
  ASSUME NEW t \in Nat, NEW K, NEW c \in Blocks, NEW old \in DataSet, old.at # c, NEW x \in Nat,
         NEW R, R = Release(old) \o Set(Within(c), Inline(x))
  PROVE  Cleared(t, K, old, c, R)
<1>1. PICK e, p, f : e = <<>> /\ p = Within(c) /\ f = Inline(x)
  OBVIOUS
<1>2. /\ p \in PlaceSet(t) /\ p.block = c /\ p.block # NoBlock /\ (\A b \in Blocks : p = Within(b) => b = c)
      /\ f \in DataSet /\ f.at = NoBlock
  BY <1>1, Made, PlacesDiffer DEF PlaceSet
<1>3. PICK A : A = Join(Set(p, f), e)
  OBVIOUS
<1>4. R = Join(Release(old), A)
  <2>1. Release(old) \in Seq(StepSet(t)) /\ Set(p, f) \in Seq(StepSet(t))
    BY <1>2, Pieces
  <2>2. PICK a, b : a = Release(old) /\ b = Set(p, f)
    OBVIOUS
  <2>3. a \in Seq(StepSet(t)) /\ b \in Seq(StepSet(t)) /\ e = <<>>
    BY <2>1, <2>2, <1>1
  <2>4. a \o b = Join(a, Join(b, e)) /\ a \o b \in Seq(StepSet(t))
    BY <2>3, Join2
  <2> QED BY <2>2, <2>4, <1>1, <1>3
<1>5. /\ Good(t, K, e) /\ SetIn(e) = {} /\ NewIn(e) = {} /\ WrittenIn(e) = {} /\ Open(e) = {} /\ \A b : Carried(e, b) = 0
  BY <1>1, GoodNothing, NothingLeft
<1>6. /\ Good(t, K, A) /\ A # <<>> /\ (\A b : ~HeadIs(A, "inc", b))
      /\ SetIn(A) = SetIn(e) \cup {p} /\ NewIn(A) = NewIn(e)
      /\ \A b \in Blocks : b \in WrittenIn(A) <=> b \in WrittenIn(e) \/ p = Within(b)
      /\ \A b \in Blocks : b \in Open(A) <=> b \in Open(e) \/ p = Within(b)
      /\ \A b \in Blocks : Carried(A, b) = Carried(e, b) + One(f.at, b)
  <2>1. p \notin SetIn(e) /\ f.at # p.block /\ f.at \notin WrittenIn(e)
    BY <1>2, <1>5
  <2> QED BY <2>1, <1>2, <1>3, <1>5, DoSet
<1>7. WrittenIn(A) \subseteq {c} /\ Open(A) \subseteq {c}
  <2>1. WrittenIn(A) \subseteq Blocks /\ Open(A) \subseteq Blocks
    BY DEF WrittenIn, Open
  <2> QED BY <2>1, <1>2, <1>5, <1>6
<1>8. \A b \in Blocks : Carried(A, b) = 0
  BY <1>2, <1>5, <1>6, PlacesDiffer DEF One
<1>9. /\ Good(t, K, R) /\ Like(R, A)
      /\ \A b \in Blocks : Carried(R, b) = Carried(A, b) + One(old.at, b)
      /\ R # <<>> \/ A = <<>>
  <2>1. old.at \notin WrittenIn(A)
    BY <1>7
  <2> QED BY <2>1, <1>4, <1>6, DoRelease
<1>10. \A b \in Blocks : Carried(R, b) = One(old.at, b) /\ One(old.at, b) \in Nat
  <2>1. \A b \in Blocks : One(old.at, b) \in Nat
    BY DEF One
  <2> QED BY <2>1, <1>8, <1>9
<1> QED BY <1>1, <1>5, <1>6, <1>7, <1>9, <1>10 DEF Cleared, Like

\* toMap(), toList() and toArray() leave a container in the Variant, which the caller changes.
LEMMA ToContainerCall ==
  ASSUME DataAssumption, DataInv, NEW t \in Threads, Ready(t), NEW v \in Own(t),
         NEW type \in {"map", "list", "array"}, NEW x \in Nat, ToContainer(t, v, type, x)
  PROVE  DataInv'
<1>0. /\ t \in Nat /\ todo[t] = <<>> /\ SetIn(todo[t]) = {} /\ Cardinality(Free(t)) >= 3
      /\ type \in Kinds /\ type # "scalar"
  BY ReadyFacts DEF DataAssumption, Kinds
<1>1. PICK d, g, n, m, o, y, e :
        /\ d = handle[v] /\ g = (IF TypeOf(d) = type THEN heap[d.at].inner ELSE Null)
        /\ n = Fresh(t, 1) /\ m = Fresh(t, 2) /\ o = Fresh(t, 3) /\ y = <<type, x>> /\ e = <<>>
  OBVIOUS
<1>2. n \in {t} \X (Nat \ {0}) /\ n \in Blocks /\ ~Live(n)
  BY <1>0, <1>1, FreshThree
<1>3. d \in DataSet /\ Reached(t, d) /\ y \in Words \X Nat
  <2>1. d \in DataSet /\ Reached(t, d)
    BY <1>0, <1>1, OwnFree
  <2> QED BY <2>1, <1>1 DEF Words
<1>4. /\ g \in DataSet /\ Reached(t, g)
      /\ Shares(g) => d.at \in Blocks /\ Within(d.at) \in Kept(g.at)
  BY <1>0, <1>1, <1>3, ElementFacts
<1>5. d.at # n /\ g.at # n
  BY <1>0, <1>2, <1>3, <1>4, NotFresh
<1>6. CASE Unshared(d, type)
  <2>1. Shares(d) /\ heap[d.at].ref <= 1 /\ TypeOf(d) = type
    BY <1>0, <1>6 DEF Unshared, TypeOf
  <2>2. PICK c, p, P : c = d.at /\ p = Within(c) /\ P = {p}
    OBVIOUS
  <2>3. PICK K, L : K = Firm(t, P) /\ L = Release(g) \o Set(p, Inline(x))
    OBVIOUS
  <2>4. Call(t, L, v, y)
    BY <1>1, <1>6, <2>2, <2>3 DEF ToContainer
  <2>5. /\ c \in Blocks /\ Ref(c) = 1 /\ g = heap[c].inner /\ g.at # c
        /\ p \in Places /\ ~Busy(p) /\ Data(p) = g
    BY <1>0, <1>1, <2>1, <2>2, OneHandle
  <2>6. c \in Firm(t, P)
    BY <1>1, <2>2, <2>5, FirmHandle, PlacesDiffer
  <2>7. Cleared(t, K, g, c, L)
    BY <1>0, <1>4, <2>2, <2>3, <2>5, DoClear
  <2>8. Begun(t, L)
    <3>1. Well(t, Firm(t, P), L) /\ SetIn(L) = P /\ (\A j \in NewIn(L) : ~Live(j)) /\ Headed(t, P, L)
      BY <2>2, <2>3, <2>7, SafeHeaded DEF Cleared, Good
    <3>2. \A b \in Blocks : p = Within(b) => Ref(b) = 1 /\ b \in Firm(t, P)
      BY <2>2, <2>5, <2>6, PlacesDiffer
    <3>3. \A b \in Open(L) : p = Within(b)
      BY <2>2, <2>7 DEF Cleared
    <3>4. \A b \in Blocks : Carried(L, b) = One(Data(p).at, b)
      BY <2>5, <2>7 DEF Cleared
    <3>5. p \in P /\ \A q \in P : q = p \/ \E j \in NewIn(L) : q = Within(j)
      BY <2>2
    <3> QED BY <3>1, <3>2, <3>3, <3>4, <3>5, <1>0, <2>5, BegunPlace
  <2> QED BY <1>0, <1>3, <2>4, <2>8, CallBegun
<1>7. CASE ~Unshared(d, type)
  <2>1. PICK p, q, P : p = Here(v) /\ q = Within(n) /\ P = {p, q}
    OBVIOUS
  <2>2. PICK K, A : K = Firm(t, P) /\ A = Release(g) \o Set(q, Inline(x))
    OBVIOUS
  <2>3. /\ p \in PlaceSet(t) /\ (\A b \in Blocks : p # Within(b)) /\ q \in PlaceSet(t) /\ Inline(x) \in DataSet
        /\ InBlock(n) \in DataSet /\ Var(type, g) \in BlockSet /\ Var(type, g).ref = 1
    BY <1>0, <1>2, <1>4, <2>1, Made, PlacesDiffer DEF PlaceSet
  <2>4. PICK B, L : /\ B = Join(New(n, Var(type, g)), Join(Release(d), Join(Set(p, InBlock(n)), A)))
                    /\ L = Join(Hold(g), B)
    OBVIOUS
  <2>5. Call(t, L, v, y)
    <3>1. PICK a1, a2, a3, a4 : a1 = Hold(g) /\ a2 = New(n, Var(type, g)) /\ a3 = Release(d) /\ a4 = Set(p, InBlock(n))
      BY Zenon
    <3>2. a1 \in Seq(StepSet(t)) /\ a2 \in Seq(StepSet(t)) /\ a3 \in Seq(StepSet(t)) /\ a4 \in Seq(StepSet(t))
      BY <3>1, <1>0, <1>2, <1>3, <1>4, <2>3, Pieces
    <3>3. A \in Seq(StepSet(t))
      <4>1. Release(g) \in Seq(StepSet(t)) /\ Set(q, Inline(x)) \in Seq(StepSet(t))
        BY <1>0, <1>4, <2>3, Pieces
      <4> QED BY <4>1, <1>1, <2>2, Join2
    <3>4. Cat5(a1, a2, a3, a4, A) = Join(a1, Join(a2, Join(a3, Join(a4, Join(A, e)))))
      BY <3>2, <3>3, <1>1, Join5
    <3>5. Join(A, e) = A
      BY <3>3, <1>1, JoinLast
    <3>6. L = Hold(g) \o New(n, Var(type, g)) \o Release(d) \o Set(p, InBlock(n)) \o (Release(g) \o Set(q, Inline(x)))
      BY <3>1, <3>4, <3>5, <2>2, <2>4 DEF Cat5
    <3> QED BY Zenon, <3>6, <1>1, <1>7, <2>1 DEF ToContainer
  <2>6. Cleared(t, K, g, n, A)
    BY <1>0, <1>2, <1>4, <1>5, <2>1, <2>2, DoClear
  <2>7. Here(v) \notin SetIn(A) /\ Within(n) \in SetIn(A)
    BY <1>2, <2>1, <2>3, <2>6 DEF Cleared
  <2>8. PICK free : free = (IF Within(n) \in SetIn(A) THEN 0 ELSE 1) /\ free = 0
    BY <2>7
  <2>9. Exchanged(t, K, v, d, n, g, A, B, free)
    BY <1>0, <1>2, <1>3, <1>4, <1>5, <2>1, <2>4, <2>6, <2>7, <2>8, DoExchange DEF Cleared
  <2>10. /\ Good(t, K, B) /\ SetIn(B) = P /\ NewIn(B) = {n} /\ WrittenIn(B) \subseteq {n} /\ Open(B) = {}
         /\ \A b \in Blocks : /\ Carried(B, b) = One(d.at, b) + One(g.at, b)
                              /\ One(d.at, b) \in Nat /\ One(g.at, b) \in Nat
    <3>1. \A b \in Blocks : One(d.at, b) \in Nat /\ One(g.at, b) \in Nat
      BY DEF One
    <3>2. \A b \in Blocks : Carried(B, b) = Carried(A, b) + One(d.at, b) + 0 * One(g.at, b)
      BY <2>8, <2>9 DEF Exchanged
    <3>3. \A b \in Blocks : Carried(B, b) = One(d.at, b) + One(g.at, b)
      BY <3>1, <3>2, <2>6 DEF Cleared
    <3> QED BY <3>1, <3>3, <2>1, <2>6, <2>9 DEF Exchanged, Cleared
  <2>11. /\ Well(t, K, L) /\ Like(L, B)
         /\ \A b \in Blocks : Carried(L, b) = Carried(B, b) - One(g.at, b)
         /\ \A b : Shares(g) /\ HeadIs(L, "inc", b) => b = g.at
         /\ ~Shares(g) \/ g.at \in K \/ Carried(B, g.at) >= 2 => Safe(K, L)
         /\ L # <<>> \/ B = <<>>
    <3>1. g.at \notin WrittenIn(B)
      BY <1>5, <2>10
    <3>2. Shares(g) => Carried(B, g.at) >= 1
      <4>1. One(g.at, g.at) = 1
        BY DEF One
      <4>2. Shares(g) => g.at \in Blocks
        BY <1>4, DataShape
      <4> QED BY <4>1, <4>2, <2>10
    <3> QED BY <3>1, <3>2, <1>0, <1>4, <2>4, <2>10, DoHold
  <2>12. Begun(t, L)
    <3>1. Well(t, Firm(t, P), L) /\ SetIn(L) = P /\ (\A j \in NewIn(L) : ~Live(j)) /\ n \in NewIn(L)
      BY <1>2, <2>2, <2>10, <2>11 DEF Like
    <3>2. \A b \in Blocks : b \notin Open(L) /\ Carried(L, b) = One(handle[v].at, b)
      BY <1>1, <2>10, <2>11 DEF Like
    <3>3. Headed(t, P, L)
      <4>1. ASSUME Shares(g) PROVE d.at \in Blocks /\ Carried(L, d.at) >= 1 /\ Within(d.at) \in Kept(g.at) \ P
        <5>1. Within(d.at) # p /\ Within(d.at) # q /\ One(d.at, d.at) = 1
          BY <4>1, <1>4, <1>5, <2>1, <2>3, PlacesDiffer DEF One
        <5> QED BY <4>1, <5>1, <1>1, <1>4, <2>1, <3>2
      <4>2. ~Shares(g) => Safe(K, L)
        BY <2>11
      <4> QED BY <4>1, <4>2, <1>4, <2>2, <2>11, HeadedWithin
    <3>4. Here(v) \in P /\ \A z \in P : z = Here(v) \/ \E j \in NewIn(L) : z = Within(j)
      BY <2>1, <3>1
    <3> QED BY <3>1, <3>2, <3>3, <3>4, <1>0, BegunHandle
  <2> QED BY <1>0, <1>3, <2>5, <2>12, CallBegun
<1> QED BY <1>6, <1>7

\* A Variant of the caller, with a copy of a String in it, is made before the steps A and lasts for them.
Wrapped(t, K, w, A, a, m, L) ==
  /\ Good(t, K, L) /\ SetIn(L) = SetIn(A) /\ NewIn(A) \subseteq NewIn(L) /\ NewIn(L) \subseteq NewIn(A) \cup {a, m} /\ Open(L) \subseteq Open(A)
  /\ \A b \in Blocks : Carried(L, b) = One(w, b)

\* The steps that make the caller's Variant.
LEMMA DoWrap ==
  ASSUME NEW t \in Nat, NEW K, NEW A, Good(t, K, A), NEW w,
         NEW a \in {t} \X (Nat \ {0}), NEW m \in {t} \X (Nat \ {0}), a # m,
         a \notin NewIn(A), m \notin NewIn(A), Within(a) \notin SetIn(A), m \notin WrittenIn(A),
         \A b \in Blocks : Carried(A, b) = One(a, b) + One(w, b),
         NEW g \in DataSet, g.at \notin WrittenIn(A), g.at # a, g.at # m, Shares(g) => g.at \in K,
         NEW c, c = CopyString(g, m),
         NEW L, L = Join(c.steps, Join(New(a, Var("string", c.data)), A))
  PROVE  Wrapped(t, K, w, A, a, m, L)
<1>1. PICK i, k : i = c.data /\ k = Var("string", c.data)
  OBVIOUS
<1>2. PICK B : B = Join(New(a, k), A)
  OBVIOUS
<1>3. a \in Blocks /\ m \in Blocks
  BY DEF Blocks
<1>4. /\ i \in DataSet
      /\ Shares(g) => i = g
      /\ ~Shares(g) => i = Null \/ i = InBlock(m)
  BY <1>1, CopyData
<1>5. WrittenIn(A) \subseteq Blocks
  BY DEF WrittenIn
<1>6. i.at # a /\ i.at \notin WrittenIn(A) /\ (Shares(i) => i.at \in Blocks)
  BY <1>3, <1>4, <1>5, Made, PlacesDiffer, DataShape
<1>7. k \in BlockSet /\ k.ref = 1 /\ k.inner = i
  BY <1>1, <1>4, Made DEF Kinds
<1>8. \A b \in Blocks : One(a, b) \in Nat /\ One(w, b) \in Nat /\ One(i.at, b) \in Nat
  BY DEF One
<1>9. Carried(A, a) >= 1
  <2>1. One(a, a) = 1
    BY DEF One
  <2> QED BY <2>1, <1>3, <1>8
<1>10. PICK free : free = (IF Within(a) \in SetIn(A) THEN 0 ELSE 1) /\ free = 1
  OBVIOUS
<1>11. /\ Good(t, K, B) /\ B # <<>> /\ a \in Blocks /\ (\A b : ~HeadIs(B, "inc", b))
       /\ SetIn(B) = SetIn(A) /\ NewIn(B) = NewIn(A) \cup {a}
       /\ \A b \in Blocks : b \in WrittenIn(B) <=> b \in WrittenIn(A)
       /\ \A b \in Blocks : b \in Open(B) <=> b \in Open(A) /\ b # a
       /\ \A b \in Blocks : Carried(B, b) = Carried(A, b) + free * One(k.inner.at, b) - One(a, b)
  BY <1>2, <1>6, <1>7, <1>9, <1>10, DoNew
<1>12. \A b \in Blocks : Carried(B, b) = One(w, b) + One(i.at, b)
  <2> SUFFICES ASSUME NEW b \in Blocks PROVE Carried(B, b) = One(w, b) + One(i.at, b)
    OBVIOUS
  <2>1. Carried(B, b) = One(a, b) + One(w, b) + 1 * One(i.at, b) - One(a, b)
    BY <1>7, <1>10, <1>11
  <2> QED BY <2>1, <1>8
<1>13. Copied(t, K, B, g, m, c, L)
  <2>1. m \notin NewIn(B) /\ g.at \notin WrittenIn(B)
    <3>1. WrittenIn(B) \subseteq Blocks
      BY DEF WrittenIn
    <3> QED BY <3>1, <1>11
  <2>2. Shares(c.data) => Carried(B, c.data.at) >= 1
    <3>1. One(i.at, i.at) = 1
      BY DEF One
    <3> QED BY <3>1, <1>1, <1>6, <1>8, <1>12
  <2>3. L = Join(c.steps, B)
    BY <1>1, <1>2
  <2> QED BY <2>1, <2>2, <2>3, <1>11, DoCopy
<1>14. Good(t, K, L)
  BY <1>13 DEF Copied, Good
<1>15. \A b \in Blocks : Carried(L, b) = One(w, b)
  <2> SUFFICES ASSUME NEW b \in Blocks PROVE Carried(L, b) = One(w, b)
    OBVIOUS
  <2>1. Carried(L, b) = One(w, b) + One(i.at, b) - One(i.at, b)
    <3>1. Carried(L, b) = Carried(B, b) - One(c.data.at, b)
      BY <1>13 DEF Copied
    <3>2. Carried(B, b) = One(w, b) + One(i.at, b)
      BY <1>12
    <3>3. PICK u : u = One(c.data.at, b)
      OBVIOUS
    <3>4. Carried(L, b) = Carried(B, b) - u
      BY <3>1, <3>3
    <3>5. u = One(i.at, b)
      BY <3>3, <1>1
    <3> QED BY <3>2, <3>4, <3>5, <1>8
  <2> QED BY <2>1, <1>8
<1>16. Open(L) \subseteq Open(A)
  <2>1. Open(L) \subseteq Blocks
    BY DEF Open
  <2> QED BY <2>1, <1>11, <1>13 DEF Copied
<1>17. SetIn(L) = SetIn(A) /\ NewIn(A) \subseteq NewIn(L) /\ NewIn(L) \subseteq NewIn(A) \cup {a, m}
  BY <1>11, <1>13 DEF Copied
<1> QED BY <1>14, <1>15, <1>16, <1>17 DEF Wrapped

\* The caller's Variant is put into a block that is there, in place of what is in it.
Inserted(t, K, c, a, old, L) ==
  /\ Good(t, K, L) /\ SetIn(L) = {Within(c)} /\ NewIn(L) = {} /\ WrittenIn(L) \subseteq {c} /\ Open(L) \subseteq {c}
  /\ \A b \in Blocks : Carried(L, b) = One(a, b) + One(old.at, b)

\* The steps that put it into a block.
LEMMA DoInsert ==
  ASSUME NEW t \in Nat, NEW K, NEW c \in Blocks, NEW a \in Blocks, a # c, NEW old \in DataSet, old.at # c,
         NEW L, L = Join(Cat3(Release(old), Inc(a), Set(Within(c), InBlock(a))), Release(InBlock(a)))
  PROVE  Inserted(t, K, c, a, old, L)
<1>1. PICK e, p, f : e = <<>> /\ p = Within(c) /\ f = InBlock(a)
  OBVIOUS
<1>2. /\ p \in PlaceSet(t) /\ p.block = c /\ (\A b \in Blocks : p = Within(b) => b = c)
      /\ f \in DataSet /\ f.at = a
  BY <1>1, Made, PlacesDiffer DEF PlaceSet
<1>3. PICK A0, A1, A2 : A0 = Join(Release(f), e) /\ A1 = Join(Set(p, f), A0) /\ A2 = Join(Inc(a), A1)
  OBVIOUS
<1>4. L = Join(Release(old), A2)
  <2>1. PICK a1, a2, a3, a4 : a1 = Release(old) /\ a2 = Inc(a) /\ a3 = Set(p, f) /\ a4 = Release(f)
    OBVIOUS
  <2>2. a1 \in Seq(StepSet(t)) /\ a2 \in Seq(StepSet(t)) /\ a3 \in Seq(StepSet(t)) /\ a4 \in Seq(StepSet(t))
    BY <1>2, <2>1, Pieces
  <2>3. Join(Cat3(a1, a2, a3), a4) = Join(a1, Join(a2, Join(a3, a4)))
    BY <2>2, JoinThrice
  <2>4. Join(a4, e) = a4
    BY <2>2, <1>1, JoinLast
  <2> QED BY <2>1, <2>3, <2>4, <1>1, <1>3
<1>5. /\ Good(t, K, e) /\ SetIn(e) = {} /\ NewIn(e) = {} /\ WrittenIn(e) = {} /\ Open(e) = {} /\ \A b : Carried(e, b) = 0
  BY <1>1, GoodNothing, NothingLeft
<1>6. /\ Good(t, K, A0) /\ Like(A0, e)
      /\ \A b \in Blocks : Carried(A0, b) = Carried(e, b) + One(f.at, b)
      /\ A0 # <<>> \/ e = <<>>
  BY <1>2, <1>3, <1>5, DoRelease
<1>7. /\ Good(t, K, A1) /\ A1 # <<>> /\ (\A b : ~HeadIs(A1, "inc", b))
      /\ SetIn(A1) = SetIn(A0) \cup {p} /\ NewIn(A1) = NewIn(A0)
      /\ \A b \in Blocks : b \in WrittenIn(A1) <=> b \in WrittenIn(A0) \/ p = Within(b)
      /\ \A b \in Blocks : b \in Open(A1) <=> b \in Open(A0) \/ p = Within(b)
      /\ \A b \in Blocks : Carried(A1, b) = Carried(A0, b) + One(f.at, b)
  <2>1. p \notin SetIn(A0) /\ f.at # p.block /\ f.at \notin WrittenIn(A0)
    BY <1>2, <1>5, <1>6 DEF Like
  <2> QED BY <2>1, <1>2, <1>3, <1>6, DoSet
<1>8. WrittenIn(A1) \subseteq {c} /\ Open(A1) \subseteq {c} /\ SetIn(A1) = {p} /\ NewIn(A1) = {}
  <2>1. WrittenIn(A1) \subseteq Blocks /\ Open(A1) \subseteq Blocks
    BY DEF WrittenIn, Open
  <2> QED BY <2>1, <1>2, <1>5, <1>6, <1>7 DEF Like
<1>9. \A b \in Blocks : Carried(A1, b) = One(a, b) + One(a, b) /\ One(a, b) \in Nat /\ One(old.at, b) \in Nat
  <2>1. \A b \in Blocks : One(a, b) \in Nat /\ One(old.at, b) \in Nat
    BY DEF One
  <2>2. \A b \in Blocks : Carried(A1, b) = 0 + One(a, b) + One(a, b)
    BY <1>2, <1>5, <1>6, <1>7
  <2> QED BY <2>1, <2>2
<1>10. Carried(A1, a) >= 2
  <2>1. One(a, a) = 1
    BY DEF One
  <2> QED BY <2>1, <1>9
<1>11. /\ Well(t, K, A2) /\ Like(A2, A1) /\ A2 # <<>>
       /\ \A b \in Blocks : Carried(A2, b) = Carried(A1, b) - One(a, b)
       /\ \A b : HeadIs(A2, "inc", b) <=> b = a
       /\ a \in K \/ Carried(A1, a) >= 2 => Safe(K, A2)
  <2>1. a \notin WrittenIn(A1) /\ Carried(A1, a) >= 1
    <3>1. Carried(A1, a) \in Nat
      BY <1>7 DEF Good, Well
    <3> QED BY <3>1, <1>8, <1>10
  <2> QED BY <2>1, <1>3, <1>7, DoInc
<1>12. Good(t, K, A2)
  BY <1>10, <1>11 DEF Good
<1>13. /\ Good(t, K, L) /\ Like(L, A2)
       /\ \A b \in Blocks : Carried(L, b) = Carried(A2, b) + One(old.at, b)
       /\ L # <<>> \/ A2 = <<>>
  <2>1. old.at \notin WrittenIn(A2)
    BY <1>8, <1>11 DEF Like
  <2> QED BY <2>1, <1>4, <1>12, DoRelease
<1>14. \A b \in Blocks : Carried(L, b) = One(a, b) + One(old.at, b)
  BY <1>9, <1>11, <1>13
<1> QED BY <1>1, <1>8, <1>11, <1>13, <1>14 DEF Like, Inserted

\* The caller's Variant is put into a new block, which takes the place of what a handle has.
Contained(t, K, h, n, a, d, L) ==
  /\ Good(t, K, L) /\ SetIn(L) = {Here(h)} /\ NewIn(L) = {n} /\ WrittenIn(L) = {} /\ Open(L) = {}
  /\ \A b \in Blocks : Carried(L, b) = One(a, b) + One(d.at, b)

\* The steps that put it into a new block.
LEMMA DoContainer ==
  ASSUME NEW t \in Nat, NEW K, NEW a \in Blocks, NEW n \in {t} \X (Nat \ {0}), a # n, NEW h \in Own(t),
         NEW d \in DataSet, NEW type \in Kinds,
         NEW L, L = Join(Cat4(Release(d), Inc(a), New(n, Var(type, InBlock(a))), Set(Here(h), InBlock(n))), Release(InBlock(a)))
  PROVE  Contained(t, K, h, n, a, d, L)
<1>1. PICK e, p, f, g, k : e = <<>> /\ p = Here(h) /\ f = InBlock(n) /\ g = InBlock(a) /\ k = Var(type, InBlock(a))
  OBVIOUS
<1>2. /\ n \in Blocks /\ p \in PlaceSet(t) /\ p.block = NoBlock /\ (\A b \in Blocks : p # Within(b))
      /\ f \in DataSet /\ f.at = n /\ g \in DataSet /\ g.at = a /\ k \in BlockSet /\ k.ref = 1 /\ k.inner = g
  <2>1. n \in Blocks
    BY DEF Blocks
  <2> QED BY <2>1, <1>1, Made, PlacesDiffer DEF PlaceSet
<1>3. PICK A0, A1, A2, A3 : A0 = Join(Release(g), e) /\ A1 = Join(Set(p, f), A0) /\ A2 = Join(New(n, k), A1) /\ A3 = Join(Inc(a), A2)
  OBVIOUS
<1>4. L = Join(Release(d), A3)
  <2>1. PICK a1, a2, a3, a4, a5 : a1 = Release(d) /\ a2 = Inc(a) /\ a3 = New(n, k) /\ a4 = Set(p, f) /\ a5 = Release(g)
    OBVIOUS
  <2>2. a1 \in Seq(StepSet(t)) /\ a2 \in Seq(StepSet(t)) /\ a3 \in Seq(StepSet(t)) /\ a4 \in Seq(StepSet(t)) /\ a5 \in Seq(StepSet(t))
    BY <1>2, <2>1, Pieces
  <2>3. Join(Cat4(a1, a2, a3, a4), a5) = Join(a1, Join(a2, Join(a3, Join(a4, a5))))
    BY <2>2, JoinFour
  <2>4. Join(a5, e) = a5
    BY <2>2, <1>1, JoinLast
  <2> QED BY <2>1, <2>3, <2>4, <1>1, <1>3
<1>5. /\ Good(t, K, e) /\ SetIn(e) = {} /\ NewIn(e) = {} /\ WrittenIn(e) = {} /\ Open(e) = {} /\ \A b : Carried(e, b) = 0
  BY <1>1, GoodNothing, NothingLeft
<1>6. /\ Good(t, K, A0) /\ Like(A0, e)
      /\ \A b \in Blocks : Carried(A0, b) = Carried(e, b) + One(g.at, b)
      /\ A0 # <<>> \/ e = <<>>
  BY <1>2, <1>3, <1>5, DoRelease
<1>7. /\ Good(t, K, A1) /\ A1 # <<>> /\ (\A b : ~HeadIs(A1, "inc", b))
      /\ SetIn(A1) = SetIn(A0) \cup {p} /\ NewIn(A1) = NewIn(A0)
      /\ \A b \in Blocks : b \in WrittenIn(A1) <=> b \in WrittenIn(A0) \/ p = Within(b)
      /\ \A b \in Blocks : b \in Open(A1) <=> b \in Open(A0) \/ p = Within(b)
      /\ \A b \in Blocks : Carried(A1, b) = Carried(A0, b) + One(f.at, b)
  <2>1. p \notin SetIn(A0)
    BY <1>5, <1>6 DEF Like
  <2> QED BY <2>1, <1>2, <1>3, <1>6, DoSet
<1>8. WrittenIn(A1) = {} /\ Open(A1) = {} /\ SetIn(A1) = {p} /\ NewIn(A1) = {}
  <2>1. WrittenIn(A1) \subseteq Blocks /\ Open(A1) \subseteq Blocks
    BY DEF WrittenIn, Open
  <2> QED BY <2>1, <1>2, <1>5, <1>6, <1>7 DEF Like
<1>9. \A b \in Blocks : /\ Carried(A1, b) = One(a, b) + One(n, b)
                        /\ One(a, b) \in Nat /\ One(n, b) \in Nat /\ One(d.at, b) \in Nat
  <2>1. \A b \in Blocks : One(a, b) \in Nat /\ One(n, b) \in Nat /\ One(d.at, b) \in Nat
    BY DEF One
  <2>2. \A b \in Blocks : Carried(A1, b) = 0 + One(a, b) + One(n, b)
    BY <1>2, <1>5, <1>6, <1>7
  <2> QED BY <2>1, <2>2
<1>10. PICK free : free = (IF Within(n) \in SetIn(A1) THEN 0 ELSE 1) /\ free = 1
  BY <1>2, <1>8
<1>11. /\ Good(t, K, A2) /\ A2 # <<>> /\ n \in Blocks /\ (\A b : ~HeadIs(A2, "inc", b))
       /\ SetIn(A2) = SetIn(A1) /\ NewIn(A2) = NewIn(A1) \cup {n}
       /\ \A b \in Blocks : b \in WrittenIn(A2) <=> b \in WrittenIn(A1)
       /\ \A b \in Blocks : b \in Open(A2) <=> b \in Open(A1) /\ b # n
       /\ \A b \in Blocks : Carried(A2, b) = Carried(A1, b) + free * One(k.inner.at, b) - One(n, b)
  <2>1. One(n, n) = 1
    BY DEF One
  <2>2. n \notin NewIn(A1) /\ Carried(A1, n) >= 1 /\ k.inner.at \notin WrittenIn(A1) /\ k.inner.at # n
    BY <2>1, <1>2, <1>8, <1>9
  <2> QED BY <2>2, <1>2, <1>3, <1>7, <1>10, DoNew
<1>12. WrittenIn(A2) = {} /\ Open(A2) = {} /\ SetIn(A2) = {p} /\ NewIn(A2) = {n}
  <2>1. WrittenIn(A2) \subseteq Blocks /\ Open(A2) \subseteq Blocks
    BY DEF WrittenIn, Open
  <2> QED BY <2>1, <1>8, <1>11
<1>13. \A b \in Blocks : Carried(A2, b) = One(a, b) + One(a, b)
  <2>1. \A b \in Blocks : Carried(A2, b) = One(a, b) + One(n, b) + 1 * One(a, b) - One(n, b)
    BY <1>2, <1>9, <1>10, <1>11
  <2> QED BY <2>1, <1>9
<1>14. Carried(A2, a) >= 2
  <2>1. One(a, a) = 1
    BY DEF One
  <2> QED BY <2>1, <1>13
<1>15. /\ Well(t, K, A3) /\ Like(A3, A2) /\ A3 # <<>>
       /\ \A b \in Blocks : Carried(A3, b) = Carried(A2, b) - One(a, b)
       /\ \A b : HeadIs(A3, "inc", b) <=> b = a
       /\ a \in K \/ Carried(A2, a) >= 2 => Safe(K, A3)
  <2>1. a \notin WrittenIn(A2) /\ Carried(A2, a) >= 1
    <3>1. Carried(A2, a) \in Nat
      BY <1>11 DEF Good, Well
    <3> QED BY <3>1, <1>12, <1>14
  <2> QED BY <2>1, <1>3, <1>11, DoInc
<1>16. Good(t, K, A3)
  BY <1>14, <1>15 DEF Good
<1>17. /\ Good(t, K, L) /\ Like(L, A3)
       /\ \A b \in Blocks : Carried(L, b) = Carried(A3, b) + One(d.at, b)
       /\ L # <<>> \/ A3 = <<>>
  <2>1. d.at \notin WrittenIn(A3)
    BY <1>12, <1>15 DEF Like
  <2> QED BY <2>1, <1>4, <1>16, DoRelease
<1>18. \A b \in Blocks : Carried(L, b) = One(a, b) + One(d.at, b)
  BY <1>9, <1>13, <1>15, <1>17
<1> QED BY <1>1, <1>12, <1>15, <1>17, <1>18 DEF Like, Contained

\* A Variant is assigned a container of the caller.
LEMMA AssignContainerCall ==
  ASSUME DataAssumption, DataInv, NEW t \in Threads, Ready(t), NEW v \in Own(t), NEW s \in Own(t), s # v,
         NEW type \in {"map", "list", "array"}, AssignContainer(t, v, type, s)
  PROVE  DataInv'
<1>0. /\ t \in Nat /\ todo[t] = <<>> /\ SetIn(todo[t]) = {} /\ Cardinality(Free(t)) >= 3
      /\ type \in Kinds /\ type # "scalar"
  BY ReadyFacts DEF DataAssumption, Kinds
<1>1. PICK d, g, a, n, m, y, e :
        /\ d = handle[v] /\ g = handle[s]
        /\ a = Fresh(t, 1) /\ n = Fresh(t, 2) /\ m = Fresh(t, 3) /\ y = <<type, value[s][2]>> /\ e = <<>>
  OBVIOUS
<1>2. /\ a \in {t} \X (Nat \ {0}) /\ a \in Blocks /\ ~Live(a)
      /\ n \in {t} \X (Nat \ {0}) /\ n \in Blocks /\ ~Live(n)
      /\ m \in {t} \X (Nat \ {0}) /\ m \in Blocks /\ ~Live(m) /\ a # n /\ a # m /\ n # m
  BY <1>0, <1>1, FreshThree
<1>3. /\ d \in DataSet /\ Reached(t, d) /\ g \in DataSet /\ Reached(t, g) /\ (Shares(g) => g.at \in Blocks)
      /\ y \in Words \X Nat
  <2>1. d \in DataSet /\ Reached(t, d) /\ g \in DataSet /\ Reached(t, g)
    BY <1>0, <1>1, OwnFree
  <2>2. value[s][2] \in Nat
    BY ValueFacts
  <2> QED BY <2>1, <2>2, <1>1, DataShape DEF Words
<1>4. d.at # a /\ d.at # n /\ d.at # m /\ g.at # a /\ g.at # n /\ g.at # m
  BY <1>0, <1>2, <1>3, NotFresh
<1>5. PICK c, k, r : c = CopyString(g, m) /\ k = Var("string", c.data) /\ r = Release(InBlock(a))
  OBVIOUS
<1>6. /\ c.steps \in Seq(StepSet(t)) /\ New(a, k) \in Seq(StepSet(t)) /\ r \in Seq(StepSet(t))
  <2>1. c.data \in DataSet /\ c.steps \in Seq(StepSet(t))
    BY <1>0, <1>2, <1>3, <1>5, CopyData
  <2>2. k \in BlockSet /\ k.ref = 1 /\ InBlock(a) \in DataSet
    BY <2>1, <1>2, <1>5, Made DEF Kinds
  <2> QED BY <2>1, <2>2, <1>0, <1>2, <1>5, Pieces
<1>7. ASSUME NEW M \in Seq(StepSet(t)), NEW A, A = Join(M, r), NEW L, L = Join(c.steps, Join(New(a, k), A))
      PROVE  L = c.steps \o New(a, k) \o M \o r
  <2>1. PICK a1, a2 : a1 = c.steps /\ a2 = New(a, k)
    OBVIOUS
  <2>2. a1 \in Seq(StepSet(t)) /\ a2 \in Seq(StepSet(t)) /\ r \in Seq(StepSet(t)) /\ e = <<>>
    BY <2>1, <1>1, <1>6
  <2>3. Cat4(a1, a2, M, r) = Join(a1, Join(a2, Join(M, Join(r, e)))) /\ Cat4(a1, a2, M, r) \in Seq(StepSet(t))
    BY <2>2, <1>7, Join4
  <2>4. Join(r, e) = r
    BY <2>2, JoinLast
  <2> QED BY <2>1, <2>3, <2>4, <1>7 DEF Cat4
<1>8. CASE Unshared(d, type)
  <2>1. Shares(d) /\ heap[d.at].ref <= 1
    BY <1>0, <1>8 DEF Unshared, TypeOf
  <2>2. PICK q, old, p, P : q = d.at /\ old = heap[q].inner /\ p = Within(q) /\ P = {p}
    OBVIOUS
  <2>3. PICK K : K = Firm(t, P)
    OBVIOUS
  <2>4. /\ q \in Blocks /\ Live(q) /\ Ref(q) = 1 /\ g.at # q
        /\ old \in DataSet /\ old.at # q /\ p \in PlaceSet(t) /\ p \in Places /\ ~Busy(p) /\ Data(p) = old
    BY <1>0, <1>1, <2>1, <2>2, OneHandle
  <2>5. q \in K /\ (Shares(g) => g.at \in K)
    <3>1. Here(v) \notin P /\ Here(s) \notin P
      BY <2>2, <2>4, PlacesDiffer
    <3> QED BY <3>1, <1>1, <1>3, <2>2, <2>3, <2>4, FirmHandle
  <2>6. PICK M, A, L : /\ M = Cat3(Release(old), Inc(a), Set(p, InBlock(a)))
                       /\ A = Join(M, r) /\ L = Join(c.steps, Join(New(a, k), A))
    OBVIOUS
  <2>7. a # q /\ m # q
    BY <1>2, <2>4
  <2>8. Call(t, L, v, y)
    <3>1. M \in Seq(StepSet(t))
      <4>1. PICK a1, a2, a3 : a1 = Release(old) /\ a2 = Inc(a) /\ a3 = Set(p, InBlock(a))
        OBVIOUS
      <4>2. a1 \in Seq(StepSet(t)) /\ a2 \in Seq(StepSet(t)) /\ a3 \in Seq(StepSet(t))
        BY <4>1, <1>0, <1>2, <2>4, Made, Pieces
      <4>3. Cat3(a1, a2, a3) = Join(a1, Join(a2, Join(a3, e))) /\ Cat3(a1, a2, a3) \in Seq(StepSet(t))
        BY <4>2, <1>1, Join3
      <4> QED BY <4>1, <4>3, <2>6
    <3>2. L = c.steps \o New(a, k) \o M \o r
      BY <3>1, <2>6, <1>7
    <3>3. L = c.steps \o New(a, k) \o (Release(old) \o Inc(a) \o Set(p, InBlock(a))) \o r
      BY <3>2, <2>6 DEF Cat3
    <3> QED BY <3>3, <1>1, <1>5, <1>8, <2>2 DEF AssignContainer
  <2>9. /\ Good(t, K, A) /\ SetIn(A) = {Within(q)} /\ NewIn(A) = {} /\ WrittenIn(A) \subseteq {q} /\ Open(A) \subseteq {q}
        /\ \A b \in Blocks : Carried(A, b) = One(a, b) + One(old.at, b)
    <3>1. A = Join(Cat3(Release(old), Inc(a), Set(Within(q), InBlock(a))), Release(InBlock(a)))
      BY <1>5, <2>2, <2>6
    <3>2. Inserted(t, K, q, a, old, A)
      BY <3>1, <1>0, <1>2, <2>4, <2>7, DoInsert
    <3> QED BY <3>2 DEF Inserted
  <2>10. Wrapped(t, K, old.at, A, a, m, L)
    <3>1. PICK w : w = old.at
      OBVIOUS
    <3>2. \A b \in Blocks : Carried(A, b) = One(a, b) + One(w, b)
      BY <3>1, <2>9
    <3>3. /\ a \notin NewIn(A) /\ m \notin NewIn(A) /\ Within(a) \notin SetIn(A) /\ m \notin WrittenIn(A)
          /\ g.at \notin WrittenIn(A)
      BY <2>4, <2>7, <2>9, PlacesDiffer
    <3>4. L = Join(c.steps, Join(New(a, Var("string", c.data)), A)) /\ c = CopyString(g, m)
      BY <1>5, <2>6
    <3>5. Wrapped(t, K, w, A, a, m, L)
      BY <3>2, <3>3, <3>4, <1>0, <1>2, <1>3, <1>4, <2>5, <2>9, DoWrap
    <3> QED BY <3>1, <3>5
  <2>11. Begun(t, L)
    <3>1. Well(t, Firm(t, P), L) /\ SetIn(L) = P /\ (\A j \in NewIn(L) : ~Live(j)) /\ Headed(t, P, L)
      BY <1>2, <2>2, <2>3, <2>9, <2>10, SafeHeaded DEF Wrapped, Good
    <3>2. \A b \in Blocks : p = Within(b) => Ref(b) = 1 /\ b \in Firm(t, P)
      BY <2>2, <2>3, <2>4, <2>5, PlacesDiffer
    <3>3. \A b \in Open(L) : p = Within(b)
      BY <2>2, <2>9, <2>10 DEF Wrapped
    <3>4. \A b \in Blocks : Carried(L, b) = One(Data(p).at, b)
      BY <2>4, <2>10 DEF Wrapped
    <3>5. p \in P /\ \A x \in P : x = p \/ \E j \in NewIn(L) : x = Within(j)
      BY <2>2
    <3> QED BY <3>1, <3>2, <3>3, <3>4, <3>5, <1>0, <2>4, BegunPlace
  <2> QED BY <1>0, <1>3, <2>8, <2>11, CallBegun
<1>9. CASE ~Unshared(d, type)
  <2>1. PICK p, P : p = Here(v) /\ P = {p}
    OBVIOUS
  <2>2. PICK K : K = Firm(t, P)
    OBVIOUS
  <2>4. PICK M, A, L : /\ M = Cat4(Release(d), Inc(a), New(n, Var(type, InBlock(a))), Set(p, InBlock(n)))
                       /\ A = Join(M, r) /\ L = Join(c.steps, Join(New(a, k), A))
    OBVIOUS
  <2>5. Call(t, L, v, y)
    <3>1. M \in Seq(StepSet(t))
      <4>1. PICK a1, a2, a3, a4 : a1 = Release(d) /\ a2 = Inc(a) /\ a3 = New(n, Var(type, InBlock(a))) /\ a4 = Set(p, InBlock(n))
        OBVIOUS
      <4>2. /\ p \in PlaceSet(t) /\ InBlock(a) \in DataSet /\ InBlock(n) \in DataSet
            /\ Var(type, InBlock(a)) \in BlockSet /\ Var(type, InBlock(a)).ref = 1
        BY <1>0, <1>2, <2>1, Made DEF PlaceSet
      <4>3. a1 \in Seq(StepSet(t)) /\ a2 \in Seq(StepSet(t)) /\ a3 \in Seq(StepSet(t)) /\ a4 \in Seq(StepSet(t))
        BY <4>1, <4>2, <1>0, <1>2, <1>3, Pieces
      <4>4. Cat4(a1, a2, a3, a4) = Join(a1, Join(a2, Join(a3, Join(a4, e)))) /\ Cat4(a1, a2, a3, a4) \in Seq(StepSet(t))
        BY <4>3, <1>1, Join4
      <4> QED BY <4>1, <4>4, <2>4
    <3>2. L = c.steps \o New(a, k) \o M \o r
      BY <3>1, <2>4, <1>7
    <3>3. L = c.steps \o New(a, k) \o (Release(d) \o Inc(a) \o New(n, Var(type, InBlock(a))) \o Set(p, InBlock(n))) \o r
      BY <3>2, <2>4 DEF Cat4
    <3> QED BY <3>3, <1>1, <1>5, <1>9, <2>1 DEF AssignContainer
  <2>6. /\ Good(t, K, A) /\ SetIn(A) = {Here(v)} /\ NewIn(A) = {n} /\ WrittenIn(A) = {} /\ Open(A) = {}
        /\ \A b \in Blocks : Carried(A, b) = One(a, b) + One(d.at, b)
    <3>1. A = Join(Cat4(Release(d), Inc(a), New(n, Var(type, InBlock(a))), Set(Here(v), InBlock(n))), Release(InBlock(a)))
      BY <1>5, <2>1, <2>4
    <3>2. Contained(t, K, v, n, a, d, A)
      BY <3>1, <1>0, <1>2, <1>3, DoContainer
    <3> QED BY <3>2 DEF Contained
  <2>7. Wrapped(t, K, d.at, A, a, m, L)
    <3>1. PICK w : w = d.at
      OBVIOUS
    <3>2. \A b \in Blocks : Carried(A, b) = One(a, b) + One(w, b)
      BY <3>1, <2>6
    <3>3. /\ a \notin NewIn(A) /\ m \notin NewIn(A) /\ Within(a) \notin SetIn(A) /\ m \notin WrittenIn(A)
          /\ g.at \notin WrittenIn(A)
      BY <1>2, <2>6, PlacesDiffer
    <3>4. L = Join(c.steps, Join(New(a, Var("string", c.data)), A)) /\ c = CopyString(g, m)
      BY <1>5, <2>4
    <3>5. Shares(g) => g.at \in K
      BY <1>1, <1>3, <2>1, <2>2, FirmHandle, PlacesDiffer
    <3>6. Wrapped(t, K, w, A, a, m, L)
      BY <3>2, <3>3, <3>4, <3>5, <1>0, <1>2, <1>3, <1>4, <2>6, DoWrap
    <3> QED BY <3>1, <3>6
  <2>8. Begun(t, L)
    <3>1. Well(t, Firm(t, P), L) /\ SetIn(L) = P /\ (\A j \in NewIn(L) : ~Live(j)) /\ Headed(t, P, L)
      BY <1>2, <2>1, <2>2, <2>6, <2>7, SafeHeaded DEF Wrapped, Good
    <3>2. \A b \in Blocks : b \notin Open(L) /\ Carried(L, b) = One(handle[v].at, b)
      BY <1>1, <2>6, <2>7 DEF Wrapped
    <3>3. Here(v) \in P /\ \A z \in P : z = Here(v) \/ \E j \in NewIn(L) : z = Within(j)
      BY <2>1
    <3> QED BY <3>1, <3>2, <3>3, <1>0, BegunHandle
  <2> QED BY <1>0, <1>3, <2>5, <2>8, CallBegun
<1> QED BY <1>8, <1>9

\* Two Variants of a thread are exchanged by way of a third.
LEMMA SwapCall ==
  ASSUME DataAssumption, DataInv, NEW t \in Threads, Ready(t), NEW v \in Own(t), NEW w \in Own(t), Variant_swap(t, v, w)
  PROVE  DataInv'
<1>0. t \in Nat /\ todo[t] = <<>> /\ SetIn(todo[t]) = {} /\ Calm(t)
  BY ReadyFacts DEF DataAssumption
<1>1. PICK d, g, e : d = handle[v] /\ g = handle[w] /\ e = <<>>
  OBVIOUS
<1>2. d \in DataSet /\ g \in DataSet /\ (Shares(d) => d.at \in Blocks) /\ (Shares(g) => g.at \in Blocks)
  BY <1>0, <1>1, OwnFree, DataShape
<1>3. PICK P, M : P = {Here(v), Here(w)} /\ M = (IF v = w THEN <<>> ELSE AssignVariant(w, g, d))
  OBVIOUS
<1>4. PICK K : K = Firm(t, P)
  OBVIOUS
<1>5. PICK A, B : A = Join(Release(g), e) /\ B = Join(AssignVariant(v, d, g), A)
  OBVIOUS
<1>6. PICK C, L : C = Join(M, B) /\ L = Join(Hold(g), C)
  OBVIOUS
<1>7. todo' = [todo EXCEPT ![t] = L]
  <2>1. PICK a1, a2, a3 : a1 = Hold(g) /\ a2 = AssignVariant(v, d, g) /\ a3 = Release(g)
    OBVIOUS
  <2>2. a1 \in Seq(StepSet(t)) /\ a2 \in Seq(StepSet(t)) /\ a3 \in Seq(StepSet(t))
    BY <2>1, <1>0, <1>2, Pieces, ReplacePieces
  <2>3. M \in Seq(StepSet(t))
    <3>1. <<>> \in Seq(StepSet(t)) /\ AssignVariant(w, g, d) \in Seq(StepSet(t))
      BY <1>0, <1>2, ReplacePieces
    <3> QED BY <3>1, <1>3
  <2>4. Cat4(a1, M, a2, a3) = Join(a1, Join(M, Join(a2, Join(a3, e)))) /\ Cat4(a1, M, a2, a3) \in Seq(StepSet(t))
    BY <2>2, <2>3, <1>1, Join4
  <2>5. L = Hold(g) \o M \o AssignVariant(v, d, g) \o Release(g)
    BY <2>1, <2>4, <1>5, <1>6 DEF Cat4
  <2> QED BY <2>5, <1>1, <1>3 DEF Variant_swap
<1>8. \A b \in Blocks : One(d.at, b) \in Nat /\ One(g.at, b) \in Nat
  BY DEF One
<1>9. /\ Good(t, K, e) /\ SetIn(e) = {} /\ NewIn(e) = {} /\ WrittenIn(e) = {} /\ Open(e) = {} /\ \A b : Carried(e, b) = 0
  BY <1>1, GoodNothing, NothingLeft
<1>10. /\ Good(t, K, A) /\ Like(A, e)
       /\ \A b \in Blocks : Carried(A, b) = Carried(e, b) + One(g.at, b)
       /\ A # <<>> \/ e = <<>>
  BY <1>0, <1>2, <1>5, <1>9, DoRelease
<1>11. \A b \in Blocks : Carried(A, b) = One(g.at, b)
  <2>1. \A b \in Blocks : Carried(A, b) = 0 + One(g.at, b)
    BY <1>9, <1>10
  <2> QED BY <2>1, <1>8
<1>12. /\ Good(t, K, B) /\ B # <<>> /\ SetIn(B) = SetIn(A) \cup {Here(v)} /\ NewIn(B) = NewIn(A)
       /\ WrittenIn(B) = {} /\ Open(B) = {}
       /\ \A b \in Blocks : Carried(B, b) = Carried(A, b) + One(d.at, b)
  <2>1. WrittenIn(A) = {} /\ Here(v) \notin SetIn(A)
    BY <1>9, <1>10 DEF Like
  <2>2. Shares(g) => g.at \in K \/ g.at = d.at \/ Carried(A, g.at) >= 1
    <3>1. One(g.at, g.at) = 1
      BY DEF One
    <3> QED BY <3>1, <1>2, <1>11
  <2> QED BY <2>1, <2>2, <1>0, <1>2, <1>5, <1>10, DoReplace
<1>13. \A b \in Blocks : Carried(B, b) = One(g.at, b) + One(d.at, b)
  BY <1>11, <1>12
<1>14. /\ Good(t, K, C) /\ SetIn(C) = P /\ NewIn(C) = {} /\ WrittenIn(C) = {} /\ Open(C) = {}
       /\ \A b \in Blocks : Carried(C, b) = One(g.at, b) + (IF v = w THEN 0 ELSE One(d.at, b)) + One(g.at, b)
  <2>1. SetIn(B) = {Here(v)} /\ NewIn(B) = {}
    BY <1>9, <1>10, <1>12 DEF Like
  <2>2. CASE v = w
    <3>1. B \in Seq(StepSet(t))
      BY <1>12 DEF Good, Well
    <3>2. C = B
      BY <2>2, <3>1, <1>3, <1>6, JoinFirst
    <3>3. \A b \in Blocks : One(d.at, b) = One(g.at, b)
      BY <2>2, <1>1
    <3>4. \A b \in Blocks : Carried(C, b) = One(g.at, b) + 0 + One(g.at, b)
      BY <3>2, <3>3, <1>8, <1>13
    <3> QED BY <3>2, <3>4, <2>1, <2>2, <1>3, <1>12
  <2>3. CASE v # w
    <3>1. Here(w) \notin SetIn(B)
      BY <2>1, <2>3, PlacesDiffer
    <3>2. Shares(d) => d.at \in K \/ d.at = g.at \/ Carried(B, d.at) >= 1
      <4>1. One(d.at, d.at) = 1
        BY DEF One
      <4> QED BY <4>1, <1>2, <1>8, <1>13
    <3>3. C = Join(AssignVariant(w, g, d), B)
      BY <2>3, <1>3, <1>6
    <3>4. /\ Good(t, K, C) /\ C # <<>> /\ SetIn(C) = SetIn(B) \cup {Here(w)} /\ NewIn(C) = NewIn(B)
          /\ WrittenIn(C) = {} /\ Open(C) = {}
          /\ \A b \in Blocks : Carried(C, b) = Carried(B, b) + One(g.at, b)
      BY <3>1, <3>2, <3>3, <1>0, <1>2, <1>12, DoReplace
    <3>5. \A b \in Blocks : Carried(C, b) = One(g.at, b) + One(d.at, b) + One(g.at, b)
      BY <3>4, <1>13
    <3> QED BY <3>4, <3>5, <2>1, <2>3, <1>3
  <2> QED BY <2>2, <2>3
<1>15. Shares(g) => Carried(C, g.at) >= 2
  <2>1. ASSUME Shares(g) PROVE Carried(C, g.at) >= 2
    <3>1. One(g.at, g.at) = 1 /\ g.at \in Blocks
      BY <2>1, <1>2 DEF One
    <3>2. PICK z : z = (IF v = w THEN 0 ELSE One(d.at, g.at))
      OBVIOUS
    <3>3. z \in Nat
      BY <3>1, <3>2, <1>8
    <3>4. Carried(C, g.at) = One(g.at, g.at) + z + One(g.at, g.at)
      BY <3>1, <3>2, <1>14
    <3> QED BY <3>1, <3>3, <3>4
  <2> QED BY <2>1
<1>16. /\ Well(t, K, L) /\ Like(L, C)
       /\ \A b \in Blocks : Carried(L, b) = Carried(C, b) - One(g.at, b)
       /\ \A b : Shares(g) /\ HeadIs(L, "inc", b) => b = g.at
       /\ ~Shares(g) \/ g.at \in K \/ Carried(C, g.at) >= 2 => Safe(K, L)
       /\ L # <<>> \/ C = <<>>
  <2>1. g.at \notin WrittenIn(C)
    BY <1>14
  <2>2. Shares(g) => Carried(C, g.at) >= 1
    <3>1. Shares(g) => Carried(C, g.at) \in Nat
      BY <1>2, <1>14 DEF Good, Well
    <3> QED BY <3>1, <1>15
  <2> QED BY <2>1, <2>2, <1>0, <1>2, <1>6, <1>14, DoHold
<1>17. SetIn(L) = P /\ NewIn(L) = {} /\ Open(L) = {} /\ Safe(K, L)
  BY <1>14, <1>15, <1>16 DEF Like
<1>18. \A b \in Blocks : Carried(L, b) = One(g.at, b) + (IF v = w THEN 0 ELSE One(d.at, b))
  <2> SUFFICES ASSUME NEW b \in Blocks PROVE Carried(L, b) = One(g.at, b) + (IF v = w THEN 0 ELSE One(d.at, b))
    OBVIOUS
  <2>1. PICK z : z = (IF v = w THEN 0 ELSE One(d.at, b))
    OBVIOUS
  <2>2. z \in Nat /\ One(g.at, b) \in Nat
    BY <2>1, <1>8
  <2>3. Carried(C, b) = One(g.at, b) + z + One(g.at, b)
    BY <2>1, <1>14
  <2>4. Carried(L, b) = Carried(C, b) - One(g.at, b)
    BY <1>16
  <2>5. Carried(L, b) = One(g.at, b) + z
    BY <2>2, <2>3, <2>4
  <2> QED BY <2>1, <2>5
<1>19. Begun(t, L)
  <2>1. CASE v = w
    <3>1. SetIn(L) = P /\ \A n \in NewIn(L) : ~Live(n)
      BY <1>17
    <3>2. \A b \in Blocks : b \notin Open(L) /\ Carried(L, b) = One(handle[v].at, b)
      <4>1. \A b \in Blocks : Carried(L, b) = One(g.at, b) + 0
        BY <2>1, <1>18
      <4> QED BY <4>1, <2>1, <1>1, <1>8, <1>17
    <3>3. Here(v) \in P /\ \A q \in P : q = Here(v) \/ \E n \in NewIn(L) : q = Within(n)
      BY <2>1, <1>3
    <3>4. Well(t, Firm(t, P), L) /\ Headed(t, P, L)
      BY <1>4, <1>16, <1>17, SafeHeaded
    <3> QED BY <3>1, <3>2, <3>3, <3>4, <1>0, BegunHandle
  <2>2. CASE v # w
    <3>1. PICK p, q : p = Here(v) /\ q = Here(w)
      OBVIOUS
    <3>2. /\ p # q /\ P \cap Places = {p, q} /\ ~Busy(p) /\ ~Busy(q) /\ Data(p) = d /\ Data(q) = g
          /\ \A a \in Blocks : Within(a) \notin P
      BY <2>2, <3>1, <1>0, <1>1, <1>3, OwnFree, PlacesDiffer
    <3>3. \A b \in Blocks : Cardinality(Kept(b) \cap P) = One(d.at, b) + One(g.at, b)
      <4> SUFFICES ASSUME NEW b \in Blocks PROVE Cardinality(Kept(b) \cap P) = One(d.at, b) + One(g.at, b)
        OBVIOUS
      <4>1. Cardinality(Kept(b) \cap P) = One(Data(p).at, b) + One(Data(q).at, b)
        BY <3>2, CreditTwo
      <4> QED BY <4>1, <3>2
    <3>4. \A b \in Blocks : Carried(L, b) = One(d.at, b) + One(g.at, b)
      <4>1. \A b \in Blocks : Carried(L, b) = One(g.at, b) + One(d.at, b)
        BY <2>2, <1>18
      <4> QED BY <4>1, <1>8
    <3>5. L \in Seq(StepSet(t)) /\ DelIn(L) = {} /\ Sound(Firm(t, SetIn(L)), L)
      BY <1>4, <1>16, <1>17 DEF Well
    <3>6. \A b \in Blocks : HeadIs(L, "inc", b) => Carried(L, b) >= 1 \/ b \in Firm(t, SetIn(L))
      BY <1>4, <1>17 DEF Safe
    <3>7. \A b \in Blocks : Carried(L, b) = Cardinality(Kept(b) \cap SetIn(L))
      BY <3>3, <3>4, <1>17
    <3> QED BY <3>2, <3>5, <3>6, <3>7, <1>17 DEF Begun
  <2> QED BY <2>1, <2>2
<1>20. value' \in [Handles -> Words \X Nat]
  <2>1. v \in Handles /\ w \in Handles
    BY DEF Own, Handles
  <2>2. value \in [Handles -> Words \X Nat] /\ value' = [value EXCEPT ![v] = value[w], ![w] = value[v]]
    BY DEF DataInv, Typed, Variant_swap
  <2> QED BY <2>1, <2>2
<1> QED BY <1>0, <1>7, <1>19, <1>20, Begin DEF Variant_swap

\* What is known of the place of a String that is about to be edited.
LEMMA EditPlace ==
  ASSUME DataAssumption, DataInv, NEW t \in Threads, todo[t] # <<>>, Head(todo[t]).op = "edit",
         NEW p, p = Head(todo[t]).place
  PROVE  /\ Calm(t) /\ SetIn(todo[t]) = {} /\ p \in PlaceSet(t) /\ p \in Places /\ ~Busy(p)
         /\ Data(p) \in DataSet /\ Reached(t, Data(p))
         /\ \A c \in Blocks : p = Within(c) =>
              /\ Live(c) /\ Ref(c) = 1 /\ Data(p).at # c
              /\ c \in Firm(t, {}) /\ c \in Firm(t, {p}) /\ p \in Kept(Data(p).at)
         /\ (\A c \in Blocks : p # Within(c)) => (Shares(Data(p)) => Data(p).at \in Firm(t, {}))
<1>1. PICK x, r : x = Head(todo[t]) /\ r = Tail(todo[t])
  OBVIOUS
<1>2. /\ t \in Nat /\ todo[t] \in Seq(StepSet(t)) /\ x \in StepSet(t) /\ x.op = "edit" /\ x.place = p
  BY <1>1, HeadFacts
<1>3. p \in PlaceSet(t)
  BY <1>2, StepShape
<1>4. Calm(t) /\ SetIn(todo[t]) = {}
  BY EditCalm DEF Calm
<1>5. CASE p.block = NoBlock
  <2>1. PICK h \in Own(t) : p = Here(h)
    BY <1>3, <1>5, PlaceShape
  <2>2. /\ p \in Places /\ ~Busy(p) /\ Data(p) = handle[h] /\ handle[h] \in DataSet /\ Reached(t, handle[h])
    BY <1>4, <2>1, OwnFree
  <2>3. Shares(handle[h]) => handle[h].at \in Firm(t, {})
    BY <2>2, FirmHandle, DataShape
  <2>4. \A c \in Blocks : p # Within(c)
    BY <2>1, PlacesDiffer
  <2> QED BY <1>3, <1>4, <2>2, <2>3, <2>4
<1>6. CASE p.block # NoBlock
  <2>1. PICK c \in Blocks : p = Within(c)
    BY <1>3, <1>6, PlaceShape
  <2>2. c \in Open(todo[t])
    <3>1. Open(todo[t]) = {b \in Blocks : Writes(Head(todo[t]), b)} \cup {b \in Open(Tail(todo[t])) : ~IsNew(Head(todo[t]), b)}
      BY <1>2, OpenSplit
    <3>2. Writes(Head(todo[t]), c)
      BY <1>1, <1>2, <2>1 DEF Writes
    <3> QED BY <3>1, <3>2
  <2>3. Sole(t, c)
    <3>1. ~JustPut(todo[t])
      BY DEF JustPut
    <3> QED BY <3>1, <2>2 DEF DataInv, WriteOk
  <2>4. Live(c) /\ heap[c].ref = 1 /\ Ref(c) = 1
    BY <2>3, SoleAlone DEF Sole, DataInv
  <2>5. PICK h \in Own(t) : handle[h].at = c
    <3>1. Carried(todo[t], c) = 0
      BY <1>4 DEF Calm
    <3> QED BY <3>1, <2>3 DEF Sole, Owns, Mine
  <2>6. handle[h] \in DataSet /\ Shares(handle[h])
    <3>1. handle[h] \in DataSet
      BY <1>4, OwnFree
    <3> QED BY <3>1, <2>5, DataShape
  <2>7. /\ heap[c].inner \in DataSet /\ heap[c].inner.at # c /\ Reached(t, heap[c].inner)
        /\ Within(c) \in Places /\ ~Busy(Within(c)) /\ Data(Within(c)) = heap[c].inner
        /\ Within(c) \in Kept(heap[c].inner.at)
    BY <1>4, <2>4, <2>5, <2>6, OneHandle
  <2>8. c \in Firm(t, {}) /\ c \in Firm(t, {p})
    BY <2>1, <2>5, FirmHandle, PlacesDiffer
  <2>9. \A b \in Blocks : p = Within(b) => b = c
    BY <2>1, PlacesDiffer
  <2> QED BY <1>3, <1>4, <2>1, <2>4, <2>7, <2>8, <2>9
<1> QED BY <1>5, <1>6

\* The String is written where it is: its data has one reference.
LEMMA EditInPlace ==
  ASSUME DataAssumption, DataInv, NEW t \in Threads, todo[t] # <<>>, Head(todo[t]).op = "edit",
         NEW p, p = Head(todo[t]).place, NEW old, old = Data(p), Shares(old), heap[old.at].ref = 1,
         NEW z \in Nat, NEW L, L = Put(old.at, z)
  PROVE  Begun(t, L)
<1>0. t \in Nat
  BY DEF DataAssumption
<1>1. /\ SetIn(todo[t]) = {} /\ p \in PlaceSet(t) /\ old \in DataSet /\ Reached(t, old)
      /\ \A c \in Blocks : p = Within(c) => Ref(c) = 1 /\ c \in Firm(t, {}) /\ p \in Kept(old.at)
      /\ (\A c \in Blocks : p # Within(c)) => old.at \in Firm(t, {})
  BY EditPlace
<1>2. PICK e, c, K : e = <<>> /\ c = old.at /\ K = Firm(t, {})
  OBVIOUS
<1>3. c \in Blocks /\ Live(c) /\ Ref(c) = 1
  BY <1>1, <1>2, InsideReached DEF Ref
<1>4. L = Join(Put(c, z), e)
  <2>1. Put(c, z) \in Seq(StepSet(t))
    BY <1>0, <1>3, Pieces
  <2> QED BY <2>1, <1>2, JoinLast
<1>5. /\ Good(t, K, e) /\ SetIn(e) = {} /\ NewIn(e) = {} /\ WrittenIn(e) = {} /\ Open(e) = {} /\ \A b : Carried(e, b) = 0
  BY <1>2, GoodNothing, NothingLeft
<1>6. /\ Good(t, K, L) /\ L # <<>> /\ (\A b : ~HeadIs(L, "inc", b))
      /\ SetIn(L) = SetIn(e) /\ NewIn(L) = NewIn(e)
      /\ \A b \in Blocks : b \in WrittenIn(L) <=> b \in WrittenIn(e) \/ b = c
      /\ \A b \in Blocks : b \in Open(L) <=> b \in Open(e) \/ b = c
      /\ \A b \in Blocks : Carried(L, b) = Carried(e, b)
      /\ e = <<>> => JustPut(L)
  BY <1>0, <1>3, <1>4, <1>5, DoPut
<1>7. \A b \in Open(L) : b = c
  <2>1. Open(L) \subseteq Blocks
    BY DEF Open
  <2> QED BY <2>1, <1>5, <1>6
<1>8. c \in Firm(t, {}) \/ \E a \in Firm(t, {}) : Ref(a) = 1 /\ Within(a) \in Kept(c)
  BY <1>1, <1>2
<1>9. Well(t, Firm(t, {}), L) /\ SetIn(L) = {} /\ NewIn(L) = {} /\ Headed(t, {}, L) /\ JustPut(L)
  BY <1>2, <1>5, <1>6 DEF Good, Headed
<1>10. \A b \in Blocks : Carried(L, b) = 0
  BY <1>5, <1>6
<1>11. \A b \in Open(L) : \/ Ref(b) = 1 /\ b \in Firm(t, {})
                          \/ /\ JustPut(L) /\ Ref(b) = 1
                             /\ \E a \in Firm(t, {}) : Ref(a) = 1 /\ Within(a) \in Kept(b)
  BY <1>3, <1>7, <1>8, <1>9
<1> QED BY <1>1, <1>9, <1>10, <1>11, BegunNothing

\* The String is copied, and the copy is written.
LEMMA EditCopy ==
  ASSUME DataAssumption, DataInv, NEW t \in Threads, todo[t] # <<>>, Head(todo[t]).op = "edit",
         NEW place, place = Head(todo[t]).place,
         NEW n \in {t} \X (Nat \ {0}), n \in Blocks, ~Live(n),
         NEW x \in Nat, NEW z \in Nat, 
         NEW steps, steps = New(n, Str(x)) \o Release(Data(place)) \o Set(place, InBlock(n)) \o Put(n, z)
  PROVE  Begun(t, steps)
<1>0. t \in Nat
  BY DEF DataAssumption
<1>p. PICK p, old, L : p = place /\ old = Data(p) /\ L = steps
  OBVIOUS
<1>1. /\ SetIn(todo[t]) = {} /\ p \in PlaceSet(t) /\ p \in Places /\ ~Busy(p) /\ old \in DataSet /\ Reached(t, old)
      /\ \A c \in Blocks : p = Within(c) => Live(c) /\ Ref(c) = 1 /\ old.at # c /\ c \in Firm(t, {p})
  BY <1>p, EditPlace
<1>2. PICK e, f, P, K : e = <<>> /\ f = InBlock(n) /\ P = {p} /\ K = Firm(t, P)
  OBVIOUS
<1>3. f \in DataSet /\ f.at = n /\ Str(x) \in BlockSet /\ Str(x).ref = 1 /\ old.at # n
  BY <1>1, <1>2, Made, NotFresh
<1>4. p.block # n
  <2>1. p.block # NoBlock => p.block \in Blocks /\ p = Within(p.block)
    BY <1>1, PlaceShape
  <2> QED BY <2>1, <1>1, PlacesDiffer
<1>5. PICK A, B, C : A = Join(Put(n, z), e) /\ B = Join(Set(p, f), A) /\ C = Join(Release(old), B)
  OBVIOUS
<1>6. L = Join(New(n, Str(x)), C)
  <2>1. PICK a1, a2, a3, a4 : a1 = New(n, Str(x)) /\ a2 = Release(old) /\ a3 = Set(p, f) /\ a4 = Put(n, z)
    BY Zenon
  <2>2. a1 \in Seq(StepSet(t)) /\ a2 \in Seq(StepSet(t)) /\ a3 \in Seq(StepSet(t)) /\ a4 \in Seq(StepSet(t))
    BY <2>1, <1>0, <1>1, <1>3, Pieces
  <2>3. Cat4(a1, a2, a3, a4) = Join(a1, Join(a2, Join(a3, Join(a4, e)))) /\ Cat4(a1, a2, a3, a4) \in Seq(StepSet(t))
    BY <2>2, <1>2, Join4
  <2> QED BY Zenon, <2>1, <2>3, <1>p, <1>2, <1>5 DEF Cat4
<1>7. /\ Good(t, K, e) /\ SetIn(e) = {} /\ NewIn(e) = {} /\ WrittenIn(e) = {} /\ Open(e) = {} /\ \A b : Carried(e, b) = 0
  BY <1>2, GoodNothing, NothingLeft
<1>8. /\ Good(t, K, A) /\ A # <<>> /\ (\A b : ~HeadIs(A, "inc", b))
      /\ SetIn(A) = SetIn(e) /\ NewIn(A) = NewIn(e)
      /\ \A b \in Blocks : b \in WrittenIn(A) <=> b \in WrittenIn(e) \/ b = n
      /\ \A b \in Blocks : b \in Open(A) <=> b \in Open(e) \/ b = n
      /\ \A b \in Blocks : Carried(A, b) = Carried(e, b)
      /\ e = <<>> => JustPut(A)
  BY <1>0, <1>5, <1>7, DoPut
<1>9. /\ Good(t, K, B) /\ B # <<>> /\ (\A b : ~HeadIs(B, "inc", b))
      /\ SetIn(B) = SetIn(A) \cup {p} /\ NewIn(B) = NewIn(A)
      /\ \A b \in Blocks : b \in WrittenIn(B) <=> b \in WrittenIn(A) \/ p = Within(b)
      /\ \A b \in Blocks : b \in Open(B) <=> b \in Open(A) \/ p = Within(b)
      /\ \A b \in Blocks : Carried(B, b) = Carried(A, b) + One(f.at, b)
  <2>1. p \notin SetIn(A) /\ f.at # p.block /\ JustPut(A)
    BY <1>2, <1>3, <1>4, <1>7, <1>8
  <2> QED BY <2>1, <1>0, <1>1, <1>3, <1>5, <1>8, DoSet
<1>10. /\ Good(t, K, C) /\ Like(C, B)
       /\ \A b \in Blocks : Carried(C, b) = Carried(B, b) + One(old.at, b)
       /\ C # <<>> \/ B = <<>>
  <2>1. old.at \notin WrittenIn(B)
    <3>1. WrittenIn(B) \subseteq Blocks
      BY DEF WrittenIn
    <3> QED BY <3>1, <1>1, <1>3, <1>7, <1>8, <1>9
  <2> QED BY <2>1, <1>0, <1>1, <1>5, <1>9, DoRelease
<1>11. \A b \in Blocks : /\ Carried(C, b) = One(n, b) + One(old.at, b)
                         /\ One(n, b) \in Nat /\ One(old.at, b) \in Nat
  <2>1. \A b \in Blocks : One(n, b) \in Nat /\ One(old.at, b) \in Nat
    BY DEF One
  <2>2. \A b \in Blocks : Carried(C, b) = 0 + One(n, b) + One(old.at, b)
    BY <1>3, <1>7, <1>8, <1>9, <1>10
  <2> QED BY <2>1, <2>2
<1>12. /\ Good(t, K, L) /\ L # <<>> /\ n \in Blocks /\ (\A b : ~HeadIs(L, "inc", b))
       /\ SetIn(L) = SetIn(C) /\ NewIn(L) = NewIn(C) \cup {n}
       /\ \A b \in Blocks : b \in WrittenIn(L) <=> b \in WrittenIn(C)
       /\ \A b \in Blocks : b \in Open(L) <=> b \in Open(C) /\ b # n
       /\ \A b \in Blocks : Carried(L, b) = Carried(C, b) - One(n, b)
  <2>1. One(n, n) = 1
    BY DEF One
  <2>2. n \notin NewIn(C) /\ Carried(C, n) >= 1
    BY <2>1, <1>7, <1>8, <1>9, <1>10, <1>11 DEF Like
  <2>3. Good(t, K, C) /\ L = Join(New(n, Str(x)), C)
    BY <1>6, <1>10
  <2> QED BY <2>2, <2>3, <1>0, DoString
<1>13. SetIn(L) = P /\ \A k \in NewIn(L) : ~Live(k)
  BY <1>2, <1>7, <1>8, <1>9, <1>10, <1>12 DEF Like
<1>14. \A b \in Open(L) : p = Within(b)
  <2>1. Open(L) \subseteq Blocks
    BY DEF Open
  <2> QED BY <2>1, <1>7, <1>8, <1>9, <1>10, <1>12 DEF Like
<1>15. \A b \in Blocks : Carried(L, b) = One(Data(p).at, b)
  <2>1. \A b \in Blocks : Carried(L, b) = One(n, b) + One(old.at, b) - One(n, b)
    BY <1>11, <1>12
  <2> QED BY <2>1, <1>p, <1>11
<1>16. Well(t, Firm(t, P), L) /\ Headed(t, P, L)
  BY <1>2, <1>12 DEF Good, Headed
<1>17. p \in P /\ \A q \in P : q = p \/ \E k \in NewIn(L) : q = Within(k)
  BY <1>2
<1>18. \A c \in Blocks : p = Within(c) => Ref(c) = 1 /\ c \in Firm(t, P)
  BY <1>1, <1>2
<1>19. SetIn(todo[t]) = {} /\ p \in Places /\ ~Busy(p)
  BY <1>1
<1>20. Begun(t, L)
  BY <1>13, <1>14, <1>15, <1>16, <1>17, <1>18, <1>19, BegunPlace
<1> QED BY <1>p, <1>20

\* A String is detached and written.
LEMMA RunEdit ==
  ASSUME DataAssumption, DataInv, NEW t \in Threads, todo[t] # <<>>, Head(todo[t]).op = "edit", Free(t) # {},
         NEW fits \in BOOLEAN, NEW place, place = Head(todo[t]).place,
         todo' = [todo EXCEPT ![t] = detach(place, Data(place), Fresh(t, 1), fits) \o Tail(@)],
         UNCHANGED <<counted, heap, handle, value>>
  PROVE  DataInv'
<1>1. PICK L, z, x, n : /\ L = detach(place, Data(place), Fresh(t, 1), fits)
                        /\ x = Text(Data(place)) /\ z = Grown(x) /\ n = Fresh(t, 1)
  OBVIOUS
<1>2. /\ Calm(t) /\ SetIn(todo[t]) = {} /\ Data(place) \in DataSet /\ Reached(t, Data(place)) /\ Tail(todo[t]) = <<>>
  BY EditPlace, EditCalm
<1>3. x \in Nat /\ z \in Nat
  BY <1>1, <1>2, TextNat
<1>4. n \in {t} \X (Nat \ {0}) /\ n \in Blocks /\ ~Live(n)
  BY <1>1, FreshOne
<1>5. Begun(t, L)
  <2>1. CASE Shares(Data(place)) /\ heap[Data(place).at].ref = 1 /\ fits
    <3>1. L = Put(Data(place).at, z)
      BY <2>1, <1>1 DEF detach
    <3> QED BY <2>1, <3>1, <1>3, EditInPlace
  <2>2. CASE ~(Shares(Data(place)) /\ heap[Data(place).at].ref = 1 /\ fits)
    <3>1. L = New(n, Str(x)) \o Release(Data(place)) \o Set(place, InBlock(n)) \o Put(n, z)
      BY Zenon, <2>2, <1>1 DEF detach
    <3>2. PICK steps : steps = New(n, Str(x)) \o Release(Data(place)) \o Set(place, InBlock(n)) \o Put(n, z)
      BY Zenon
    <3>3. Begun(t, steps)
      BY <3>2, <1>3, <1>4, EditCopy
    <3> QED BY <3>1, <3>2, <3>3
  <2> QED BY <2>1, <2>2
<1>6. todo' = [todo EXCEPT ![t] = L]
  <2>1. t \in Nat /\ L \in Seq(StepSet(t))
    BY <1>5 DEF Begun, DataAssumption
  <2>2. L \o <<>> = L
    BY <2>1
  <2> QED BY <2>2, <1>1, <1>2
<1>7. value' \in [Handles -> Words \X Nat]
  <2>1. Handles' = Handles
    BY Zenon DEF Handles, Names
  <2> QED BY <2>1 DEF DataInv, Typed
<1> QED BY <1>2, <1>5, <1>6, <1>7, Begin

\* Every step of every thread.
LEMMA RunStep ==
  ASSUME DataAssumption, DataInv, NEW t \in Threads, Run(t)
  PROVE  DataInv'
<1>1. PICK x, r, c : x = Head(todo[t]) /\ r = Tail(todo[t]) /\ c = x.block
  BY Zenon
<1>2. todo[t] # <<>> /\ UNCHANGED <<counted, value>>
  BY Zenon DEF Run
<1>3. r \in Seq(StepSet(t))
  BY <1>1, <1>2, HeadFacts
<1>4. CASE x.op = "inc" /\ heap' = [heap EXCEPT ![x.block].ref = @ + 1] /\ Rest(t) /\ UNCHANGED handle
  <2>1. HeadIs(todo[t], "inc", c)
    BY Zenon, <1>1, <1>2, <1>4 DEF HeadIs
  <2>2. heap' = [heap EXCEPT ![c].ref = @ + 1] /\ todo' = [todo EXCEPT ![t] = Tail(@)] /\ UNCHANGED <<counted, handle, value>>
    BY Zenon, <1>1, <1>2, <1>4 DEF Rest
  <2> QED BY <2>1, <2>2, <1>2, RunInc
<1>5. CASE x.op = "new" /\ Allocate(x.block, x.data) /\ Rest(t) /\ UNCHANGED handle
  <2>1. HeadIs(todo[t], "new", c)
    BY Zenon, <1>1, <1>2, <1>5 DEF HeadIs
  <2>2. Allocate(c, Head(todo[t]).data) /\ todo' = [todo EXCEPT ![t] = Tail(@)] /\ UNCHANGED <<counted, handle, value>>
    BY Zenon, <1>1, <1>2, <1>5 DEF Rest
  <2> QED BY <2>1, <2>2, <1>2, RunNew
<1>6. CASE x.op = "put" /\ heap' = [heap EXCEPT ![x.block].val = x.data] /\ Rest(t) /\ UNCHANGED handle
  <2>1. HeadIs(todo[t], "put", c)
    BY Zenon, <1>1, <1>2, <1>6 DEF HeadIs
  <2>2. heap' = [heap EXCEPT ![c].val = Head(todo[t]).data] /\ todo' = [todo EXCEPT ![t] = Tail(@)] /\ UNCHANGED <<counted, handle, value>>
    BY Zenon, <1>1, <1>2, <1>6 DEF Rest
  <2> QED BY <2>1, <2>2, <1>2, RunPut
<1>7. CASE x.op = "dec" /\ Dec(t, x.block)
  <2>1. HeadIs(todo[t], "dec", c)
    BY Zenon, <1>1, <1>2, <1>7 DEF HeadIs
  <2>2. heap' = [heap EXCEPT ![c].ref = @ - 1] /\ UNCHANGED <<counted, handle, value>>
    BY <1>1, <1>2, <1>7 DEF Dec
  <2>3. CASE heap[c].ref = 1
    <3>1. todo' = [todo EXCEPT ![t] = Destroyed(c, heap[c].inner, Tail(@))]
      BY <2>3, <1>1, <1>7 DEF Dec, Destroyed
    <3> QED BY <2>1, <2>2, <2>3, <3>1, <1>2, RunDestroy
  <2>4. CASE heap[c].ref # 1
    <3>1. todo' = [todo EXCEPT ![t] = <<>> \o Tail(@)]
      BY <2>4, <1>1, <1>7 DEF Dec
    <3>2. <<>> \o r = r
      BY <1>3
    <3>3. todo' = [todo EXCEPT ![t] = Tail(@)]
      BY <3>1, <3>2, <1>1
    <3> QED BY <2>1, <2>2, <2>4, <3>3, <1>2, RunDec
  <2> QED BY <2>3, <2>4
<1>8. CASE x.op = "delete" /\ heap' = [b \in DOMAIN heap \ {x.block} |-> heap[b]] /\ Rest(t) /\ UNCHANGED handle
  <2>1. HeadIs(todo[t], "delete", c)
    BY Zenon, <1>1, <1>2, <1>8 DEF HeadIs
  <2>2. heap' = [b \in DOMAIN heap \ {c} |-> heap[b]] /\ todo' = [todo EXCEPT ![t] = Tail(@)] /\ UNCHANGED <<counted, handle, value>>
    BY Zenon, <1>1, <1>2, <1>8 DEF Rest
  <2> QED BY <2>1, <2>2, <1>2, RunDelete
<1>9. CASE /\ x.op = "set"
           /\ IF x.place.block = NoBlock
              THEN handle' = [handle EXCEPT ![x.place.handle] = x.data] /\ UNCHANGED heap
              ELSE heap' = [heap EXCEPT ![x.place.block].inner = x.data] /\ UNCHANGED handle
           /\ Rest(t)
  BY <1>1, <1>2, <1>9, RunSet DEF Rest
<1>10. CASE /\ x.op = "edit" /\ Free(t) # {}
            /\ \E fits \in BOOLEAN :
                 todo' = [todo EXCEPT ![t] = detach(x.place, Data(x.place), Fresh(t, 1), fits) \o Tail(@)]
            /\ UNCHANGED <<heap, handle>>
  <2>1. PICK fits \in BOOLEAN : todo' = [todo EXCEPT ![t] = detach(x.place, Data(x.place), Fresh(t, 1), fits) \o Tail(@)]
    BY <1>10
  <2>2. PICK place : place = x.place
    OBVIOUS
  <2>3. /\ todo' = [todo EXCEPT ![t] = detach(place, Data(place), Fresh(t, 1), fits) \o Tail(@)]
        /\ UNCHANGED <<counted, heap, handle, value>> /\ place = Head(todo[t]).place /\ Head(todo[t]).op = "edit" /\ Free(t) # {}
    BY <2>1, <2>2, <1>1, <1>2, <1>10
  <2> QED BY <2>3, <1>2, RunEdit
<1> QED BY Zenon, <1>1, <1>4, <1>5, <1>6, <1>7, <1>8, <1>9, <1>10 DEF Run

\* A step in which nothing of the data changes.
LEMMA DataStutters ==
  ASSUME DataInv, UNCHANGED dataVars
  PROVE  DataInv'
<1>0. counted' = counted /\ heap' = heap /\ handle' = handle /\ todo' = todo /\ value' = value
  BY DEF dataVars
<1>1. Handles' = Handles /\ \A t : Own(t)' = Own(t)
  BY <1>0 DEF Handles, Own, Names
<1>2. Places' = Places /\ \A p : Data(p)' = Data(p) /\ Busy(p)' = Busy(p)
  BY <1>0, <1>1 DEF Places, Data, Busy
<1>3. \A b : Kept(b)' = Kept(b) /\ Tokens(b)' = Tokens(b) /\ Ref(b)' = Ref(b) /\ Live(b)' = Live(b)
  BY <1>0, <1>2 DEF Kept, Tokens, Ref, Live
<1>4. \A t : StepSet(t)' = StepSet(t) /\ Mine(t)' = Mine(t)
  BY <1>0, <1>1 DEF StepSet, PlaceSet, Mine
<1>5. \A t, b : Owns(t, b)' = Owns(t, b) /\ Raw(t, b)' = Raw(t, b)
  BY <1>0, <1>3, <1>4 DEF Owns, Raw
<1>6. \A t, b : Sole(t, b)' = Sole(t, b) /\ Reach(t, b)' = Reach(t, b)
  BY <1>0, <1>3, <1>5 DEF Sole, Reach
<1>7. \A t, b : SoleReach(t, b)' = SoleReach(t, b)
  BY <1>0, <1>3, <1>6 DEF SoleReach
<1>8. Typed'
  BY <1>0, <1>1, <1>4 DEF DataInv, Typed
<1>9. AllCounted'
  BY <1>3 DEF DataInv, AllCounted, Counted
<1>10. AllSound'
  BY <1>0, <1>4 DEF DataInv, AllSound
<1>11. HeadOk'
  BY <1>0, <1>5, <1>6 DEF DataInv, HeadOk
<1>12. NewOk' /\ DelOk'
  BY <1>0, <1>3 DEF DataInv, NewOk, DelOk
<1>13. WriteOk'
  BY <1>0, <1>6, <1>7 DEF DataInv, WriteOk
<1>14. ZeroOk'
  BY <1>0, <1>5 DEF DataInv, ZeroOk
<1> QED BY <1>8, <1>9, <1>10, <1>11, <1>12, <1>13, <1>14 DEF DataInv

\* The calls of Strings and Variants.
LEMMA StringStep ==
  ASSUME DataAssumption, DataInv, NEW t \in Threads, Ready(t), counted = "Value", UseString(t)
  PROVE  DataInv'
<1>1. PICK s, v : s = <<t, "s">> /\ v = <<t, "v">>
  OBVIOUS
<1>2. s \in Own(t) /\ v \in Own(t) /\ s # v
  BY <1>1 DEF Own, Names
<1>3. CASE String_append(t, s)
  BY <1>2, <1>3, AppendCall
<1>4. CASE String_prepend(t, s)
  BY <1>2, <1>4, PrependCall
<1>5. CASE String_clear(t, s)
  BY <1>2, <1>5, ClearCall
<1>6. ASSUME NEW x \in Numbers, String_attach(t, s, x) PROVE DataInv'
  BY <1>2, <1>6, AttachCall
<1>7. ASSUME NEW x \in Numbers, String_assign(t, s, Inline(x)) PROVE DataInv'
  <2>1. PICK d : d = Inline(x)
    OBVIOUS
  <2>2. String_assign(t, s, d) /\ (d = handle[s] \/ \E y \in Numbers : d = Inline(y))
    BY <2>1, <1>7
  <2> QED BY <2>2, <1>2, StringAssignCall
<1>8. CASE String_assign(t, s, handle[s])
  <2>1. PICK d : d = handle[s]
    OBVIOUS
  <2>2. String_assign(t, s, d) /\ (d = handle[s] \/ \E y \in Numbers : d = Inline(y))
    BY <2>1, <1>8
  <2> QED BY <2>2, <1>2, StringAssignCall
<1>9. CASE String_assignVariant(t, s, v)
  BY <1>2, <1>9, AssignVariantCall
<1> QED BY <1>1, <1>3, <1>4, <1>5, <1>6, <1>7, <1>8, <1>9 DEF UseString

\* The calls of Variants.
LEMMA VariantStep ==
  ASSUME DataAssumption, DataInv, NEW t \in Threads, Ready(t), counted = "Value", UseVariant(t)
  PROVE  DataInv'
<1>1. PICK s, v, w : s = <<t, "s">> /\ v = <<t, "v">> /\ w = <<t, "w">>
  OBVIOUS
<1>2. s \in Own(t) /\ v \in Own(t) /\ w \in Own(t) /\ s # v /\ s # w /\ 0 \in Nat
  BY <1>1 DEF Own, Names
<1>3. ASSUME NEW x \in {v, w}, NEW y \in {v, w}, Variant_assign(t, x, y) PROVE DataInv'
  <2>1. x \in Own(t) /\ y \in Own(t)
    BY <1>2
  <2> QED BY <2>1, <1>3, VariantAssignCall
<1>4. ASSUME NEW x \in {v, w}, Variant_swap(t, v, x) PROVE DataInv'
  <2>1. x \in Own(t)
    BY <1>2
  <2> QED BY <2>1, <1>2, <1>4, SwapCall
<1>5. ASSUME NEW x \in {v, w}, NEW n \in Numbers, Variant_assignScalar(t, x, n) PROVE DataInv'
  <2>1. x \in Own(t)
    BY <1>2
  <2> QED BY <2>1, <1>5, AssignScalarCall
<1>6. ASSUME NEW x \in {v, w}, Variant_assignString(t, x, s) PROVE DataInv'
  <2>1. x \in Own(t) /\ s # x
    BY <1>2
  <2> QED BY <2>1, <1>2, <1>6, VariantAssignStringCall
<1>7. ASSUME NEW x \in {v, w}, Variant_toString(t, x) PROVE DataInv'
  <2>1. x \in Own(t)
    BY <1>2
  <2> QED BY <2>1, <1>7, ToStringCall
<1>8. ASSUME NEW n \in Numbers, Variant_toMap(t, v, n) PROVE DataInv'
  <2>1. n \in Nat /\ ToContainer(t, v, "map", n)
    BY <1>8, NumbersNat DEF Variant_toMap
  <2> QED BY <2>1, <1>2, ToContainerCall
<1>9. CASE Variant_toList(t, v, 0)
  <2>1. PICK z : z = 0
    OBVIOUS
  <2>2. z \in Nat /\ ToContainer(t, v, "list", z)
    BY <2>1, <1>9 DEF Variant_toList
  <2> QED BY <2>2, <1>2, ToContainerCall
<1>10. CASE Variant_toArray(t, v, 0)
  <2>1. PICK z : z = 0
    OBVIOUS
  <2>2. z \in Nat /\ ToContainer(t, v, "array", z)
    BY <2>1, <1>10 DEF Variant_toArray
  <2> QED BY <2>2, <1>2, ToContainerCall
<1>11. CASE Variant_assignMap(t, v, s)
  BY <1>2, <1>11, AssignContainerCall DEF Variant_assignMap
<1>12. CASE Variant_assignList(t, v, s)
  BY <1>2, <1>12, AssignContainerCall DEF Variant_assignList
<1>13. CASE Variant_assignArray(t, v, s)
  BY <1>2, <1>13, AssignContainerCall DEF Variant_assignArray
<1> QED BY <1>1, <1>3, <1>4, <1>5, <1>6, <1>7, <1>8, <1>9, <1>10, <1>11, <1>12, <1>13 DEF UseVariant

\* The calls of pointers.
LEMMA PtrStep ==
  ASSUME DataAssumption, DataInv, NEW t \in Threads, Ready(t), UsePtr(t)
  PROVE  DataInv'
<1>1. PICK p \in Own(t) : \/ \E q \in Own(t) : Ptr_assign(t, p, handle[q])
                          \/ Ptr_assign(t, p, Null)
                          \/ Ptr_assignNew(t, p)
  BY DEF UsePtr
<1>2. ASSUME NEW q \in Own(t), Ptr_assign(t, p, handle[q]) PROVE DataInv'
  <2>1. PICK d : d = handle[q]
    OBVIOUS
  <2>2. Ptr_assign(t, p, d) /\ (d = Null \/ \E g \in Own(t) : d = handle[g])
    BY <2>1, <1>2
  <2> QED BY <2>2, PtrAssignCall
<1>3. CASE Ptr_assign(t, p, Null)
  <2>1. PICK d : d = Null
    OBVIOUS
  <2>2. Ptr_assign(t, p, d) /\ (d = Null \/ \E g \in Own(t) : d = handle[g])
    BY <2>1, <1>3
  <2> QED BY <2>2, PtrAssignCall
<1>4. CASE Ptr_assignNew(t, p)
  BY <1>4, PtrAssignNewCall
<1> QED BY <1>1, <1>2, <1>3, <1>4

\* Every step keeps the invariant.
LEMMA DataStep ==
  ASSUME DataAssumption, DataInv, [DataNext]_dataVars
  PROVE  DataInv'
<1>1. CASE UNCHANGED dataVars
  BY <1>1, DataStutters
<1>2. CASE DataNext
  <2>1. PICK t \in Threads : \/ Run(t)
                             \/ Ready(t) /\ counted = "Value" /\ (UseString(t) \/ UseVariant(t))
                             \/ Ready(t) /\ counted = "Ptr" /\ UsePtr(t)
    BY <1>2 DEF DataNext
  <2>2. CASE Run(t)
    BY <2>2, RunStep
  <2>3. CASE Ready(t) /\ counted = "Value" /\ UseString(t)
    BY <2>3, StringStep
  <2>4. CASE Ready(t) /\ counted = "Value" /\ UseVariant(t)
    BY <2>4, VariantStep
  <2>5. CASE Ready(t) /\ counted = "Ptr" /\ UsePtr(t)
    BY <2>5, PtrStep
  <2> QED BY <2>1, <2>2, <2>3, <2>4, <2>5
<1> QED BY <1>1, <1>2

\* A function that is one to one says that two sets have as many members.
LEMMA SameCount ==
  ASSUME NEW A, NEW B, NEW f \in [A -> B], \A i, j \in A : f[i] = f[j] => i = j, \A y \in B : \E i \in A : f[i] = y,
         IsFiniteSet(A)
  PROVE  IsFiniteSet(B) /\ Cardinality(B) = Cardinality(A)
<1>1. f \in Bijection(A, B)
  BY DEF Bijection, Injection, Surjection, IsInjective
<1>2. ExistsBijection(A, B)
  BY <1>1 DEF ExistsBijection
<1> QED BY <1>2, FS_Bijection

\* As many places as handles, and as blocks.
LEMMA HeresCount ==
  ASSUME NEW H, IsFiniteSet(H), NEW P, P = {Here(h) : h \in H}
  PROVE  IsFiniteSet(P) /\ Cardinality(P) = Cardinality(H)
<1>1. PICK f : f = [h \in H |-> Here(h)]
  OBVIOUS
<1>2. f \in [H -> P] /\ (\A y \in P : \E i \in H : f[i] = y)
  BY <1>1
<1>3. \A i, j \in H : f[i] = f[j] => i = j
  BY <1>1, PlacesDiffer
<1> QED BY <1>2, <1>3, SameCount

\* As many places within blocks as blocks.
LEMMA WithinsCount ==
  ASSUME NEW C, NEW P, P = {Within(c) : c \in C}, IsFiniteSet(P)
  PROVE  IsFiniteSet(C) /\ Cardinality(P) = Cardinality(C)
<1>1. PICK f : f = [p \in P |-> p.block]
  OBVIOUS
<1>2. f \in [P -> C] /\ (\A y \in C : \E i \in P : f[i] = y) /\ (\A i, j \in P : f[i] = f[j] => i = j)
  BY <1>1, PlacesDiffer
<1> QED BY <1>2, SameCount

\* The names of the handles of a thread.
LEMMA FewNames ==
  /\ IsFiniteSet({"s"}) /\ Cardinality({"s"}) = 1
  /\ IsFiniteSet({"p", "q"}) /\ Cardinality({"p", "q"}) = 2
  /\ IsFiniteSet({"v", "w"}) /\ Cardinality({"v", "w"}) = 2
  /\ IsFiniteSet({"s", "v", "w"})
<1>1. /\ IsFiniteSet({"s"}) /\ Cardinality({"s"}) = 1 /\ IsFiniteSet({"p"}) /\ Cardinality({"p"}) = 1
      /\ IsFiniteSet({"v"}) /\ Cardinality({"v"}) = 1
  BY FS_Singleton
<1>2. IsFiniteSet({"p"} \cup {"q"}) /\ Cardinality({"p"} \cup {"q"}) = 1 + 1
  <2>1. "q" \notin {"p"}
    OBVIOUS
  <2>2. IsFiniteSet({"p"} \cup {"q"}) /\ Cardinality({"p"} \cup {"q"}) = IF "q" \in {"p"} THEN Cardinality({"p"}) ELSE Cardinality({"p"}) + 1
    BY <1>1, FS_AddElement
  <2> QED BY <2>1, <2>2, <1>1
<1>3. IsFiniteSet({"v"} \cup {"w"}) /\ Cardinality({"v"} \cup {"w"}) = 1 + 1
  <2>1. "w" \notin {"v"}
    OBVIOUS
  <2>2. IsFiniteSet({"v"} \cup {"w"}) /\ Cardinality({"v"} \cup {"w"}) = IF "w" \in {"v"} THEN Cardinality({"v"}) ELSE Cardinality({"v"}) + 1
    BY <1>1, FS_AddElement
  <2> QED BY <2>1, <2>2, <1>1
<1>4. {"p"} \cup {"q"} = {"p", "q"} /\ {"v"} \cup {"w"} = {"v", "w"}
  OBVIOUS
<1>5. IsFiniteSet({"v", "w"} \cup {"s"})
  BY <1>3, <1>4, FS_AddElement
<1>6. {"v", "w"} \cup {"s"} = {"s", "v", "w"}
  OBVIOUS
<1> QED BY <1>1, <1>2, <1>3, <1>4, <1>5, <1>6
-----------------------------------------------------------------------------
\* No thread has anything to do: every reference is that of a handle or of a block.
LEMMA RestCounted ==
  ASSUME DataAssumption, DataInv, \A t \in Threads : todo[t] = <<>>
  PROVE  /\ \A b \in DOMAIN heap : /\ heap[b].ref = Cardinality({h \in Handles : handle[h] = InBlock(b)})
                                                      + Cardinality({c \in DOMAIN heap : heap[c].inner = InBlock(b)})
                                   /\ heap[b].ref > 0
         /\ \A h \in Handles : Shares(handle[h]) => Live(handle[h].at)
         /\ \A c \in DOMAIN heap : Shares(heap[c].inner) => Live(heap[c].inner.at)
<1>1. \A p : ~Busy(p)
  BY NothingLeft DEF Busy
<1>2. /\ \A h \in Handles : handle[h] \in DataSet
      /\ DOMAIN heap \subseteq Blocks /\ \A c \in DOMAIN heap : heap[c] \in BlockSet /\ heap[c].inner \in DataSet /\ heap[c].ref \in Nat
  BY BlockChange DEF DataInv, Typed
<1>3. \A h \in Handles : Here(h) \in Places /\ Data(Here(h)) = handle[h]
  BY PlacesDiffer DEF Places, Data
<1>4. \A c \in DOMAIN heap : Within(c) \in Places /\ Data(Within(c)) = heap[c].inner
  BY <1>2, PlacesDiffer DEF Places, Data
<1>5. \A h \in Handles : Shares(handle[h]) => Live(handle[h].at)
  <2> SUFFICES ASSUME NEW h \in Handles, Shares(handle[h]) PROVE Live(handle[h].at)
    OBVIOUS
  <2>1. handle[h].at \in Blocks /\ Here(h) \in Kept(handle[h].at)
    BY <1>1, <1>2, <1>3, DataShape DEF Kept
  <2> QED BY <2>1, KeptLive DEF DataInv
<1>6. \A c \in DOMAIN heap : Shares(heap[c].inner) => Live(heap[c].inner.at)
  <2> SUFFICES ASSUME NEW c \in DOMAIN heap, Shares(heap[c].inner) PROVE Live(heap[c].inner.at)
    OBVIOUS
  <2>1. heap[c].inner.at \in Blocks /\ Within(c) \in Kept(heap[c].inner.at)
    BY <1>1, <1>2, <1>4, DataShape DEF Kept
  <2> QED BY <2>1, KeptLive DEF DataInv
<1>7. ASSUME NEW b \in DOMAIN heap
      PROVE  /\ heap[b].ref = Cardinality({h \in Handles : handle[h] = InBlock(b)})
                                + Cardinality({c \in DOMAIN heap : heap[c].inner = InBlock(b)})
             /\ heap[b].ref > 0
  <2>1. PICK H, C : H = {h \in Handles : handle[h] = InBlock(b)} /\ C = {c \in DOMAIN heap : heap[c].inner = InBlock(b)}
    OBVIOUS
  <2>2. PICK P, Q : P = {Here(h) : h \in H} /\ Q = {Within(c) : c \in C}
    OBVIOUS
  <2>3. b \in Blocks /\ \A d \in DataSet : d = InBlock(b) <=> d.at = b
    BY <1>2, <1>7, DataShape, Made
  <2>4. Kept(b) = P \cup Q
    <3>1. \A p \in Places : (\E h \in Handles : p = Here(h)) \/ (\E c \in DOMAIN heap : p = Within(c))
      BY DEF Places
    <3>2. \A h \in Handles : Here(h) \in Kept(b) <=> h \in H
      BY <1>1, <1>2, <1>3, <2>1, <2>3 DEF Kept
    <3>3. \A c \in DOMAIN heap : Within(c) \in Kept(b) <=> c \in C
      BY <1>1, <1>2, <1>4, <2>1, <2>3 DEF Kept
    <3>4. Kept(b) \subseteq Places /\ H \subseteq Handles /\ C \subseteq DOMAIN heap
      BY <2>1 DEF Kept
    <3> QED BY <2>2, <3>1, <3>2, <3>3, <3>4
  <2>5. Tokens(b) = {}
    <3>1. \A x \in Threads \X Nat : Carried(todo[x[1]], b) = 0
      BY NothingLeft
    <3> QED BY <3>1 DEF Tokens, TokensOf
  <2>6. IsFiniteSet(Kept(b)) /\ heap[b].ref = Cardinality(Kept(b)) + 0
    BY <1>7, <2>3, <2>5, FS_EmptySet DEF DataInv, AllCounted, Counted, Ref, Live
  <2>7. P \cap Q = {}
    BY <1>2, <2>1, <2>2, PlacesDiffer
  <2>8. IsFiniteSet(P) /\ IsFiniteSet(Q)
    BY <2>4, <2>6, FS_Subset
  <2>9. IsFiniteSet(H)
    <3>1. IsFiniteSet(Names)
      BY FewNames DEF Names
    <3>2. IsFiniteSet(Handles)
      BY <3>1, FS_Product DEF Handles, DataAssumption
    <3> QED BY <2>1, <3>2, FS_Subset
  <2>10. Cardinality(P) = Cardinality(H)
    BY <2>2, <2>9, HeresCount
  <2>11. Cardinality(Q) = Cardinality(C)
    BY <2>2, <2>8, WithinsCount
  <2>12. Cardinality(Kept(b)) = Cardinality(P) + Cardinality(Q)
    <3>1. Cardinality(P) \in Nat /\ Cardinality(Q) \in Nat
      BY <2>8, FS_CardinalityType
    <3>2. Cardinality(P \cap Q) = 0
      BY <2>7, FS_EmptySet
    <3>3. Cardinality(P \cup Q) = Cardinality(P) + Cardinality(Q) - Cardinality(P \cap Q)
      BY <2>8, FS_Union
    <3> QED BY <3>1, <3>2, <3>3, <2>4
  <2>13. heap[b].ref = Cardinality(H) + Cardinality(C)
    <3>1. Cardinality(Kept(b)) \in Nat
      BY <2>6, FS_CardinalityType
    <3> QED BY <3>1, <2>6, <2>10, <2>11, <2>12
  <2>14. heap[b].ref > 0
    <3>1. heap[b].ref # 0
      <4>1. \A t \in Threads : b \notin DelIn(todo[t]) /\ ~HeadIs(todo[t], "inc", b)
        BY NothingLeft DEF HeadIs
      <4> QED BY <4>1, <1>7 DEF DataInv, ZeroOk
    <3> QED BY <3>1, <1>2, <1>7
  <2> QED BY <2>1, <2>13, <2>14
<1> QED BY <1>5, <1>6, <1>7

\* What a thread does next, it does to data that was not deleted.
LEMMA HeadAlive ==
  ASSUME DataAssumption, DataInv, NEW t \in Threads, todo[t] # <<>>, NEW s, s = Head(todo[t])
  PROVE  /\ s.op \in {"inc", "dec", "put", "delete"} => Live(s.block)
         /\ s.op = "delete" => heap[s.block].ref = 0
         /\ s.op \in {"set", "edit"} /\ s.place.block # NoBlock => Live(s.place.block)
<1>1. PICK r : r = Tail(todo[t])
  OBVIOUS
<1>2. /\ t \in Nat /\ todo[t] \in Seq(StepSet(t)) /\ r \in Seq(StepSet(t)) /\ s \in StepSet(t)
      /\ \A b \in Blocks : Carried(todo[t], b) \in Nat /\ Carried(r, b) \in Nat
      /\ \A b : Carried(todo[t], b) = Carried(r, b) + Weight(s, r, b)
  BY <1>1, HeadFacts
<1>3. ASSUME NEW c \in Blocks, c \in Open(todo[t]) PROVE Live(c)
  <2>1. Ref(c) = 1
    BY <1>3 DEF DataInv, WriteOk, Sole, SoleReach
  <2> QED BY <2>1 DEF Ref
<1>4. ASSUME NEW c \in Blocks, Writes(s, c) PROVE Live(c)
  <2>1. Open(todo[t]) = {b \in Blocks : Writes(Head(todo[t]), b)} \cup {b \in Open(Tail(todo[t])) : ~IsNew(Head(todo[t]), b)}
    BY <1>2, OpenSplit
  <2> QED BY <2>1, <1>3, <1>4
<1>5. CASE s.op = "inc"
  <2>1. s.block \in Blocks /\ HeadIs(todo[t], "inc", s.block)
    BY <1>2, <1>5, StepShape DEF HeadIs
  <2>2. Owns(t, s.block) \/ Reach(t, s.block) \/ Raw(t, s.block)
    BY <2>1 DEF DataInv, HeadOk
  <2>3. Live(s.block)
    <3>1. Owns(t, s.block) => Live(s.block)
      BY <2>1, OwnsLive DEF DataInv
    <3>2. Reach(t, s.block) => Live(s.block)
      BY <2>1, KeptLive DEF Reach, DataInv
    <3> QED BY <2>2, <3>1, <3>2 DEF Raw
  <2> QED BY <1>5, <2>3
<1>6. CASE s.op = "dec"
  <2>1. PICK c : c = s.block
    OBVIOUS
  <2>2. c \in Blocks
    BY <1>2, <1>6, <2>1, StepShape
  <2>3. Weight(s, r, c) = 1
    BY <1>6, <2>1 DEF Weight, Spends, Gains, IsNew
  <2>4. Carried(todo[t], c) >= 1
    BY <1>2, <2>2, <2>3
  <2>5. Live(c)
    BY <2>2, <2>4, OwnsLive DEF Owns, DataInv
  <2> QED BY <1>6, <2>1, <2>5
<1>7. CASE s.op = "put"
  <2>1. s.block \in Blocks /\ Writes(s, s.block)
    BY <1>2, <1>7, StepShape DEF Writes
  <2> QED BY <1>4, <1>7, <2>1
<1>8. CASE s.op = "delete"
  <2>1. DelIn(todo[t]) = DelIn(Tail(todo[t])) \cup (IF Head(todo[t]).op = "delete" THEN {Head(todo[t]).block} ELSE {})
    BY <1>2, DelInSplit
  <2>2. s.block \in DelIn(todo[t])
    BY <1>8, <2>1
  <2>3. Live(s.block) /\ heap[s.block].ref = 0
    BY <2>2 DEF DataInv, DelOk
  <2> QED BY <1>8, <2>3
<1>9. CASE s.op \in {"set", "edit"}
  <2>1. ASSUME s.place.block # NoBlock PROVE Live(s.place.block)
    <3>1. s.place.block \in Blocks /\ s.place = Within(s.place.block)
      BY <1>2, <1>9, <2>1, StepShape, PlaceShape
    <3>2. Writes(s, s.place.block)
      BY <1>9, <3>1 DEF Writes
    <3> QED BY <1>4, <3>1, <3>2
  <2> QED BY <1>9, <2>1
<1>10. CASE s.op = "new"
  BY <1>10
<1> QED BY <1>2, <1>5, <1>6, <1>7, <1>8, <1>9, <1>10, StepShape

\* Places of handles, as many as there are handles.
LEMMA HandlePlaces ==
  ASSUME DataAssumption, NEW N, IsFiniteSet(N), NEW m \in Nat, Cardinality(N) = m, NEW P, P = {Here(h) : h \in Threads \X N}
  PROVE  IsFiniteSet(P) /\ Cardinality(P) = Cardinality(Threads) * m
<1>1. IsFiniteSet(Threads)
  BY DEF DataAssumption
<1>2. PICK H : H = Threads \X N
  OBVIOUS
<1>3. IsFiniteSet(H) /\ Cardinality(H) = Cardinality(Threads) * Cardinality(N)
  BY <1>1, <1>2, FS_Product
<1> QED BY <1>2, <1>3, HeresCount

\* At the start every reference is counted.
LEMMA InitCounted ==
  ASSUME NEW n \in Nat, n >= 1, DataAssumption, n = Cardinality(Threads),
         \A p : ~Busy(p), \A b : Tokens(b) = {},
         NEW b \in Blocks, NEW P, Kept(b) = P, IsFiniteSet(P), Ref(b) = Cardinality(P)
  PROVE  Counted(b)
<1>1. IsFiniteSet(Tokens(b)) /\ Cardinality(Tokens(b)) = 0
  BY FS_EmptySet
<1>2. Cardinality(P) \in Nat
  BY FS_CardinalityType
<1> QED BY <1>1, <1>2 DEF Counted

\* At the start every object is counted for the pointers to it.
LEMMA InitPtr ==
  ASSUME DataAssumption, NEW n \in Nat, n >= 1, n = Cardinality(Threads), counted = "Ptr",
         \A p : ~Busy(p), \A b : Tokens(b) = {},
         NEW a, a = <<0, 1>>, heap = [b \in {a} |-> [Object EXCEPT !.ref = 2 * n]],
         handle = [h \in Handles |-> InBlock(a)]
  PROVE  /\ heap \in [DOMAIN heap -> BlockSet] /\ DOMAIN heap \subseteq Blocks
         /\ handle \in [Handles -> DataSet] /\ (\A b \in DOMAIN heap : heap[b].ref # 0)
         /\ \A b \in Blocks : Counted(b)
<1>1. a \in Blocks /\ a # NoBlock /\ InBlock(a) \in DataSet /\ InBlock(a).at = a
  BY Made, PlacesDiffer DEF Blocks
<1>2. PICK k : k = [Object EXCEPT !.ref = 2 * n]
  OBVIOUS
<1>3. k \in BlockSet /\ k.ref = 2 * n /\ k.inner = Null
  <2>1. Object \in BlockSet /\ Object.inner = Null
    BY Made DEF Object, BlockSet, Kinds
  <2>2. 2 * n \in Nat
    OBVIOUS
  <2> QED BY <2>1, <2>2, <1>2, BlockChange
<1>4. DOMAIN heap = {a} /\ heap[a] = k /\ heap \in [DOMAIN heap -> BlockSet]
  BY <1>2, <1>3
<1>5. Handles = Threads \X {"p", "q"} /\ \A h \in Handles : handle[h] = InBlock(a)
  BY DEF Handles, Names
<1>6. Places = {Here(h) : h \in Handles} \cup {Within(a)}
  BY <1>4 DEF Places
<1>7. /\ \A h \in Handles : Data(Here(h)) = InBlock(a)
      /\ Data(Within(a)) = Null
  BY <1>1, <1>3, <1>4, <1>5, PlacesDiffer DEF Data
<1>8. ASSUME NEW b \in Blocks PROVE Counted(b)
  <2>1. CASE b = a
    <3>1. PICK P : P = {Here(h) : h \in Handles}
      OBVIOUS
    <3>2. Kept(b) = P
      <4>1. Null.at # b
        BY Made, PlacesDiffer
      <4> QED BY <4>1, <3>1, <2>1, <1>1, <1>6, <1>7 DEF Kept
    <3>3. IsFiniteSet(P) /\ Cardinality(P) = n * 2
      <4>1. P = {Here(h) : h \in Threads \X {"p", "q"}}
        BY <3>1, <1>5
      <4>2. PICK N, m : N = {"p", "q"} /\ m = 2
        OBVIOUS
      <4>3. IsFiniteSet(N) /\ Cardinality(N) = m /\ m \in Nat /\ P = {Here(h) : h \in Threads \X N}
        BY <4>1, <4>2, FewNames
      <4>4. IsFiniteSet(P) /\ Cardinality(P) = Cardinality(Threads) * m
        BY <4>3, HandlePlaces
      <4> QED BY <4>2, <4>4
    <3>4. Ref(b) = Cardinality(P)
      BY <2>1, <3>3, <1>3, <1>4 DEF Ref, Live
    <3> QED BY <3>2, <3>3, <3>4, InitCounted
  <2>2. CASE b # a
    <3>1. Kept(b) = {}
      <4>1. Null.at # b
        BY Made, PlacesDiffer
      <4> QED BY <4>1, <2>2, <1>1, <1>6, <1>7 DEF Kept
    <3>2. Ref(b) = 0
      BY <2>2, <1>4 DEF Ref, Live
    <3>3. PICK P : P = {}
      OBVIOUS
    <3>4. IsFiniteSet(P) /\ Kept(b) = P /\ Ref(b) = Cardinality(P)
      BY <3>1, <3>2, <3>3, FS_EmptySet
    <3> QED BY <3>4, InitCounted
  <2> QED BY <2>1, <2>2
<1>9. handle \in [Handles -> DataSet]
  BY <1>1
<1> QED BY <1>1, <1>3, <1>4, <1>8, <1>9

\* The start with a string and a Variant, and what is to be shown of a start.
ValueStart(n, a, c) ==
  /\ heap = [b \in {a, c} |-> IF b = a THEN [Str(1) EXCEPT !.ref = n + 1] ELSE [Var("string", InBlock(a)) EXCEPT !.ref = 2 * n]]
  /\ handle = [h \in Handles |-> IF h[2] = "s" THEN InBlock(a) ELSE InBlock(c)]
\* What is to be shown of a start.
Started ==
  /\ heap \in [DOMAIN heap -> BlockSet] /\ DOMAIN heap \subseteq Blocks
  /\ handle \in [Handles -> DataSet] /\ (\A b \in DOMAIN heap : heap[b].ref # 0)
  /\ \A b \in Blocks : Counted(b)

\* At the start there are counted one string and one Variant with that string.
LEMMA InitValue ==
  ASSUME DataAssumption, NEW n \in Nat, n >= 1, n = Cardinality(Threads), counted = "Value",
         \A p : ~Busy(p), \A b : Tokens(b) = {},
         NEW a, a = <<0, 1>>, NEW c, c = <<0, 2>>, ValueStart(n, a, c)
  PROVE  Started
<1>0. /\ heap = [b \in {a, c} |-> IF b = a THEN [Str(1) EXCEPT !.ref = n + 1] ELSE [Var("string", InBlock(a)) EXCEPT !.ref = 2 * n]]
      /\ handle = [h \in Handles |-> IF h[2] = "s" THEN InBlock(a) ELSE InBlock(c)]
  BY DEF ValueStart
<1>1. /\ a \in Blocks /\ InBlock(a) \in DataSet /\ InBlock(a).at = a
      /\ c \in Blocks /\ InBlock(c) \in DataSet /\ InBlock(c).at = c /\ a # c /\ a # NoBlock /\ c # NoBlock
  BY Made, PlacesDiffer DEF Blocks
<1>2. PICK k, l : k = [Str(1) EXCEPT !.ref = n + 1] /\ l = [Var("string", InBlock(a)) EXCEPT !.ref = 2 * n]
  OBVIOUS
<1>3. /\ k \in BlockSet /\ k.ref = n + 1 /\ k.inner = Null
      /\ l \in BlockSet /\ l.ref = 2 * n /\ l.inner = InBlock(a)
  <2>1. PICK f, g : f = Str(1) /\ g = Var("string", InBlock(a))
    OBVIOUS
  <2>2. f \in BlockSet /\ f.inner = Null
    BY <2>1, Made
  <2>3. g \in BlockSet /\ g.inner = InBlock(a)
    BY <2>1, <1>1, Made DEF Kinds
  <2>4. n + 1 \in Nat /\ 2 * n \in Nat
    OBVIOUS
  <2>5. k = [f EXCEPT !.ref = n + 1] /\ l = [g EXCEPT !.ref = 2 * n]
    BY <1>2, <2>1
  <2>6. k \in BlockSet /\ k.ref = n + 1 /\ k.inner = Null
    BY <2>2, <2>4, <2>5, BlockChange
  <2>7. l \in BlockSet /\ l.ref = 2 * n /\ l.inner = InBlock(a)
    BY <2>3, <2>4, <2>5, BlockChange
  <2> QED BY <2>6, <2>7
<1>4. DOMAIN heap = {a, c} /\ heap[a] = k /\ heap[c] = l /\ heap \in [DOMAIN heap -> BlockSet]
  BY <1>0, <1>1, <1>2, <1>3
<1>5. /\ Handles = (Threads \X {"s"}) \cup (Threads \X {"v", "w"})
      /\ \A h \in Threads \X {"s"} : handle[h] = InBlock(a)
      /\ \A h \in Threads \X {"v", "w"} : handle[h] = InBlock(c)
  <2>1. Handles = Threads \X {"s", "v", "w"}
    BY DEF Handles, Names
  <2> QED BY <1>0, <2>1
<1>6. Places = {Here(h) : h \in Threads \X {"s"}} \cup {Here(h) : h \in Threads \X {"v", "w"}} \cup {Within(a), Within(c)}
  BY <1>4, <1>5 DEF Places
<1>7. /\ \A h \in Threads \X {"s"} : Data(Here(h)).at = a
      /\ \A h \in Threads \X {"v", "w"} : Data(Here(h)).at = c
      /\ Data(Within(a)).at = NoBlock /\ Data(Within(c)).at = a
  <2>1. \A h \in Threads \X {"s", "v", "w"} : Here(h).block = NoBlock /\ Here(h).handle = h
    BY DEF Here
  <2>2. \A h \in Threads \X {"s", "v", "w"} : Data(Here(h)) = handle[h]
    BY <2>1 DEF Data
  <2>3. \A b : b # NoBlock => Data(Within(b)) = heap[b].inner
    BY DEF Data, Within
  <2>4. Data(Within(a)) = Null /\ Data(Within(c)) = InBlock(a)
    BY <2>3, <1>1, <1>3, <1>4
  <2>5. \A h \in Threads \X {"s"} : Data(Here(h)) = InBlock(a)
    BY <2>2, <1>5
  <2>6. \A h \in Threads \X {"v", "w"} : Data(Here(h)) = InBlock(c)
    BY <2>2, <1>5
  <2>7. Null.at = NoBlock
    BY DEF Null, Inline
  <2> QED BY <2>4, <2>5, <2>6, <2>7, <1>1
<1>8. ASSUME NEW b \in Blocks PROVE Counted(b)
  <2>0. NoBlock # b
    BY <1>8, PlacesDiffer
  <2>1. CASE b = a
    <3>1. PICK Q, P, N, m : Q = {Here(h) : h \in Threads \X N} /\ P = Q \cup {Within(c)} /\ N = {"s"} /\ m = 1
      OBVIOUS
    <3>2. Kept(b) = P
      BY <2>0, <2>1, <3>1, <1>1, <1>6, <1>7 DEF Kept
    <3>3. IsFiniteSet(Q) /\ Cardinality(Q) = Cardinality(Threads) * m
      <4>1. IsFiniteSet(N) /\ Cardinality(N) = m /\ m \in Nat
        BY <3>1, FewNames
      <4> QED BY <4>1, <3>1, HandlePlaces
    <3>4. Within(c) \notin Q
      BY <3>1, <1>1, PlacesDiffer
    <3>5. IsFiniteSet(P) /\ Cardinality(P) = n + 1
      <4>1. PICK x : x = Within(c)
        OBVIOUS
      <4>2. IsFiniteSet(Q \cup {x}) /\ Cardinality(Q \cup {x}) = IF x \in Q THEN Cardinality(Q) ELSE Cardinality(Q) + 1
        BY <3>3, FS_AddElement
      <4> QED BY <4>1, <4>2, <3>1, <3>3, <3>4
    <3>6. Ref(b) = Cardinality(P)
      BY <2>1, <3>5, <1>3, <1>4 DEF Ref, Live
    <3> QED BY <3>2, <3>5, <3>6, InitCounted
  <2>2. CASE b = c
    <3>1. PICK P, N, m : P = {Here(h) : h \in Threads \X N} /\ N = {"v", "w"} /\ m = 2
      OBVIOUS
    <3>2. Kept(b) = P
      BY <2>0, <2>2, <3>1, <1>1, <1>6, <1>7 DEF Kept
    <3>3. IsFiniteSet(P) /\ Cardinality(P) = Cardinality(Threads) * m
      <4>1. IsFiniteSet(N) /\ Cardinality(N) = m /\ m \in Nat
        BY <3>1, FewNames
      <4> QED BY <4>1, <3>1, HandlePlaces
    <3>4. Ref(b) = Cardinality(P)
      BY <2>2, <3>1, <3>3, <1>1, <1>3, <1>4 DEF Ref, Live
    <3> QED BY <3>2, <3>3, <3>4, InitCounted
  <2>3. CASE b # a /\ b # c
    <3>1. Kept(b) = {}
      BY <2>0, <2>3, <1>1, <1>6, <1>7 DEF Kept
    <3>2. Ref(b) = 0
      BY <2>3, <1>4 DEF Ref, Live
    <3>3. PICK P : P = {}
      OBVIOUS
    <3>4. IsFiniteSet(P) /\ Kept(b) = P /\ Ref(b) = Cardinality(P)
      BY <3>1, <3>2, <3>3, FS_EmptySet
    <3> QED BY <3>4, InitCounted
  <2> QED BY <2>1, <2>2, <2>3
<1>9. handle \in [Handles -> DataSet]
  BY <1>0, <1>1
<1> QED BY <1>1, <1>3, <1>4, <1>8, <1>9 DEF Started

\* The invariant holds at the start.
LEMMA DataStart ==
  ASSUME DataAssumption, DataInit
  PROVE  DataInv
<1>1. PICK n : n = Cardinality(Threads)
  OBVIOUS
<1>2. n \in Nat /\ n >= 1
  <2>1. IsFiniteSet(Threads) /\ Threads # {}
    BY DEF DataAssumption
  <2>2. Cardinality(Threads) \in Nat /\ Cardinality(Threads) # 0
    BY <2>1, FS_CardinalityType, FS_EmptySet
  <2> QED BY <1>1, <2>2
<1>3. todo = [t \in Threads |-> <<>>] /\ \A t \in Threads : todo[t] = <<>>
  BY DEF DataInit
<1>4. /\ \A p : ~Busy(p)
      /\ \A b : Tokens(b) = {}
  <2>1. \A x \in Threads \X Nat : \A b : Carried(todo[x[1]], b) = 0
    BY <1>3, NothingLeft
  <2>2. \A b : Tokens(b) = {}
    BY <2>1 DEF Tokens, TokensOf
  <2>3. \A p : ~Busy(p)
    BY <1>3, NothingLeft DEF Busy
  <2> QED BY <2>2, <2>3
<1>5. /\ heap \in [DOMAIN heap -> BlockSet] /\ DOMAIN heap \subseteq Blocks
      /\ handle \in [Handles -> DataSet] /\ (\A b \in DOMAIN heap : heap[b].ref # 0)
      /\ \A b \in Blocks : Counted(b)
  <2>1. PICK a, c : a = <<0, 1>> /\ c = <<0, 2>>
    OBVIOUS
  <2>2. CASE counted = "Ptr"
    <3>1. heap = [b \in {<<0, 1>>} |-> [Object EXCEPT !.ref = 2 * Cardinality(Threads)]]
      BY <2>2 DEF DataInit
    <3>2. heap = [b \in {a} |-> [Object EXCEPT !.ref = 2 * n]]
      BY <3>1, <2>1, <1>1
    <3>3. handle = [h \in Handles |-> InBlock(a)]
      <4>1. Handles = Threads \X {"p", "q"}
        BY <2>2 DEF Handles, Names
      <4>2. \A h \in Handles : h[2] \in {"s", "p", "q"}
        BY <4>1
      <4>3. handle = [h \in Handles |-> IF h[2] \in {"s", "p", "q"} THEN InBlock(<<0, 1>>) ELSE InBlock(<<0, 2>>)]
        BY DEF DataInit
      <4> QED BY <4>2, <4>3, <2>1
    <3> QED BY <1>1, <1>2, <1>4, <2>1, <2>2, <3>2, <3>3, InitPtr
  <2>3. CASE counted = "Value"
    <3>1. heap = [b \in {<<0, 1>>, <<0, 2>>} |-> IF b = <<0, 1>> THEN [Str(1) EXCEPT !.ref = Cardinality(Threads) + 1]
                                                 ELSE [Var("string", InBlock(<<0, 1>>)) EXCEPT !.ref = 2 * Cardinality(Threads)]]
      BY <2>3 DEF DataInit
    <3>2. heap = [b \in {a, c} |-> IF b = a THEN [Str(1) EXCEPT !.ref = n + 1] ELSE [Var("string", InBlock(a)) EXCEPT !.ref = 2 * n]]
      BY <3>1, <2>1, <1>1
    <3>3. handle = [h \in Handles |-> IF h[2] = "s" THEN InBlock(a) ELSE InBlock(c)]
      <4>1. Handles = Threads \X {"s", "v", "w"}
        BY <2>3 DEF Handles, Names
      <4>2. \A h \in Handles : h[2] \in {"s", "p", "q"} <=> h[2] = "s"
        BY <4>1
      <4>3. handle = [h \in Handles |-> IF h[2] \in {"s", "p", "q"} THEN InBlock(<<0, 1>>) ELSE InBlock(<<0, 2>>)]
        BY DEF DataInit
      <4> QED BY <4>2, <4>3, <2>1
    <3>4. ValueStart(n, a, c)
      BY <3>2, <3>3 DEF ValueStart
    <3>5. Started
      BY <1>1, <1>2, <1>4, <2>1, <2>3, <3>4, InitValue
    <3> QED BY <3>5 DEF Started
  <2> QED BY <2>2, <2>3 DEF DataInit
<1>6. Typed
  <2>1. value \in [Handles -> Words \X Nat]
    <3>1. value = [h \in Handles |-> <<"string", IF counted = "Ptr" THEN 0 ELSE 1>>]
      BY DEF DataInit, String
    <3>2. <<"string", IF counted = "Ptr" THEN 0 ELSE 1>> \in Words \X Nat
      BY DEF Words
    <3> QED BY <3>1, <3>2
  <2>2. \A t \in Threads : todo[t] \in Seq(StepSet(t))
    BY <1>3
  <2>3. todo = [t \in Threads |-> todo[t]] /\ counted \in {"Value", "Ptr"}
    BY <1>3 DEF DataInit
  <2> QED BY <1>5, <2>1, <2>2, <2>3 DEF Typed
<1>7. AllCounted
  BY <1>5 DEF AllCounted
<1>8. AllSound
  BY <1>3, SoundEmpty DEF AllSound
<1>9. HeadOk
  BY <1>3 DEF HeadOk, HeadIs
<1>10. NewOk /\ DelOk /\ WriteOk
  BY <1>3, NothingLeft DEF NewOk, DelOk, WriteOk
<1>11. ZeroOk
  BY <1>5 DEF ZeroOk
<1> QED BY <1>6, <1>7, <1>8, <1>9, <1>10, <1>11 DEF DataInv

\* What the invariant says of the data: DataAlive.
LEMMA AliveFromInv ==
  ASSUME DataAssumption, DataInv
  PROVE  DataAlive
<1>1. ASSUME NEW t \in Threads, todo[t] # <<>>
      PROVE  LET s == Head(todo[t])
             IN  /\ s.op \in {"inc", "dec", "put", "delete"} => Live(s.block)
                 /\ s.op = "delete" => heap[s.block].ref = 0
                 /\ s.op \in {"set", "edit"} /\ s.place.block # NoBlock => Live(s.place.block)
  <2>1. PICK s : s = Head(todo[t])
    OBVIOUS
  <2>2. /\ s.op \in {"inc", "dec", "put", "delete"} => Live(s.block)
        /\ s.op = "delete" => heap[s.block].ref = 0
        /\ s.op \in {"set", "edit"} /\ s.place.block # NoBlock => Live(s.place.block)
    BY <1>1, <2>1, HeadAlive
  <2> QED BY <2>1, <2>2
<1>2. ASSUME \A t \in Threads : Resting(t)
      PROVE  LET handles == UNION {Own(t) : t \in Threads}
                 refs(b) == Cardinality({h \in handles : handle[h] = InBlock(b)})
                              + Cardinality({c \in DOMAIN heap : heap[c].inner = InBlock(b)})
             IN  /\ \A b \in DOMAIN heap : heap[b].ref = refs(b) /\ refs(b) > 0
                 /\ \A d \in {handle[h] : h \in handles} \cup {heap[c].inner : c \in DOMAIN heap} :
                      Shares(d) => Live(d.at)
  <2>1. UNION {Own(t) : t \in Threads} = Handles
    <3>1. \A h : h \in Handles => \E t \in Threads : h \in {t} \X Names
      BY DEF Handles
    <3>2. \A t \in Threads : {t} \X Names \subseteq Handles
      BY DEF Handles
    <3> QED BY <3>1, <3>2 DEF Own
  <2>2. \A t \in Threads : todo[t] = <<>>
    BY <1>2 DEF Resting
  <2>3. /\ \A b \in DOMAIN heap : /\ heap[b].ref = Cardinality({h \in Handles : handle[h] = InBlock(b)})
                                                     + Cardinality({c \in DOMAIN heap : heap[c].inner = InBlock(b)})
                                  /\ heap[b].ref > 0
        /\ \A h \in Handles : Shares(handle[h]) => Live(handle[h].at)
        /\ \A c \in DOMAIN heap : Shares(heap[c].inner) => Live(heap[c].inner.at)
    BY <2>2, RestCounted
  <2> QED BY <2>1, <2>3
<1> QED BY <1>1, <1>2 DEF DataAlive

-----------------------------------------------------------------------------
\* Every reference count is exact, and no thread has a step to take that the references it has do
\* not allow, in every state (String.hpp 78-82, 193-216; Variant.hpp 87-122; RefCount.hpp 34-72).
THEOREM DataInductive == DataSpec => []DataInv
<1>1. DataInit => DataInv
  BY DataAssumption, DataStart
<1>2. DataInv /\ [DataNext]_dataVars => DataInv'
  BY DataAssumption, DataStep
<1> QED BY <1>1, <1>2, PTL DEF DataSpec

\* No thread ever touches data that was deleted, whatever the others release at the same time, and
\* between calls every count is the number of references there are (String.hpp 78-82, 193-216;
\* Variant.hpp 87-122; RefCount.hpp 34-72).
THEOREM DataAliveAlways == DataSpec => []DataAlive
<1>1. DataInv => DataAlive
  BY DataAssumption, AliveFromInv
<1> QED BY <1>1, DataInductive, PTL
=============================================================================
