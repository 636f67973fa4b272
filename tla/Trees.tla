------------------------------- MODULE Trees --------------------------------
(***************************************************************************)
(* Map (multi = FALSE) and MultiMap (multi = TRUE), one object of either   *)
(* kind under any sequence of its operations, next to what it stands for:  *)
(* the sequence of its items in the order of their keys.                   *)
(***************************************************************************)
EXTENDS AvlTree, SequencesExt

CONSTANTS Keys,     \* of a Map; the item with key k is called k
          MultiKeys, Copies   \* of a MultiMap: bound on the items with the same key

VARIABLES tree, multi, contents

vars == <<tree, multi, contents>>

\* Items of a MultiMap are numbered so that the number tells the key.
MultiItems == {10 * k + n : k \in MultiKeys, n \in 1 .. Copies}
Items == IF multi THEN MultiItems ELSE Keys
KeyOf(i) == IF multi THEN i \div 10 ELSE i

\* Which free item a new key gets.
Free == {i \in Items : \A j \in ToSet(contents) : i # j}
ItemFor(k) == IF multi THEN CHOOSE i \in Free : KeyOf(i) = k
                              /\ \A j \in Free : KeyOf(j) = k => i <= j
              ELSE k
CanInsert(k) == multi => \E i \in Free : KeyOf(i) = k

Init == /\ multi \in BOOLEAN
        /\ tree = NewTree(Items)
        /\ contents = <<>>

\* The reference: a new key goes behind all keys that are not greater, in a MultiMap
\* with a hint anywhere among the equal keys.
Sorted(s) == \A m, n \in 1 .. Len(s) : m < n => KeyOf(s[m]) <= KeyOf(s[n])
Behind(i) == LET n == Cardinality({m \in 1 .. Len(contents) : KeyOf(contents[m]) <= KeyOf(i)})
             IN  IF ~multi /\ Contains(contents, i) THEN contents
                 ELSE InsertAt(contents, n + 1, i)

insert(k) ==
  /\ CanInsert(k)
  /\ LET i == ItemFor(k)
     IN  /\ tree' = Insert(tree, i, k, multi)
         /\ contents' = Behind(i)
  /\ UNCHANGED multi

insertHint(hint, k) ==
  /\ hint = EndItem \/ Contains(contents, hint)
  /\ CanInsert(k)
  /\ LET i == ItemFor(k)
         here == IF ~multi /\ Contains(contents, i) THEN {contents}
                 ELSE {s \in {InsertAt(contents, m, i) : m \in 1 .. (Len(contents) + 1)} : Sorted(s)}
     IN  /\ tree' = InsertHint(tree, hint, i, k, multi)
         /\ contents' = IF List(tree') \in here THEN List(tree') ELSE Behind(i)
  /\ UNCHANGED multi

\* remove(it); removeFront() and removeBack() are the first and the last item.
removeItem(i) ==
  /\ Contains(contents, i)
  /\ tree' = RemoveItem(tree, i)
  /\ contents' = SelectSeq(contents, LAMBDA x : x # i)
  /\ UNCHANGED multi

\* remove(key): the item find() returns, any of those with the key.
removeKey(k) ==
  /\ LET i == Find(tree, k)
     IN  /\ tree' = IF i = EndItem THEN tree ELSE RemoveItem(tree, i)
         /\ contents' = IF \E x \in ToSet(contents) : KeyOf(x) = k
                        THEN SelectSeq(contents, LAMBDA x : x # i) ELSE contents
  /\ UNCHANGED multi

\* clear(): every item goes to the free list.
clear == /\ tree' = NewTree(Items)
         /\ contents' = <<>>
         /\ UNCHANGED multi

\* Map(const Map&), and operator= of another map with the same contents:
\* the items of the other are inserted in order, each one from the root.
copy ==
  /\ ~multi
  /\ tree' = FoldLeft(LAMBDA t, i : Insert(t, i, i, FALSE), NewTree(Items), List(tree))
  /\ UNCHANGED <<multi, contents>>

\* A set of keys in order (they are 1, 2, ...).
Ascending(S) == SelectSeq([n \in 1 .. Cardinality(Keys) |-> n], LAMBDA n : n \in S)

\* insert(const Map& other): `other' holds the keys of S.
insertMap(S) ==
  /\ ~multi /\ S # {}
  /\ LET other == Ascending(S)
         first == Insert(tree, other[1], other[1], FALSE)
         step(acc, k) == <<InsertHint(acc[1], acc[2], k, k, FALSE), k>>
     IN  /\ tree' = FoldLeft(step, <<first, other[1]>>, Tail(other))[1]
         /\ contents' = Ascending(ToSet(contents) \cup S)
  /\ UNCHANGED multi

Next == \/ \E k \in Keys : ~multi /\ (insert(k) \/ removeKey(k))
        \/ \E k \in MultiKeys : multi /\ (insert(k) \/ removeKey(k))
        \/ \E h \in Items \cup {EndItem} :
             \/ \E k \in Keys : ~multi /\ insertHint(h, k)
             \/ \E k \in MultiKeys : multi /\ insertHint(h, k)
             \/ removeItem(h)
        \/ clear \/ copy
        \/ \E S \in {{k \in Keys : k % 3 = 0}, {k \in Keys : k % 2 = 1}} : insertMap(S)

Spec == Init /\ [][Next]_vars

-----------------------------------------------------------------------------
\* What checkTree() asserts, and the list that iterators follow, hold after any sequence
\* of insertions, hinted insertions and removals (Map.hpp 195-346, 389-469).
TreeWellFormed == WellFormed(tree)

\* An iteration visits what was inserted and not removed, in the order of the keys, and
\* find() and contains() tell what is there (Map.hpp 101-121, 188-193).
TreeContents ==
  /\ List(tree) = contents
  /\ Sorted(contents)
  /\ \A i \in Items : Contains(contents, i) =>
       Find(tree, KeyOf(i)) # EndItem /\ KeyOf(Find(tree, KeyOf(i))) = KeyOf(i)
  /\ \A i \in Free : ~multi => Find(tree, i) = EndItem
=============================================================================
