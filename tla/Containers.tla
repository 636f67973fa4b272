----------------------------- MODULE Containers -----------------------------
(***************************************************************************)
(* List, PoolList, HashMap, HashSet and PoolMap of src/include/nstd: two   *)
(* containers of one class under any sequence of its operations, next to   *)
(* what each stands for, the sequence of its keys and values.  A List's    *)
(* elements are its keys.  Assignment from, and insertion of, the          *)
(* container itself are left out: see the README.                          *)
(***************************************************************************)
EXTENDS Linked

CONSTANTS Keys, Values

VARIABLES class, mem, contents

vars == <<class, mem, contents>>

Init == /\ class \in {"List", "PoolList", "HashMap", "HashSet", "PoolMap"}
        /\ mem = Empty
        /\ contents = [b \in Boxes |-> <<>>]

-----------------------------------------------------------------------------
(* The reference: sequences.                                               *)

PlaceOf(b, pos) == IF pos = End(b) THEN Len(contents[b]) + 1
                   ELSE SelectInSeq(Visited(mem, b), LAMBDA i : i = pos)
KeyAt(s, key) == SelectInSeq(s, LAMBDA e : e[1] = key)   \* 0: there is none

\* A keyed insertion changes the value of a key that is there.
PutAt(s, n, key, value, overwrite) ==
  IF KeyAt(s, key) = 0 THEN InsertAt(s, n, <<key, value>>)
  ELSE IF overwrite THEN [s EXCEPT ![KeyAt(s, key)] = <<key, value>>] ELSE s
DropAt(s, n) == IF n = 0 THEN s ELSE RemoveAt(s, n)

Effect(b, m, s) == /\ mem' = m
                   /\ contents' = [contents EXCEPT ![b] = s]
                   /\ UNCHANGED class

Positions(b) == ToSet(Visited(mem, b)) \cup {End(b)}

\* Bound: the blocks suffice for n more items.
Room(b, n) == Len(FreeFrom(mem, mem.box[b].free))
                + BlockSize * (MaxBlocks - Cardinality(Allocated(mem))) >= n

-----------------------------------------------------------------------------
(* List.                                                                   *)

ListInsert(m, b, pos, value) ==
  LET u == Reserve(m, b, FALSE)
  IN  Link(TakeItem(u, b, value, 0), b, u.box[b].free, pos)

List_insert(b, pos, value) ==
  /\ Room(b, 1)
  /\ Effect(b, ListInsert(mem, b, pos, value), InsertAt(contents[b], PlaceOf(b, pos), <<value, 0>>))

\* insert(position, list), also append and prepend of a list: of the other list.
List_insertList(b, o, pos) ==
  /\ Room(b, Len(contents[o]))
  /\ Effect(b, FoldLeft(LAMBDA m, i : ListInsert(m, b, pos, mem.item[i].key), mem, Visited(mem, o)),
            SubSeq(contents[b], 1, PlaceOf(b, pos) - 1) \o contents[o]
              \o SubSeq(contents[b], PlaceOf(b, pos), Len(contents[b])))

\* find: the first item with the value.
List_find(m, b, value) ==
  LET s == Visited(m, b)
      n == SelectInSeq(s, LAMBDA i : m.item[i].key = value)
  IN  IF n = 0 THEN End(b) ELSE s[n]

\* remove(it), also removeFront and removeBack.
List_remove(b, i) == Effect(b, Unlink(mem, b, i), DropAt(contents[b], PlaceOf(b, i)))

List_removeValue(b, value) ==
  LET i == List_find(mem, b, value)
  IN  Effect(b, IF i = End(b) THEN mem ELSE Unlink(mem, b, i),
             DropAt(contents[b], KeyAt(contents[b], value)))

List_clear(b) == Effect(b, ClearAll(mem, b), <<>>)

\* The copy constructor and operator= with the other list.
List_assign(b, o) ==
  /\ Room(b, Len(contents[o]) - Len(contents[b]))
  /\ Effect(b, FoldLeft(LAMBDA m, i : ListInsert(m, b, End(b), mem.item[i].key),
                        ClearAll(mem, b), Visited(mem, o)), contents[o])

\* sort(): the values move, the items stay.
List_sort(b) ==
  LET s == Visited(mem, b)
      v == [n \in 1 .. Len(s) |-> mem.item[s[n]].key]
      sorted == IF Len(v) < 2 THEN v ELSE QuickSort(v, 1, Len(v))
      ranked == {w \in [1 .. Len(v) -> Keys] :
                   /\ \A n \in 1 .. (Len(w) - 1) : w[n] <= w[n + 1]
                   /\ \A k \in Keys : Cardinality({n \in 1 .. Len(v) : v[n] = k})
                                        = Cardinality({n \in 1 .. Len(v) : w[n] = k})}
  IN  Effect(b, [mem EXCEPT !.item = [i \in DOMAIN mem.item |->
                    IF Contains(s, i) THEN [mem.item[i] EXCEPT !.key = sorted[SelectInSeq(s, LAMBDA j : j = i)]]
                    ELSE mem.item[i]]],
             LET w == CHOOSE w \in ranked : TRUE IN [n \in 1 .. Len(v) |-> <<w[n], 0>>])

List_equal(m) == /\ m.box["a"].size = m.box["b"].size
                 /\ LET x == Visited(m, "a")
                        y == Visited(m, "b")
                    IN  \A n \in 1 .. Len(x) : m.item[x[n]].key = m.item[y[n]].key

Swap(b, o) == /\ mem' = SwapAll(mem, b, o)
              /\ contents' = [contents EXCEPT ![b] = contents[o], ![o] = contents[b]]
              /\ UNCHANGED class

List_swap(b, o) == Swap(b, o)

List == \E b \in Boxes :
  LET o == CHOOSE o \in Boxes : o # b
  IN  \/ \E pos \in Positions(b) : \/ \E k \in Keys : List_insert(b, pos, k)
                                   \/ List_insertList(b, o, pos)
      \/ \E i \in ToSet(Visited(mem, b)) : List_remove(b, i)
      \/ \E k \in Keys : List_removeValue(b, k)
      \/ List_clear(b) \/ List_assign(b, o) \/ List_sort(b) \/ List_swap(b, o)

-----------------------------------------------------------------------------
(* PoolList: elements do not move, and a new one goes to the end.          *)

\* append: allocateFreeItem and linkFreeItem.
PoolList_append(b, value) ==
  /\ Room(b, 1)
  /\ Effect(b, ListInsert(mem, b, End(b), value), Append(contents[b], <<value, 0>>))

\* remove(value), by reference, and remove(it).
PoolList_remove(b, i) == Effect(b, Unlink(mem, b, i), DropAt(contents[b], PlaceOf(b, i)))
PoolList_clear(b) == Effect(b, ClearAll(mem, b), <<>>)
PoolList_swap(b, o) == Swap(b, o)

PoolList == \E b \in Boxes :
  LET o == CHOOSE o \in Boxes : o # b
  IN  \/ \E k \in Keys : PoolList_append(b, k)
      \/ \E i \in ToSet(Visited(mem, b)) : PoolList_remove(b, i)
      \/ PoolList_clear(b) \/ PoolList_swap(b, o)

-----------------------------------------------------------------------------
(* HashMap.                                                                *)

\* A new key gets an item, a chain and a place in the list.
HashInsert(m, b, pos, key, value, first) ==
  LET u == Reserve(AllocateData(m, b), b, first)
      i == u.box[b].free
  IN  Link(Enchain(TakeItem(u, b, key, value), b, i), b, i, pos)

HashRemove(m, b, i) == Unlink(Unchain(m, i), b, i)

HashMap_find(m, b, key) == FindHash(m, b, key)

HashMapInsert(m, b, pos, key, value, overwrite) ==
  LET it == HashMap_find(m, b, key)
  IN  IF it = End(b) THEN HashInsert(m, b, pos, key, value, TRUE)
      ELSE IF overwrite THEN [m EXCEPT !.item[it].value = value] ELSE m

\* insert, append and prepend.
HashMap_insert(b, pos, key, value, overwrite) ==
  /\ Room(b, 1)
  /\ Effect(b, HashMapInsert(mem, b, pos, key, value, overwrite),
            PutAt(contents[b], PlaceOf(b, pos), key, value, overwrite))

HashMap_remove(b, i) == Effect(b, HashRemove(mem, b, i), DropAt(contents[b], PlaceOf(b, i)))

HashMap_removeKey(b, key) ==
  LET it == HashMap_find(mem, b, key)
  IN  Effect(b, IF it = End(b) THEN mem ELSE HashRemove(mem, b, it),
             DropAt(contents[b], KeyAt(contents[b], key)))

HashMap_clear(b) == Effect(b, ClearAll(mem, b), <<>>)

HashMap_assign(b, o) ==
  /\ Room(b, Len(contents[o]) - Len(contents[b]))
  /\ Effect(b, FoldLeft(LAMBDA m, i : HashMapInsert(m, b, End(b), mem.item[i].key, mem.item[i].value, TRUE),
                        ClearAll(mem, b), Visited(mem, o)), contents[o])

HashMap_swap(b, o) == Swap(b, o)

HashMap == \E b \in Boxes :
  LET o == CHOOSE o \in Boxes : o # b
  IN  \/ \E pos \in Positions(b), k \in Keys, v \in Values, w \in BOOLEAN :
           HashMap_insert(b, pos, k, v, w)
      \/ \E i \in ToSet(Visited(mem, b)) : HashMap_remove(b, i)
      \/ \E k \in Keys : HashMap_removeKey(b, k)
      \/ HashMap_clear(b) \/ HashMap_assign(b, o) \/ HashMap_swap(b, o)

-----------------------------------------------------------------------------
(* HashSet.                                                                *)

HashSet_find(m, b, key) == FindHash(m, b, key)

HashSetInsert(m, b, pos, key) ==
  IF HashSet_find(m, b, key) = End(b) THEN HashInsert(m, b, pos, key, 0, TRUE) ELSE m

HashSet_insert(b, pos, key) ==
  /\ Room(b, 1)
  /\ Effect(b, HashSetInsert(mem, b, pos, key), PutAt(contents[b], PlaceOf(b, pos), key, 0, FALSE))

\* append(set).
HashSet_append(b, o) ==
  /\ Room(b, Len(contents[o]))
  /\ Effect(b, FoldLeft(LAMBDA m, i : HashSetInsert(m, b, End(b), mem.item[i].key), mem, Visited(mem, o)),
            FoldLeft(LAMBDA s, e : PutAt(s, Len(s) + 1, e[1], 0, FALSE), contents[b], contents[o]))

HashSet_remove(b, i) == Effect(b, HashRemove(mem, b, i), DropAt(contents[b], PlaceOf(b, i)))

HashSet_removeKey(b, key) ==
  LET it == HashSet_find(mem, b, key)
  IN  Effect(b, IF it = End(b) THEN mem ELSE HashRemove(mem, b, it),
             DropAt(contents[b], KeyAt(contents[b], key)))

\* remove(set).
HashSet_removeAll(b, o) ==
  LET drop(m, i) == LET it == HashSet_find(m, b, mem.item[i].key)
                    IN  IF it = End(b) THEN m ELSE HashRemove(m, b, it)
  IN  Effect(b, FoldLeft(drop, mem, Visited(mem, o)),
             SelectSeq(contents[b], LAMBDA e : KeyAt(contents[o], e[1]) = 0))

HashSet_clear(b) == Effect(b, ClearAll(mem, b), <<>>)

HashSet_assign(b, o) ==
  /\ Room(b, Len(contents[o]) - Len(contents[b]))
  /\ Effect(b, FoldLeft(LAMBDA m, i : HashSetInsert(m, b, End(b), mem.item[i].key),
                        ClearAll(mem, b), Visited(mem, o)), contents[o])

HashSet_swap(b, o) == Swap(b, o)

HashSet == \E b \in Boxes :
  LET o == CHOOSE o \in Boxes : o # b
  IN  \/ \E pos \in Positions(b), k \in Keys : HashSet_insert(b, pos, k)
      \/ \E i \in ToSet(Visited(mem, b)) : HashSet_remove(b, i)
      \/ \E k \in Keys : HashSet_removeKey(b, k)
      \/ HashSet_clear(b) \/ HashSet_assign(b, o) \/ HashSet_swap(b, o)
      \/ HashSet_append(b, o) \/ HashSet_removeAll(b, o)

-----------------------------------------------------------------------------
(* PoolMap: a value is made with its key and never moves.                  *)

PoolMap_find(m, b, key) == FindHash(m, b, key)

PoolMap_insert(b, pos, key) ==
  /\ Room(b, 1)
  /\ Effect(b, IF PoolMap_find(mem, b, key) = End(b) THEN HashInsert(mem, b, pos, key, 0, FALSE) ELSE mem,
            PutAt(contents[b], PlaceOf(b, pos), key, 0, FALSE))

\* remove(it) and remove(value), by reference.
PoolMap_remove(b, i) == Effect(b, HashRemove(mem, b, i), DropAt(contents[b], PlaceOf(b, i)))

PoolMap_removeKey(b, key) ==
  LET it == PoolMap_find(mem, b, key)
  IN  Effect(b, IF it = End(b) THEN mem ELSE HashRemove(mem, b, it),
             DropAt(contents[b], KeyAt(contents[b], key)))

PoolMap_clear(b) == Effect(b, ClearAll(mem, b), <<>>)
PoolMap_swap(b, o) == Swap(b, o)

PoolMap == \E b \in Boxes :
  LET o == CHOOSE o \in Boxes : o # b
  IN  \/ \E pos \in Positions(b), k \in Keys : PoolMap_insert(b, pos, k)
      \/ \E i \in ToSet(Visited(mem, b)) : PoolMap_remove(b, i)
      \/ \E k \in Keys : PoolMap_removeKey(b, k)
      \/ PoolMap_clear(b) \/ PoolMap_swap(b, o)

-----------------------------------------------------------------------------
Next == \/ class = "List" /\ List
        \/ class = "PoolList" /\ PoolList
        \/ class = "HashMap" /\ HashMap
        \/ class = "HashSet" /\ HashSet
        \/ class = "PoolMap" /\ PoolMap

Spec == Init /\ [][Next]_vars

Hashed == class \in {"HashMap", "HashSet", "PoolMap"}

\* Iterating either way visits exactly what was put in and not taken out, in order, after any
\* sequence of operations on both containers, swap() included; size(), isEmpty(), find() and
\* operator== tell the same (List.hpp 140-214, HashMap.hpp 108-256, PoolList.hpp 126-202).
ContainersExact ==
  \A b \in Boxes :
    LET s == Visited(mem, b)
        at(n) == IF n = 0 THEN Nil ELSE s[n]
    IN  /\ [n \in 1 .. Len(s) |-> <<mem.item[s[n]].key, mem.item[s[n]].value>>] = contents[b]
        /\ \A n \in 1 .. Len(s) : mem.item[s[n]].prev = at(n - 1)
        /\ mem.item[End(b)].prev = at(Len(s))
        /\ mem.box[b].size = Len(s)
        /\ Hashed => \A k \in Keys :
             LET n == KeyAt(contents[b], k)
             IN  FindHash(mem, b, k) = IF n = 0 THEN End(b) ELSE s[n]
        /\ List_equal(mem) <=> [n \in 1 .. Len(contents["a"]) |-> contents["a"][n][1]]
                                 = [n \in 1 .. Len(contents["b"]) |-> contents["b"][n][1]]

\* No item is lost, used twice or handed to two containers: the items of a container's blocks
\* are its elements and its free list, each once; every chained item is what its cell points to
\* (HashMap.hpp 94-106, 160-239, PoolMap.hpp 143-222).
PoolExact ==
  /\ mem.box["a"].blocks \cap mem.box["b"].blocks = {}
  /\ \A b \in Boxes :
       LET used == Visited(mem, b) \o FreeFrom(mem, mem.box[b].free)
       IN  /\ ToSet(used) = {i \in Items : ((i - 1) \div BlockSize) + 1 \in mem.box[b].blocks}
           /\ Len(used) = Cardinality(ToSet(used))
           /\ Hashed => \A i \in ToSet(Visited(mem, b)) :
                          /\ Deref(mem, mem.item[i].cell) = i
                          /\ mem.item[i].cell[1] \in {0, mem.box[b].data}
=============================================================================
