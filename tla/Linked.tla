------------------------------- MODULE Linked -------------------------------
(***************************************************************************)
(* The memory that List, PoolList, HashMap, HashSet and PoolMap of         *)
(* src/include/nstd keep: doubly linked items from begin to endItem, items *)
(* taken from blocks and given back to a free list threaded through their  *)
(* prev pointers, and, for the last three, hash chains in which each item  *)
(* knows the cell that points to it.  The classes have the same code for   *)
(* this; Containers.tla has their operations.                              *)
(*                                                                         *)
(* A state m of the memory is a record: `item', every item and the end     *)
(* items that are members of the containers; `box', the other members of   *)
(* the containers; `data', the hash arrays.  A cell is <<array, bucket>>   *)
(* or <<0, i>>, the nextCell of item i.                                    *)
(***************************************************************************)
EXTENDS Integers, Sequences, SequencesExt

CONSTANTS BlockSize,   \* items in a block: 4 in the code
          MaxBlocks,   \* bound on the blocks
          Capacity     \* buckets of a hash array: 500 or the constructor's argument

Nil == 0
Boxes == {"a", "b"}
End(b) == IF b = "a" THEN -1 ELSE -2   \* &endItem
NoCell == <<0, 0>>

Items == 1 .. (BlockSize * MaxBlocks)
Blank == [key |-> 0, value |-> 0, prev |-> Nil, next |-> Nil, cell |-> NoCell, nextCell |-> Nil]

Empty ==
  [item |-> [i \in Items \cup {End("a"), End("b")} |-> Blank],
   box  |-> [b \in Boxes |-> [begin |-> End(b), size |-> 0, free |-> Nil, blocks |-> {}, data |-> 0]],
   data |-> [d \in 1 .. 2 |-> [h \in 0 .. (Capacity - 1) |-> Nil]]]

Hash(key) == key % Capacity

-----------------------------------------------------------------------------
(* Items.                                                                  *)

Allocated(m) == m.box["a"].blocks \cup m.box["b"].blocks
CanAllocate(m, b) == m.box[b].free # Nil \/ Allocated(m) # 1 .. MaxBlocks
NextBlock(m) == CHOOSE n \in (1 .. MaxBlocks) \ Allocated(m) :
                  \A o \in (1 .. MaxBlocks) \ Allocated(m) : n <= o

\* A new block, all of it on the free list: the last item is on top.
AddBlock(m, b) ==
  LET n == NextBlock(m)
      low == BlockSize * (n - 1) + 1
      high == BlockSize * n
  IN  [m EXCEPT !.item = [i \in DOMAIN m.item |->
                            IF i \in low .. high
                            THEN [Blank EXCEPT !.prev = IF i = low THEN Nil ELSE i - 1]
                            ELSE m.item[i]],
                !.box[b].free = high,
                !.box[b].blocks = @ \cup {n}]

\* HashMap and HashSet take the first item of the block and put the others on the list.
AddBlockFirst(m, b) ==
  LET n == NextBlock(m)
      low == BlockSize * (n - 1) + 1
      high == BlockSize * n
      u == AddBlock(m, b)
  IN  IF BlockSize = 1 THEN u
      ELSE [u EXCEPT !.box[b].free = low, !.item[low].prev = high, !.item[low + 1].prev = Nil]

Reserve(m, b, first) ==
  IF m.box[b].free # Nil THEN m ELSE IF first THEN AddBlockFirst(m, b) ELSE AddBlock(m, b)

\* The top of the free list becomes an item.
TakeItem(m, b, key, value) ==
  LET i == m.box[b].free
  IN  [m EXCEPT !.box[b].free = m.item[i].prev,
                !.item[i] = [Blank EXCEPT !.key = key, !.value = value]]

\* Mutant: inserting before the first item leaves begin where it was.
LinkKeepsBegin(m, b, i, pos) ==
  LET before == m.item[pos].prev
      u == [m EXCEPT !.item[i].prev = before, !.item[i].next = pos, !.item[pos].prev = i,
                     !.box[b].size = @ + 1]
  IN  IF before = Nil /\ m.box[b].size = 0 THEN [u EXCEPT !.box[b].begin = i]
      ELSE IF before = Nil THEN u ELSE [u EXCEPT !.item[before].next = i]

\* The item is linked before a position.
Link(m, b, i, pos) ==
  LET before == m.item[pos].prev
      u == [m EXCEPT !.item[i].prev = before, !.item[i].next = pos, !.item[pos].prev = i,
                     !.box[b].size = @ + 1]
  IN  IF before = Nil THEN [u EXCEPT !.box[b].begin = i] ELSE [u EXCEPT !.item[before].next = i]

\* remove: the item leaves the list and goes to the free list.
Unlink(m, b, i) ==
  LET prev == m.item[i].prev
      next == m.item[i].next
      u == IF prev = Nil THEN [m EXCEPT !.box[b].begin = next, !.item[next].prev = Nil]
           ELSE [m EXCEPT !.item[prev].next = next, !.item[next].prev = prev]
  IN  [u EXCEPT !.box[b].size = @ - 1, !.box[b].free = i,
                !.item[i] = [Blank EXCEPT !.prev = m.box[b].free]]

RECURSIVE ItemsFrom(_, _, _)
ItemsFrom(m, b, i) == IF i = End(b) THEN <<>> ELSE <<i>> \o ItemsFrom(m, b, m.item[i].next)

\* What an iteration visits.
Visited(m, b) == ItemsFrom(m, b, m.box[b].begin)

RECURSIVE FreeFrom(_, _)
FreeFrom(m, i) == IF i = Nil THEN <<>> ELSE <<i>> \o FreeFrom(m, m.item[i].prev)

-----------------------------------------------------------------------------
(* Hash chains.                                                            *)

Deref(m, c) == IF c[1] = 0 THEN m.item[c[2]].nextCell ELSE m.data[c[1]][c[2]]
Assign(m, c, i) ==
  IF c[1] = 0 THEN [m EXCEPT !.item[c[2]].nextCell = i] ELSE [m EXCEPT !.data[c[1]][c[2]] = i]
SetCell(m, i, c) == IF i = Nil THEN m ELSE [m EXCEPT !.item[i].cell = c]

\* The array is allocated with the first insertion.
AllocateData(m, b) ==
  LET d == CHOOSE d \in 1 .. 2 : \A o \in Boxes : m.box[o].data # d
  IN  IF m.box[b].data # 0 THEN m ELSE [m EXCEPT !.box[b].data = d]

\* The item becomes the first of its chain.
Enchain(m, b, i) ==
  LET cell == <<m.box[b].data, Hash(m.item[i].key)>>
      old == Deref(m, cell)
  IN  Assign(SetCell([m EXCEPT !.item[i].cell = cell, !.item[i].nextCell = old], old, <<0, i>>),
             cell, i)

\* remove: the item leaves its chain.
Unchain(m, i) ==
  LET next == m.item[i].nextCell
  IN  SetCell(Assign(m, m.item[i].cell, next), next, m.item[i].cell)

RECURSIVE FindInChain(_, _, _, _)
FindInChain(m, b, i, key) ==
  IF i = Nil THEN End(b)
  ELSE IF m.item[i].key = key THEN i
  ELSE FindInChain(m, b, m.item[i].nextCell, key)

FindHash(m, b, key) ==
  IF m.box[b].data = 0 THEN End(b)
  ELSE FindInChain(m, b, m.data[m.box[b].data][Hash(key)], key)

-----------------------------------------------------------------------------
(* Whole containers.                                                       *)

\* clear(): every item goes to the free list, first to last; a hash container resets the
\* cell of each.
ClearAll(m, b) ==
  LET giveBack(u, i) ==
        LET w == IF u.item[i].cell = NoCell THEN u ELSE Assign(u, u.item[i].cell, Nil)
        IN  [w EXCEPT !.item[i] = [Blank EXCEPT !.prev = w.box[b].free], !.box[b].free = i]
  IN  [FoldLeft(giveBack, m, Visited(m, b))
         EXCEPT !.box[b].begin = End(b), !.item[End(b)].prev = Nil, !.box[b].size = 0]

\* swap(other): all members change places, only the end items stay where they are.
SwapAll(m, b, o) ==
  LET moved(u, to, from) ==
        LET last == m.item[End(from)].prev
            w == [u EXCEPT !.box[to] = m.box[from], !.item[End(to)].prev = last]
        IN  IF last = Nil THEN [w EXCEPT !.box[to].begin = End(to)]
            ELSE [w EXCEPT !.item[last].next = End(to)]
  IN  moved(moved(m, b, o), o, b)

-----------------------------------------------------------------------------
(* List::sort, on the values in the order of the items.                    *)

Exchange(v, i, j) == [v EXCEPT ![i] = v[j], ![j] = v[i]]

\* The loop over ptr2 from n to the right end.
RECURSIVE Partition(_, _, _, _, _, _)
Partition(v, left, right, n, ptr0, ptr1) ==
  IF n > right THEN [v |-> v, ptr0 |-> ptr0, ptr1 |-> ptr1]
  ELSE IF v[n] < v[left] THEN Partition(Exchange(v, ptr1 + 1, n), left, right, n + 1, ptr1, ptr1 + 1)
  ELSE Partition(v, left, right, n + 1, ptr0, ptr1)

RECURSIVE QuickSort(_, _, _)
QuickSort(v, left, right) ==
  LET p == Partition(v, left, right, left + 1, left, left)
      split == Exchange(p.v, left, p.ptr1)
      from == IF p.ptr1 # right THEN p.ptr1 + 1 ELSE p.ptr1
      lower == IF left # p.ptr0 THEN QuickSort(split, left, p.ptr0) ELSE split
  IN  IF from # right THEN QuickSort(lower, from, right) ELSE lower
=============================================================================
