------------------------------ MODULE AvlTree -------------------------------
(***************************************************************************)
(* The tree in src/include/nstd/Map.hpp and MultiMap.hpp: an AVL tree      *)
(* whose items are also linked in order, begin() first, endItem last.  The *)
(* two classes have the same code; they differ in where an equal key goes, *)
(* which the parameter `multi' tells.                                      *)
(*                                                                         *)
(* A tree is a record: the key, parent, height, slope, next and prev of    *)
(* each item, and `cell', the places that hold a pointer to an item (the   *)
(* root, and the left and the right of each item).  Values are carried by  *)
(* the items and nothing depends on them.  Items come from and go back to  *)
(* a free list; which one is taken does not matter, so the caller names    *)
(* the item.                                                               *)
(***************************************************************************)
EXTENDS Integers, Sequences, TLC

Nil == 0             \* the null pointer; items are positive numbers
EndItem == -1        \* &endItem
Root == <<0, "root">>

Sides == {"left", "right"}
Other(side) == IF side = "left" THEN "right" ELSE "left"

NewTree(Items) ==
  [key    |-> [i \in Items |-> 0],
   parent |-> [i \in Items |-> Nil],
   height |-> [i \in Items |-> 0],
   slope  |-> [i \in Items |-> 0],
   next   |-> [i \in Items |-> Nil],
   prev   |-> [i \in Items \cup {EndItem} |-> Nil],
   cell   |-> [c \in {Root} \cup (Items \X Sides) |-> Nil],
   begin  |-> EndItem,
   size   |-> 0]

Child(t, i, side) == t.cell[<<i, side>>]
HeightOf(t, i) == IF i = Nil THEN 0 ELSE t.height[i]

\* updateHeightAndSlope.
Update(t, i) ==
  LET l == HeightOf(t, Child(t, i, "left"))
      r == HeightOf(t, Child(t, i, "right"))
  IN  [t EXCEPT !.slope[i] = l - r, !.height[i] = (IF l > r THEN l ELSE r) + 1]

\* The place that holds the pointer to an item.
CellOf(t, i) ==
  LET p == t.parent[i]
  IN  IF p = Nil THEN Root ELSE IF Child(t, p, "left") = i THEN <<p, "left">> ELSE <<p, "right">>

\* x's parent becomes p, unless x is null.
Adopt(t, x, p) == IF x = Nil THEN t ELSE [t EXCEPT !.parent[x] = p]

\* rotr (up = "left") and, its mirror image, rotl (up = "right"): result takes the place of
\* top, which takes tmp over.
Turn(t, cell, up, top, result, tmp) ==
  LET u == Adopt([t EXCEPT !.parent[result] = t.parent[top], !.parent[top] = result,
                           !.cell[<<result, Other(up)>>] = top, !.cell[<<top, up>>] = tmp,
                           !.cell[cell] = result], tmp, top)
  IN  Update(Update(u, top), result)

Rotate(t, cell, up) ==
  LET top == t.cell[cell]
      result == Child(t, top, up)
  IN  Turn(t, cell, up, top, result, Child(t, result, Other(up)))

\* shiftr and shiftl: a double rotation if the child leans the other way.
Shift(t, cell, up) ==
  LET child == Child(t, t.cell[cell], up)
      lean == IF up = "left" THEN -1 ELSE 1
      u == IF t.slope[child] = lean THEN Rotate(t, <<t.cell[cell], up>>, Other(up)) ELSE t
  IN  Rotate(u, cell, up)

\* A tree, and the item at a place of it.
With(t, cell) == [tree |-> t, top |-> t.cell[cell]]

\* rebal: the tree, and the item that is at the place of i afterwards.
Rebal(t, i) ==
  LET cell == CellOf(t, i)
  IN  With(IF t.slope[i] > 1 THEN Shift(t, cell, "left")
           ELSE IF t.slope[i] < -1 THEN Shift(t, cell, "right")
           ELSE t, cell)

UpdateAndRebal(t, i) == Rebal(Update(t, i), i)

\* The loops that go up from an item until a height has not changed.
RECURSIVE RebalUpwards(_, _)
GoUp(u) == RebalUpwards(u.tree, u.tree.parent[u.top])
GoUpIfChanged(u, oldHeight) == IF u.tree.height[u.top] = oldHeight THEN u.tree ELSE GoUp(u)
RebalUpwards(t, i) == IF i = Nil THEN t ELSE GoUpIfChanged(UpdateAndRebal(t, i), t.height[i])

\* The way down in insert(cell, parent, ...): the cell where the key is or belongs.
RECURSIVE Descend(_, _, _, _)
Descend(t, cell, key, multi) ==
  LET pos == t.cell[cell]
  IN  IF pos = Nil \/ (~multi /\ t.key[pos] = key) THEN cell
      ELSE Descend(t, <<pos, IF key < t.key[pos] THEN "left" ELSE "right">>, key, multi)

\* insert(cell, parent, key, value): the new item is linked into the list before or after
\* its parent.
InsertThere(t, cell, item, key) ==
  LET parent == cell[1]
      pos == IF parent = Nil THEN EndItem
             ELSE IF cell[2] = "right" THEN t.next[parent] ELSE parent
      before == t.prev[pos]
      u == [t EXCEPT !.key[item] = key, !.parent[item] = parent, !.height[item] = 1,
                     !.slope[item] = 0, !.cell[cell] = item, !.size = @ + 1,
                     !.prev[item] = before, !.next[item] = pos, !.prev[pos] = item]
      w == IF before = Nil THEN [u EXCEPT !.begin = item] ELSE [u EXCEPT !.next[before] = item]
  IN  IF t.cell[cell] # Nil THEN t ELSE RebalUpwards(w, parent)

InsertAtCell(t, from, item, key, multi) == InsertThere(t, Descend(t, from, key, multi), item, key)

Insert(t, item, key, multi) == InsertAtCell(t, Root, item, key, multi)

\* insert(position, key, value): the search starts at the hint if the key belongs there.
InsertHint(t, hint, item, key, multi) ==
  LET prev == t.prev[hint]
      fitsAfter(i) == IF multi THEN key >= t.key[i] ELSE key > t.key[i]
      fitsBefore(i) == IF multi THEN key <= t.key[i] ELSE key < t.key[i]
      start == IF hint = EndItem
               THEN IF prev # Nil /\ key > t.key[prev] THEN <<prev, "right">> ELSE Root
               ELSE IF key < t.key[hint]
               THEN IF prev = Nil \/ fitsAfter(prev) THEN <<hint, "left">> ELSE Root
               ELSE IF t.next[hint] = EndItem \/ fitsBefore(t.next[hint])
                    THEN <<hint, "right">> ELSE Root
  IN  IF ~multi /\ hint # EndItem /\ t.key[hint] = key THEN t
      ELSE InsertAtCell(t, start, item, key, multi)

\* find: the first item with the key on the way down, or end.
RECURSIVE FindFrom(_, _, _)
FindFrom(t, i, key) ==
  IF i = Nil THEN EndItem
  ELSE IF key = t.key[i] THEN i
  ELSE FindFrom(t, Child(t, i, IF key > t.key[i] THEN "right" ELSE "left"), key)

Find(t, key) == FindFrom(t, t.cell[Root], key)

RECURSIVE RebalToCell(_, _, _, _)

\* Mutant: the item that took the place of the removed one keeps its old height and slope
\* when a height below it has not changed.
GoToCellStops(u, oldHeight, cell, origParent) ==
  IF u.tree.height[u.top] = oldHeight THEN u.tree
  ELSE IF u.tree.parent[u.top] = origParent THEN GoUp(u)
  ELSE RebalToCell(u.tree, u.tree.parent[u.top], cell, origParent)

\* The loop rebalParent of remove: from the parent of the item that has moved up to the
\* place of the removed item.  When a height has not changed it goes to that place at once.
GoToCell(u, oldHeight, cell, origParent) ==
  IF u.tree.height[u.top] = oldHeight THEN GoUp(UpdateAndRebal(u.tree, u.tree.cell[cell]))
  ELSE IF u.tree.parent[u.top] = origParent THEN GoUp(u)
  ELSE RebalToCell(u.tree, u.tree.parent[u.top], cell, origParent)

RebalToCell(t, i, cell, origParent) == GoToCell(UpdateAndRebal(t, i), t.height[i], cell, origParent)

\* remove, the tree: with two children the neighbour from the higher side takes the place.
Unhook(t, i) ==
  LET parent == t.parent[i]
      cell == CellOf(t, i)
      left == Child(t, i, "left")
      right == Child(t, i, "right")
      side == IF t.height[left] < t.height[right] THEN "right" ELSE "left"
      x == IF side = "right" THEN t.next[i] ELSE t.prev[i]
      xParent == t.parent[x]
      far == Child(t, i, Other(side))
      near == Child(t, i, side)
      rest == Child(t, x, side)
      placed == [t EXCEPT !.cell[cell] = x, !.parent[x] = parent,
                          !.cell[<<x, Other(side)>>] = far, !.parent[far] = x]
      unlinked == Adopt([placed EXCEPT !.cell[<<xParent, Other(side)>>] = rest,
                                       !.cell[<<x, side>>] = near, !.parent[near] = x],
                        rest, xParent)
  IN  IF left = Nil \/ right = Nil
      THEN LET only == IF left = Nil THEN right ELSE left
           IN  RebalUpwards(Adopt([t EXCEPT !.cell[cell] = only], only, parent), parent)
      ELSE IF xParent = i THEN RebalToCell(placed, x, cell, parent)
      ELSE RebalToCell(unlinked, xParent, cell, parent)

\* remove, the list; the freed item keeps no state.
Unlist(t, i, next, prev) ==
  LET u == IF prev = Nil THEN [t EXCEPT !.begin = next, !.prev[next] = Nil]
           ELSE [t EXCEPT !.next[prev] = next, !.prev[next] = prev]
  IN  [u EXCEPT !.size = @ - 1, !.key[i] = 0, !.parent[i] = Nil, !.height[i] = 0,
                !.slope[i] = 0, !.next[i] = Nil, !.prev[i] = Nil,
                !.cell[<<i, "left">>] = Nil, !.cell[<<i, "right">>] = Nil]

RemoveItem(t, i) == Unlist(Unhook(t, i), i, t.next[i], t.prev[i])

\* The items from one on, as an iterator visits them.
RECURSIVE ListFrom(_, _)
ListFrom(t, i) == IF i = EndItem THEN <<>> ELSE <<i>> \o ListFrom(t, t.next[i])

List(t) == ListFrom(t, t.begin)

-----------------------------------------------------------------------------
\* The items of a subtree in order.
RECURSIVE InOrder(_, _)
InOrder(t, i) == IF i = Nil THEN <<>>
                 ELSE InOrder(t, Child(t, i, "left")) \o <<i>> \o InOrder(t, Child(t, i, "right"))

\* What the commented out checkTree() of Map.hpp asserts of an item below its parent.
RECURSIVE CheckTree(_, _, _)
CheckTree(t, i, parent) ==
  i # Nil =>
    LET l == Child(t, i, "left")
        r == Child(t, i, "right")
        Max2(a, b) == IF a > b THEN a ELSE b
    IN  /\ t.parent[i] = parent
        /\ CheckTree(t, l, i)
        /\ CheckTree(t, r, i)
        /\ t.height[i] = Max2(HeightOf(t, l), HeightOf(t, r)) + 1
        /\ t.slope[i] = HeightOf(t, l) - HeightOf(t, r)
        /\ t.slope[i] \in -1 .. 1

\* The tree is balanced, and the list visits its items in order, both ways.
WellFormed(t) ==
  LET list == List(t)
      at(n) == IF n = 0 THEN Nil ELSE list[n]
  IN  /\ CheckTree(t, t.cell[Root], Nil)
      /\ list = InOrder(t, t.cell[Root])
      /\ t.size = Len(list)
      /\ \A n \in 1 .. Len(list) : t.prev[list[n]] = at(n - 1)
      /\ t.prev[EndItem] = at(Len(list))
=============================================================================
