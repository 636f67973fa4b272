------------------------------- MODULE Arrays -------------------------------
(***************************************************************************)
(* Array and Buffer of src/include/nstd: two objects of one class under    *)
(* any sequence of its operations, next to the sequences they stand for.   *)
(* Memory is modelled byte by byte (element by element): what an own block *)
(* holds outside the part in use, a fresh block included, is Raw. Memory   *)
(* attached to a Buffer belongs to somebody else, and keeps every byte.    *)
(*                                                                         *)
(* Left out, because the code writes outside its memory there (see the     *)
(* README): attach() to a Buffer that has a capacity, or of nothing;       *)
(* reserve(), resize() and assignments that give an attached Buffer less   *)
(* than it holds; removeBack(0) of an attached Buffer; swap() with a       *)
(* Buffer without memory; append() of an element of the same Array.        *)
(***************************************************************************)
EXTENDS Integers, Sequences, SequencesExt, FiniteSetsExt

CONSTANTS Bytes, MaxSize  \* bound: the elements of both objects together

VARIABLES class, box, contents

vars == <<class, box, contents>>

Boxes == {"a", "b"}
Raw == 0
Zero == 0
Inputs == {<<>>} \cup {<<x>> : x \in Bytes} \cup {s \in Bytes \X Bytes : s[1] < s[2]}

\* A block of n places, and copying a sequence to a place of it (the first is 0).
NewBlock(n) == [i \in 1 .. n |-> Raw]
\* A copy that goes beyond the block makes it longer, which MemoryExact notices.
CopyTo(block, at, s) ==
  [i \in 1 .. Max({Len(block), at + Len(s)}) |->
     IF i \in (at + 1) .. (at + Len(s)) THEN s[i - at] ELSE block[i]]

\* An object: where its memory is ("none", "own" or, of a Buffer, "ext"), the block, the part
\* of it in use, the capacity; of attached memory, what it held then.
Default == [where |-> "none", block |-> <<>>, start |-> 0, end |-> 0, capacity |-> 0, lent |-> <<>>]
Used(x) == SubSeq(x.block, x.start + 1, x.end)
Size(x) == x.end - x.start

\* What is not in use is never read again, but attached memory may be read by its owner.
Forget(x) ==
  IF x.where = "ext" THEN x
  ELSE [x EXCEPT !.block = [i \in 1 .. Len(@) |-> IF i \in (x.start + 1) .. x.end THEN @[i] ELSE Raw]]

Init == /\ class \in {"Array", "Buffer"}
        /\ box = [b \in Boxes |-> Default]
        /\ contents = [b \in Boxes |-> <<>>]

Effect(b, x, s) == /\ \A o \in Boxes \ {b} : Len(s) + Len(contents[o]) <= MaxSize
                   /\ box' = [box EXCEPT ![b] = Forget(x)]
                   /\ contents' = [contents EXCEPT ![b] = s]
                   /\ UNCHANGED class

Swap(b, o) == /\ box' = [box EXCEPT ![b] = box[o], ![o] = box[b]]
              /\ contents' = [contents EXCEPT ![b] = contents[o], ![o] = contents[b]]
              /\ UNCHANGED class

-----------------------------------------------------------------------------
(* Array: start is always 0.                                               *)

\* n | 3
OrThree(n) == 4 * (n \div 4) + 3

\* reserve(): elements are moved to the new block one by one.
ArrayReserve(x, size) ==
  LET capacity == OrThree(IF size > x.capacity THEN size ELSE x.capacity)
  IN  IF size > x.capacity \/ (x.where = "none" /\ size > 0)
      THEN [x EXCEPT !.where = "own", !.capacity = capacity,
                     !.block = CopyTo(NewBlock(capacity), 0, Used(x))]
      ELSE x

\* The elements of s are constructed behind the last one.
Construct(x, s) == [x EXCEPT !.block = CopyTo(@, x.end, s), !.end = @ + Len(s)]

\* Array() and Array(capacity).
Array_new(b, capacity) == Effect(b, [Default EXCEPT !.capacity = capacity], <<>>)

Array_reserve(b, size) == Effect(b, ArrayReserve(box[b], size), contents[b])

\* append(value), append(values, size).
Array_append(b, s) ==
  Effect(b, Construct(ArrayReserve(box[b], Size(box[b]) + Len(s)), s), contents[b] \o s)

\* append(array), which may be the array itself: its elements are read after reserve().
Array_appendArray(b, o) ==
  LET x == ArrayReserve(box[b], Size(box[b]) + Size(box[o]))
      src == IF o = b THEN x ELSE box[o]
  IN  Effect(b, Construct(x, SubSeq(src.block, 1, Size(box[o]))), contents[b] \o contents[o])

Array_resize(b, size, value) ==
  LET old == Size(box[b])
  IN  IF size < old
      THEN Effect(b, [box[b] EXCEPT !.end = size], SubSeq(contents[b], 1, size))
      ELSE LET s == [i \in 1 .. (size - old) |-> value]
           IN  Effect(b, Construct(ArrayReserve(box[b], size), s), contents[b] \o s)

Array_clear(b) == Effect(b, [box[b] EXCEPT !.end = 0], <<>>)

\* The copy constructor and operator= with the other array.
Array_assign(b, o) ==
  Effect(b, Construct(ArrayReserve([box[b] EXCEPT !.end = 0], box[o].capacity), Used(box[o])), contents[o])

\* remove(index) and remove(it): the elements behind are assigned one place to the front.
Array_remove(b, index) ==
  IF index >= Size(box[b]) THEN UNCHANGED vars
  ELSE LET shift(block, i) == [block EXCEPT ![i] = block[i + 1]]
           places == [n \in 1 .. (Size(box[b]) - 1 - index) |-> index + n]
       IN  Effect(b, [box[b] EXCEPT !.block = FoldLeft(shift, @, places), !.end = @ - 1],
                  RemoveAt(contents[b], index + 1))

Array_swap(b, o) == Swap(b, o)

Array_find(x, value) == SelectInSeq(Used(x), LAMBDA y : y = value)

Array == \E b \in Boxes :
  \/ \E n \in 0 .. 1 : Array_new(b, n)
  \/ \E n \in 0 .. MaxSize : Array_reserve(b, n) \/ Array_remove(b, n)
  \/ \E s \in Inputs : Array_append(b, s)
  \/ \E o \in Boxes : Array_appendArray(b, o)
  \/ \E n \in 0 .. MaxSize, x \in Bytes : Array_resize(b, n, x)
  \/ Array_clear(b)
  \/ \E o \in Boxes \ {b} : Array_assign(b, o) \/ Array_swap(b, o)

-----------------------------------------------------------------------------
(* Buffer: a block has one place more than the capacity.                   *)

OwnBlock(capacity, s) ==
  [where |-> "own", block |-> CopyTo(NewBlock(capacity + 1), 0, s), start |-> 0, end |-> Len(s),
   capacity |-> capacity, lent |-> <<>>]

\* *bufferEnd = 0: in the block, whoever owns it. Without memory bufferEnd points to _capacity,
\* which is 0 then.
Terminate(x) == IF x.where = "none" THEN x ELSE [x EXCEPT !.block = CopyTo(@, x.end, <<Zero>>)]

\* Buffer(capacity).
Buffer_new(b, capacity) == Effect(b, Terminate(OwnBlock(capacity, <<>>)), <<>>)

\* Buffer(data, size) and the copy constructor.
Buffer_newFrom(b, s) == Effect(b, Terminate(OwnBlock(Len(s), s)), s)

Buffer_attach(b, s) ==
  /\ box[b].capacity = 0 /\ s # <<>>
  /\ Effect(b, [where |-> "ext", block |-> s, start |-> 0, end |-> Len(s), capacity |-> 0, lent |-> s], s)

\* assign(data, size) and operator=; lines 61-62 leave a Buffer without a block as it is.
BufferAssign(x, s) ==
  IF Len(s) > x.capacity THEN Terminate(OwnBlock(Len(s), s))
  ELSE IF x.where # "own" THEN x
  ELSE Terminate([x EXCEPT !.block = CopyTo(@, 0, s), !.start = 0, !.end = Len(s)])

Buffer_assign(b, s) == /\ box[b].where = "ext" => s # <<>>
                       /\ Effect(b, BufferAssign(box[b], s), s)

\* prepend: in front, if there is room; otherwise what is there moves back, or to a new block.
Buffer_prepend(b, s) ==
  LET x == box[b]
      size == Len(s) + Size(x)
      new == OwnBlock(size, <<>>)
  IN  Effect(b, IF x.where = "own" /\ x.start >= Len(s)
                THEN [x EXCEPT !.start = @ - Len(s), !.block = CopyTo(@, x.start - Len(s), s)]
                ELSE IF x.where = "own" /\ x.capacity >= size
                THEN [x EXCEPT !.block = CopyTo(CopyTo(@, Len(s), Used(x)), 0, s), !.start = 0, !.end = size]
                ELSE [new EXCEPT !.block = CopyTo(CopyTo(@, 0, s), Len(s), Used(x)), !.end = size],
             s \o contents[b])

\* Mutant: the part in use is not moved to the front when it would end behind the block.
BufferResizeInPlace(x, size) ==
  IF size > x.capacity
  THEN Terminate([OwnBlock(size, Used(x)) EXCEPT !.end = size])
  ELSE IF x.where # "own" THEN x
  ELSE Terminate([x EXCEPT !.end = x.start + size])

\* The code makes a new block for attached memory that may be too small for it.
Holds(b, size) == box[b].where = "ext" => size >= Size(box[b]) /\ size > 0

\* resize(): in place, after a move to the front of the block, or in a new block. What comes
\* into use behind the old contents is whatever is there.
BufferResize(x, size) ==
  IF size > x.capacity
  THEN Terminate([OwnBlock(size, Used(x)) EXCEPT !.end = size])
  ELSE IF x.where # "own" THEN x
  ELSE IF x.start + size <= x.capacity THEN Terminate([x EXCEPT !.end = x.start + size])
  ELSE LET moved == Forget([x EXCEPT !.block = CopyTo(@, 0, Used(x)), !.start = 0, !.end = Size(x)])
       IN  Terminate([moved EXCEPT !.end = size])

Buffer_resize(b, size) ==
  /\ Holds(b, size)
  /\ Effect(b, BufferResize(box[b], size),
            [i \in 1 .. size |-> IF i <= Len(contents[b]) THEN contents[b][i] ELSE Raw])

\* append(data, size); append(buffer) may append the buffer to itself.
BufferAppend(x, s) ==
  LET y == BufferResize(x, Size(x) + Len(s))
  IN  Terminate([y EXCEPT !.block = CopyTo(@, y.end - Len(s), s)])

Buffer_append(b, s) == Effect(b, BufferAppend(box[b], s), contents[b] \o s)

Reset(x) == IF x.where = "own" THEN [x EXCEPT !.start = 0, !.end = 0]
            ELSE [x EXCEPT !.where = "none", !.block = <<>>, !.start = 0, !.end = 0, !.lent = <<>>]

Buffer_removeFront(b, n) ==
  LET x == box[b]
  IN  Effect(b, IF x.start + n >= x.end THEN Reset(x) ELSE [x EXCEPT !.start = @ + n],
             SubSeq(contents[b], n + 1, Len(contents[b])))

\* The zero goes into attached memory as well.
Buffer_removeBack(b, n) ==
  LET x == box[b]
  IN  /\ x.where = "ext" => n > 0
      /\ Effect(b, Terminate(IF x.start + n >= x.end THEN Reset(x) ELSE [x EXCEPT !.end = @ - n]),
                SubSeq(contents[b], 1, Len(contents[b]) - n))

Buffer_reserve(b, capacity) ==
  /\ Holds(b, capacity)
  /\ Effect(b, IF capacity <= box[b].capacity THEN box[b]
               ELSE Terminate(OwnBlock(capacity, Used(box[b]))),
            contents[b])

Buffer_clear(b) ==
  LET x == box[b]
  IN  Effect(b, IF x.where = "own" THEN Terminate([x EXCEPT !.start = 0, !.end = 0])
                ELSE [x EXCEPT !.end = x.start],
             <<>>)

Buffer_free(b) == Effect(b, Default, <<>>)

Buffer_swap(b, o) == /\ box[b].where # "none" /\ box[o].where # "none"
                     /\ Swap(b, o)

Buffer == \E b \in Boxes :
  \/ \E n \in 1 .. 2 : Buffer_new(b, n)
  \/ \E s \in Inputs : \/ Buffer_newFrom(b, s) \/ Buffer_attach(b, s) \/ Buffer_assign(b, s)
                       \/ Buffer_prepend(b, s) \/ Buffer_append(b, s)
  \/ \E o \in Boxes : Buffer_append(b, Used(box[o]))
  \/ \E n \in 0 .. MaxSize : Buffer_resize(b, n) \/ Buffer_reserve(b, n)
  \/ \E n \in 0 .. 2 : Buffer_removeFront(b, n) \/ Buffer_removeBack(b, n)
  \/ Buffer_clear(b) \/ Buffer_free(b)
  \/ \E o \in Boxes \ {b} : Buffer_assign(b, Used(box[o])) \/ Buffer_swap(b, o)

-----------------------------------------------------------------------------
Next == \/ class = "Array" /\ Array
        \/ class = "Buffer" /\ Buffer

Spec == Init /\ [][Next]_vars

\* Whatever is moved between blocks and inside a block, an Array and a Buffer hold what was put
\* into them, and the part in use lies inside the block they own: the elements up to the
\* capacity, the terminating zero of a Buffer included. Attached memory is not written, but for
\* the zero that removeBack() puts behind what is left (Array.hpp 97-257, Buffer.hpp 52-241).
MemoryExact ==
  \A b \in Boxes :
    LET x == box[b]
    IN  /\ 0 <= x.start /\ x.start <= x.end
        /\ x.where = "own" =>
             /\ x.end <= x.capacity
             /\ Len(x.block) = IF class = "Buffer" THEN x.capacity + 1 ELSE x.capacity
        /\ x.where = "ext" =>
             /\ Len(x.block) = Len(x.lent) /\ x.end <= Len(x.lent)
             /\ \A i \in DOMAIN x.lent : x.block[i] = x.lent[i] \/ (i > x.end /\ x.block[i] = Zero)
        /\ Used(x) = contents[b]
        /\ \A v \in Bytes : Array_find(x, v) = SelectInSeq(contents[b], LAMBDA y : y = v)
=============================================================================
