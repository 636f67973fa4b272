----------------------------- MODULE SharedData -----------------------------
(***************************************************************************)
(* The reference counted data of src/include/nstd: String, Variant and     *)
(* RefCount::Ptr. Threads use handles of their own whose data they share:  *)
(* at the start every thread has copies that were made before it was       *)
(* started. A call is a sequence of steps, and the steps of different      *)
(* threads interleave.                                                     *)
(*                                                                         *)
(* A Variant block holds a String, or a map, a list or an array with at    *)
(* most one element, again a Variant. The characters of a string are a     *)
(* number below Sizes, a scalar Variant is one too; 0 is the empty string, *)
(* the null Variant, and the content of an empty container.                *)
(*                                                                         *)
(* Left out, see the README: Ptr::swap(), Variant::operator= of a          *)
(* container that is part of the Variant itself, and Xml::Variant.         *)
(***************************************************************************)
EXTENDS Naturals, Sequences, FiniteSets, FiniteSetsExt

CONSTANTS Threads,   \* 1, 2, ...
          Sizes,
          PoolSize,  \* bound: the blocks of a thread that are allocated at a time
          MaxCalls   \* bound: the calls of all threads together

ASSUME DataAssumption == /\ Threads \subseteq Nat \ {0} /\ Threads # {} /\ IsFiniteSet(Threads)
                         /\ Sizes \in Nat /\ Sizes >= 2
                         /\ PoolSize \in Nat /\ MaxCalls \in Nat

VARIABLES counted,  \* what is counted here: "Value" or "Ptr"
          heap,     \* the blocks that are allocated
          handle,   \* the data every handle refers to
          todo,     \* the steps every thread has still to take
          value,    \* what every handle must hold
          calls     \* the number of calls every thread has made

dataVars == <<counted, heap, handle, todo, value, calls>>

Numbers == 0 .. (Sizes - 1)
Grown(x) == (x + 1) % Sizes

\* A block is named by the thread that allocates it; the ones of the start by 0.
NoBlock == <<0, 0>>

\* Data: a block, or a value in the handle itself (ref is 0 there).
InBlock(b) == [at |-> b, val |-> 0]
Inline(x) == [at |-> NoBlock, val |-> x]
Null == Inline(0)
Shares(d) == d.at # NoBlock

Live(b) == b \in DOMAIN heap
Str(x) == [kind |-> "chars", ref |-> 1, val |-> x, inner |-> Null]
Var(type, d) == [kind |-> type, ref |-> 1, val |-> 0, inner |-> d]
Object == [kind |-> "object", ref |-> 0, val |-> 0, inner |-> Null]

Names == IF counted = "Ptr" THEN {"p", "q"} ELSE {"s", "v", "w"}
Handles == Threads \X Names
Own(t) == {t} \X Names

\* The blocks a thread can allocate, and the k-th of them.
Free(t) == {i \in 1 .. PoolSize : ~Live(<<t, i>>)}
Fresh(t, k) == <<t, CHOOSE i \in Free(t) : Cardinality({j \in Free(t) : j < i}) = k - 1>>

-----------------------------------------------------------------------------
(* The steps a call consists of.                                           *)

\* A place that holds data: a handle, or the content of a Variant block.
Here(h) == [handle |-> h, block |-> NoBlock]
Within(b) == [handle |-> <<0, "">>, block |-> b]
Data(place) == IF place.block = NoBlock THEN handle[place.handle] ELSE heap[place.block].inner

\* What the data is or has in it, if that is not characters.
Inside(d) == IF Shares(d) /\ heap[d.at].kind # "chars" THEN heap[d.at].inner ELSE d

\* What is found at the end of the data, at most two blocks further: the characters, or a scalar.
Text(d) == LET e == Inside(Inside(d)) IN IF Shares(e) THEN heap[e.at].val ELSE e.val

\* The type of a Variant with data d.
TypeOf(d) == IF Shares(d) THEN heap[d.at].kind ELSE "scalar"

Inc(b) == <<[op |-> "inc", block |-> b]>>
Hold(d) == IF Shares(d) THEN Inc(d.at) ELSE <<>>
New(b, block) == <<[op |-> "new", block |-> b, data |-> block]>>
Put(b, x) == <<[op |-> "put", block |-> b, data |-> x]>>
Delete(b) == <<[op |-> "delete", block |-> b]>>
Set(place, d) == <<[op |-> "set", place |-> place, data |-> d]>>
Edit(place) == <<[op |-> "edit", place |-> place]>>

\* if(data->ref && Atomic::decrement(data->ref) == 0) delete data
Release(d) == IF Shares(d) THEN <<[op |-> "dec", block |-> d.at]>> ELSE <<>>

\* Atomic::decrement; the thread that takes the last reference destroys what is in the block
\* and deletes it.
Dec(t, b) ==
  /\ heap' = [heap EXCEPT ![b].ref = @ - 1]
  /\ todo' = [todo EXCEPT ![t] =
       (IF heap[b].ref = 1 THEN Release(heap[b].inner) \o Delete(b) ELSE <<>>)
         \o Tail(@)]
  /\ UNCHANGED handle

\* Mutant: the count of the string's data is not looked at before it is written.
detachShared(place, old, n, fits) ==
  IF Shares(old) /\ fits THEN Put(old.at, Grown(Text(old)))
  ELSE New(n, Str(Text(old))) \o Release(old) \o Set(place, InBlock(n)) \o Put(n, Grown(Text(old)))

\* String::detach(), with the write it is called for: in place, if there is no other reference
\* to the data and it fits into the capacity, or in a copy.
detach(place, old, n, fits) ==
  IF Shares(old) /\ heap[old.at].ref = 1 /\ fits THEN Put(old.at, Grown(Text(old)))
  ELSE New(n, Str(Text(old))) \o Release(old) \o Set(place, InBlock(n)) \o Put(n, Grown(Text(old)))

Allocate(b, block) == heap' = [c \in DOMAIN heap \cup {b} |-> IF c = b THEN block ELSE heap[c]]

Rest(t) == todo' = [todo EXCEPT ![t] = Tail(@)]

Run(t) ==
  /\ todo[t] # <<>>
  /\ LET s == Head(todo[t])
     IN  \/ s.op = "inc" /\ heap' = [heap EXCEPT ![s.block].ref = @ + 1] /\ Rest(t) /\ UNCHANGED handle
         \/ s.op = "new" /\ Allocate(s.block, s.data) /\ Rest(t) /\ UNCHANGED handle
         \/ s.op = "put" /\ heap' = [heap EXCEPT ![s.block].val = s.data] /\ Rest(t) /\ UNCHANGED handle
         \/ s.op = "dec" /\ Dec(t, s.block)
         \/ s.op = "delete" /\ heap' = [b \in DOMAIN heap \ {s.block} |-> heap[b]] /\ Rest(t) /\ UNCHANGED handle
         \/ /\ s.op = "set"
            /\ IF s.place.block = NoBlock
               THEN handle' = [handle EXCEPT ![s.place.handle] = s.data] /\ UNCHANGED heap
               ELSE heap' = [heap EXCEPT ![s.place.block].inner = s.data] /\ UNCHANGED handle
            /\ Rest(t)
         \/ /\ s.op = "edit" /\ Free(t) # {}
            /\ \E fits \in BOOLEAN :
                 todo' = [todo EXCEPT ![t] = detach(s.place, Data(s.place), Fresh(t, 1), fits) \o Tail(@)]
            /\ UNCHANGED <<heap, handle>>
  /\ UNCHANGED <<counted, value, calls>>

\* Thread t calls something that consists of steps and leaves x in handle h.
Call(t, steps, h, x) ==
  /\ todo' = [todo EXCEPT ![t] = steps]
  /\ value' = [value EXCEPT ![h] = x]
  /\ calls' = [calls EXCEPT ![t] = @ + 1]
  /\ UNCHANGED <<counted, heap, handle>>

-----------------------------------------------------------------------------
(* String                                                                  *)

\* The copy constructor: what it does, and the data of the copy.
CopyString(d, n) ==
  IF Shares(d) THEN [steps |-> Inc(d.at), data |-> d]
  ELSE IF d = Null THEN [steps |-> <<>>, data |-> d]
  ELSE [steps |-> New(n, Str(d.val)), data |-> InBlock(n)]

\* Mutant: the old data is released before the new is held, which may be the same.
AssignReleasesFirst(place, old, d, n) ==
  IF Shares(d) THEN Release(old) \o Inc(d.at) \o Set(place, d)
  ELSE Release(old) \o New(n, Str(d.val)) \o Set(place, InBlock(n))

\* operator=, of the String at a place.
Assign(place, old, d, n) ==
  IF Shares(d) THEN Inc(d.at) \o Release(old) \o Set(place, d)
  ELSE Release(old) \o New(n, Str(d.val)) \o Set(place, InBlock(n))

\* What a String must hold, and a Variant.
String(x) == <<"string", x>>
Scalar(x) == <<"scalar", x>>

\* append(), replace(), resize(), reserve(), operator char*: whatever detaches.
String_append(t, s) == Call(t, Edit(Here(s)), s, String(Grown(value[s][2])))

\* prepend() copies the string first: its data has a second reference, and detach() never
\* writes in place. The copy ends with the call.
String_prepend(t, s) ==
  LET copy == CopyString(handle[s], Fresh(t, 1))
  IN  Call(t, copy.steps \o New(Fresh(t, 2), Str(0)) \o Release(handle[s]) \o Set(Here(s), InBlock(Fresh(t, 2)))
                \o Put(Fresh(t, 2), Grown(value[s][2])) \o Release(copy.data),
           s, String(Grown(value[s][2])))

String_clear(t, s) ==
  LET d == handle[s]
  IN  Call(t, IF Shares(d) /\ heap[d.at].ref = 1 THEN Put(d.at, 0) ELSE Release(d) \o Set(Here(s), Null), s, String(0))

\* attach() and the constructor from a literal; the destructor leaves nothing.
String_attach(t, s, x) == Call(t, Release(handle[s]) \o Set(Here(s), Inline(x)), s, String(x))

\* operator=, of the string itself, of a literal and of what Variant::toString() const returns:
\* a temporary, which ends with the call.
String_assign(t, s, d) == Call(t, Assign(Here(s), handle[s], d, Fresh(t, 1)), s, String(Text(d)))

\* toString() const: the data of the String it returns, and what that must hold.
StringOf(d) == IF TypeOf(d) = "string" THEN heap[d.at].inner ELSE IF Shares(d) THEN Null ELSE d
AsString(x) == String(IF x[1] \in {"string", "scalar"} THEN x[2] ELSE 0)

String_assignVariant(t, s, v) ==
  LET tmp == CopyString(StringOf(handle[v]), Fresh(t, 1))
  IN  Call(t, tmp.steps \o Assign(Here(s), handle[s], tmp.data, Fresh(t, 2)) \o Release(tmp.data),
           s, AsString(value[v]))

-----------------------------------------------------------------------------
(* Variant                                                                 *)

\* The data is of the type and not shared: it can be changed where it is.
Unshared(d, type) == TypeOf(d) = type /\ heap[d.at].ref <= 1

\* operator=(const Variant&).
AssignVariant(v, old, d) == Hold(d) \o Release(old) \o Set(Here(v), d)

Variant_assign(t, v, w) ==
  Call(t, IF v = w THEN <<>> ELSE AssignVariant(v, handle[v], handle[w]), v, value[w])

\* operator=(int) and the other scalars; clear() and the destructor.
Variant_assignScalar(t, v, x) == Call(t, Release(handle[v]) \o Set(Here(v), Inline(x)), v, Scalar(x))

\* operator=(const String&): into the string of the block, or a new block.
Variant_assignString(t, v, s) ==
  LET d == handle[v]
      n == Fresh(t, 1)
      copy == CopyString(handle[s], Fresh(t, 2))
  IN  Call(t, IF Unshared(d, "string") THEN Assign(Within(d.at), heap[d.at].inner, handle[s], n)
              ELSE Release(d) \o copy.steps \o New(n, Var("string", copy.data)) \o Set(Here(v), InBlock(n)),
           v, value[s])

\* toString(): a reference to the String, in a block of its own; the caller changes it.
Variant_toString(t, v) ==
  LET d == handle[v]
      n == Fresh(t, 1)
      copy == CopyString(StringOf(d), Fresh(t, 2))
  IN  Call(t, IF Unshared(d, "string") THEN Edit(Within(d.at))
              ELSE copy.steps \o New(n, Var("string", copy.data)) \o Release(d)
                     \o Set(Here(v), InBlock(n)) \o Edit(Within(n)),
           v, String(Grown(AsString(value[v])[2])))

\* A reference to the container, in a block of its own: with copies of the elements if the
\* Variant is of the type, or empty. The caller puts x in place of what is in it.
ToContainer(t, v, type, x) ==
  LET d == handle[v]
      n == Fresh(t, 1)
      element == IF TypeOf(d) = type THEN heap[d.at].inner ELSE Null
      Replace(b) == Release(element) \o Set(Within(b), Inline(x))
  IN  Call(t, IF Unshared(d, type) THEN Replace(d.at)
              ELSE Hold(element) \o New(n, Var(type, element)) \o Release(d) \o Set(Here(v), InBlock(n)) \o Replace(n),
           v, <<type, x>>)

Variant_toMap(t, v, x) == ToContainer(t, v, "map", x)
Variant_toList(t, v, x) == ToContainer(t, v, "list", x)
Variant_toArray(t, v, x) == ToContainer(t, v, "array", x)

\* operator= of a container of the caller with one Variant, a string, in it.
AssignContainer(t, v, type, s) ==
  LET d == handle[v]
      e == Fresh(t, 1)
      n == Fresh(t, 2)
      copy == CopyString(handle[s], Fresh(t, 3))
  IN  Call(t, copy.steps \o New(e, Var("string", copy.data))
                \o (IF Unshared(d, type) THEN Release(heap[d.at].inner) \o Inc(e) \o Set(Within(d.at), InBlock(e))
                    ELSE Release(d) \o Inc(e) \o New(n, Var(type, InBlock(e))) \o Set(Here(v), InBlock(n)))
                \o Release(InBlock(e)),
           v, <<type, value[s][2]>>)

Variant_assignMap(t, v, s) == AssignContainer(t, v, "map", s)
Variant_assignList(t, v, s) == AssignContainer(t, v, "list", s)
Variant_assignArray(t, v, s) == AssignContainer(t, v, "array", s)

\* swap() by way of a third Variant.
Variant_swap(t, v, w) ==
  LET tmp == handle[w]
  IN  /\ todo' = [todo EXCEPT ![t] =
                    Hold(tmp) \o (IF v = w THEN <<>> ELSE AssignVariant(w, handle[w], handle[v]))
                      \o AssignVariant(v, handle[v], tmp) \o Release(tmp)]
      /\ value' = [value EXCEPT ![v] = value[w], ![w] = value[v]]
      /\ calls' = [calls EXCEPT ![t] = @ + 1]
      /\ UNCHANGED <<counted, heap, handle>>

-----------------------------------------------------------------------------
(* RefCount::Ptr                                                           *)

\* operator=(const Ptr&), also of null; the copy constructor and the destructor alike.
Ptr_assign(t, p, d) ==
  Call(t, Hold(d) \o Release(handle[p]) \o Set(Here(p), d), p, String(0))

\* operator=(C*) with a new object.
Ptr_assignNew(t, p) ==
  LET b == Fresh(t, 1)
  IN  Call(t, New(b, Object) \o Inc(b) \o Release(handle[p]) \o Set(Here(p), InBlock(b)), p, String(0))

-----------------------------------------------------------------------------
\* Every thread has copies of one string, of a Variant with that string, of one pointer.
DataInit ==
  /\ counted \in {"Value", "Ptr"}
  /\ LET n == Cardinality(Threads)
         first == IF counted = "Ptr" THEN [Object EXCEPT !.ref = 2 * n] ELSE [Str(1) EXCEPT !.ref = n + 1]
         second == [Var("string", InBlock(<<0, 1>>)) EXCEPT !.ref = 2 * n]
     IN  heap = IF counted = "Ptr" THEN [b \in {<<0, 1>>} |-> first]
                ELSE [b \in {<<0, 1>>, <<0, 2>>} |-> IF b = <<0, 1>> THEN first ELSE second]
  /\ handle = [h \in Handles |-> IF h[2] \in {"s", "p", "q"} THEN InBlock(<<0, 1>>) ELSE InBlock(<<0, 2>>)]
  /\ todo = [t \in Threads |-> <<>>]
  /\ value = [h \in Handles |-> String(IF counted = "Ptr" THEN 0 ELSE 1)]
  /\ calls = [t \in Threads |-> 0]

\* The threads are alike: without loss of generality, the first makes the most calls, the second
\* no more than half of them, and so on.
Ready(t) == /\ todo[t] = <<>>
            /\ Cardinality(Free(t)) >= 3
            /\ calls[t] < MaxCalls \div t
            /\ MapThenSumSet(LAMBDA u : calls[u], Threads) < MaxCalls

UseString(t) ==
  LET s == <<t, "s">>
  IN  \/ String_append(t, s) \/ String_prepend(t, s) \/ String_clear(t, s)
      \/ \E x \in Numbers : String_attach(t, s, x) \/ String_assign(t, s, Inline(x))
      \/ String_assign(t, s, handle[s])
      \/ String_assignVariant(t, s, <<t, "v">>)

UseVariant(t) ==
  LET s == <<t, "s">>
      v == <<t, "v">>
      w == <<t, "w">>
  IN  \/ \E x, y \in {v, w} : Variant_assign(t, x, y)
      \/ \E x \in {v, w} : Variant_swap(t, v, x)
      \/ \E x \in {v, w} : \/ \E n \in Numbers : Variant_assignScalar(t, x, n)
                           \/ Variant_assignString(t, x, s) \/ Variant_toString(t, x)
      \/ \E n \in Numbers : Variant_toMap(t, v, n)
      \/ Variant_toList(t, v, 0) \/ Variant_toArray(t, v, 0)
      \/ Variant_assignMap(t, v, s) \/ Variant_assignList(t, v, s) \/ Variant_assignArray(t, v, s)

UsePtr(t) ==
  \E p \in Own(t) : \/ \E q \in Own(t) : Ptr_assign(t, p, handle[q])
                     \/ Ptr_assign(t, p, Null)
                     \/ Ptr_assignNew(t, p)

DataNext == \E t \in Threads : \/ Run(t)
                               \/ Ready(t) /\ counted = "Value" /\ (UseString(t) \/ UseVariant(t))
                               \/ Ready(t) /\ counted = "Ptr" /\ UsePtr(t)

DataSpec == DataInit /\ [][DataNext]_dataVars

-----------------------------------------------------------------------------
Resting(t) == todo[t] = <<>>

\* No thread ever touches data that was deleted, whatever the others release at the same time,
\* and between calls every count is the number of references there are: nothing is deleted
\* twice, and nothing that is not referred to is kept (String.hpp 78-82, 193-216;
\* Variant.hpp 87-122; RefCount.hpp 34-72).
DataAlive ==
  /\ \A t \in Threads : todo[t] # <<>> =>
       LET s == Head(todo[t])
       IN  /\ s.op \in {"inc", "dec", "put", "delete"} => Live(s.block)
           /\ s.op = "delete" => heap[s.block].ref = 0
           /\ s.op \in {"set", "edit"} /\ s.place.block # NoBlock => Live(s.place.block)
  /\ (\A t \in Threads : Resting(t)) =>
       LET handles == UNION {Own(t) : t \in Threads}
           refs(b) == Cardinality({h \in handles : handle[h] = InBlock(b)})
                        + Cardinality({c \in DOMAIN heap : heap[c].inner = InBlock(b)})
       IN  /\ \A b \in DOMAIN heap : heap[b].ref = refs(b) /\ refs(b) > 0
           /\ \A d \in {handle[h] : h \in handles} \cup {heap[c].inner : c \in DOMAIN heap} :
                Shares(d) => Live(d.at)

\* What a handle holds: a String or a pointer, or a Variant.
Holds(h) == <<IF h[2] \in {"v", "w"} THEN TypeOf(handle[h]) ELSE "string", Text(handle[h])>>

\* What a thread reads through its handles is what it put there: the data is shared until one
\* of those who share it writes, and then only the writer sees it (String.hpp 492-523;
\* Variant.hpp 302-468).
DataIsolated ==
  \A t \in Threads : Resting(t) =>
    \A h \in Own(t) : (Shares(handle[h]) => Live(handle[h].at)) /\ Holds(h) = value[h]
=============================================================================
