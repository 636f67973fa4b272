------------------------------ MODULE Callback ------------------------------
(***************************************************************************)
(* Callback::Emitter and Callback::Listener of src/src/Callback.cpp and    *)
(* src/include/nstd/Callback.hpp: signals and slots in one thread.         *)
(*                                                                         *)
(* emit() calls the connected slots one after the other, and a slot may    *)
(* do anything: connect, disconnect, emit again (the same signal or        *)
(* another), delete listeners, delete emitters, its own ones included.     *)
(* The call stack is therefore part of the state, with one frame (the      *)
(* SignalActivation and the loop variable) for each emit() in progress.    *)
(*                                                                         *)
(* A signal to which nothing was ever connected has no SignalData; it      *)
(* behaves as one with an empty list of slots, which is what stands here.  *)
(***************************************************************************)
EXTENDS Integers, Sequences, FiniteSets, SequencesExt, FiniteSetsExt

CONSTANTS Emitters, Listeners,
          Signals,     \* member function pointers of emitters
          SlotFns,     \* member function pointers of listeners
          MaxSlots,    \* bound: how many slots a signal has at most
          MaxDepth     \* bound: how deep emit() calls are nested

ASSUME CallbackAssumption == MaxSlots \in Nat /\ MaxDepth \in Nat /\ IsFiniteSet(Signals)

VARIABLES
  emitters, listeners,  \* the objects that are not deleted
  slots,       \* SignalData::slots
  activation,  \* SignalData::activation: 0 or the place of a frame in the stack
  dirty,       \* SignalData::dirty
  slotData,    \* Listener::slotData
  stack,       \* the emit() calls in progress, innermost last
  ambiguous    \* history: see Ambiguous

signalVars == <<slots, activation, dirty>>
vars == <<emitters, listeners, signalVars, slotData, stack, ambiguous>>

\* A signal of an emitter: the key of a SignalData.
Keys == Emitters \X Signals
KeysOf(e) == {e} \X Signals

\* The end of a list; list nodes have the numbers 1 .. MaxSlots.
End == 0

Init == /\ emitters = Emitters
        /\ listeners = Listeners
        /\ slots = [k \in Keys |-> <<>>]
        /\ activation = [k \in Keys |-> 0]
        /\ dirty = [k \in Keys |-> FALSE]
        /\ slotData = [l \in Listeners |-> [e \in Emitters |-> <<>>]]
        /\ stack = <<>>
        /\ ambiguous = FALSE

Top == stack[Len(stack)]

\* User code is running: outside every emit(), or in the slot that the innermost
\* emit() has called.
UserCode == stack # <<>> => Top.calling

\* The node behind a node, and a node by its number.
IndexOf(k, id) == SelectInSeq(slots[k], LAMBDA n : n.id = id)
NodeAt(k, id) == slots[k][IndexOf(k, id)]
NextOf(k, id) == LET i == IndexOf(k, id)
                 IN IF i \in 1 .. Len(slots[k]) - 1 THEN slots[k][i + 1].id ELSE End
FirstOf(k) == IF slots[k] = <<>> THEN End ELSE slots[k][1].id
FreeId(k) == Min(1 .. MaxSlots \ {slots[k][i].id : i \in DOMAIN slots[k]})

Matches(n, l, f) == n.receiver = l /\ n.slot = f

-----------------------------------------------------------------------------
(* connect *)

\* Mutant: a slot is connected at once although the signal is being emitted.
NewStateConnected(k) == "connected"

NewState(k) == IF activation[k] = 0 THEN "connected" ELSE "connecting"

Connect(k, l, f) ==
  /\ UserCode
  /\ k[1] \in emitters /\ l \in listeners
  /\ Len(slots[k]) < MaxSlots
  /\ slots' = [slots EXCEPT ![k] = Append(@, [id |-> FreeId(k), receiver |-> l, slot |-> f,
                                              state |-> NewState(k)])]
  /\ dirty' = [dirty EXCEPT ![k] = @ \/ activation[k] # 0]
  /\ slotData' = [slotData EXCEPT ![l][k[1]] = Append(@, [signal |-> k[2], slot |-> f])]
  /\ UNCHANGED <<emitters, listeners, activation, stack, ambiguous>>

-----------------------------------------------------------------------------
(* disconnect and ~Listener *)

\* Mutant: a node is removed although an emit() is iterating over the list.
UnlinkAlways(k, list, l, f) ==
  LET i == SelectInSeq(list, LAMBDA n : Matches(n, l, f))
  IN IF i = 0 THEN list ELSE RemoveAt(list, i)

\* The list of k without the first slot that matches: marked while the signal is
\* being emitted, removed otherwise.
Unlink(k, list, l, f) ==
  LET i == SelectInSeq(list, LAMBDA n : Matches(n, l, f))
  IN CASE i = 0 -> list
       [] i # 0 /\ activation[k] # 0 -> [list EXCEPT ![i].state = "disconnected"]
       [] OTHER -> RemoveAt(list, i)

\* The slot to unlink is in the list of a signal that is being emitted twice.  The
\* first node that matches is taken, and it may be one that is disconnected already.
Ambiguous(k, l, f) ==
  /\ activation[k] # 0
  /\ Cardinality({i \in DOMAIN slots[k] : Matches(slots[k][i], l, f)}) > 1

Present(k, l, f) == \E i \in DOMAIN slots[k] : Matches(slots[k][i], l, f)

\* Mutant: the listener keeps its entry.
DisconnectOneSide(k, l, f) ==
  /\ UserCode
  /\ k[1] \in emitters /\ l \in listeners
  /\ slots' = [slots EXCEPT ![k] = Unlink(k, @, l, f)]
  /\ dirty' = [dirty EXCEPT ![k] = @ \/ (activation[k] # 0 /\ Present(k, l, f))]
  /\ ambiguous' = (ambiguous \/ Ambiguous(k, l, f))
  /\ UNCHANGED <<emitters, listeners, activation, slotData, stack>>

Disconnect(k, l, f) ==
  /\ UserCode
  /\ k[1] \in emitters /\ l \in listeners
  /\ slots' = [slots EXCEPT ![k] = Unlink(k, @, l, f)]
  /\ dirty' = [dirty EXCEPT ![k] = @ \/ (activation[k] # 0 /\ Present(k, l, f))]
  /\ slotData' = [slotData EXCEPT ![l][k[1]] = RemoveFirst(@, [signal |-> k[2], slot |-> f])]
  /\ ambiguous' = (ambiguous \/ Ambiguous(k, l, f))
  /\ UNCHANGED <<emitters, listeners, activation, stack>>

\* The list of k when ~Listener has gone through the entries that l has for the emitter.
Unlinked(k, l) ==
  LET entries == slotData[l][k[1]]
      after[n \in 0 .. Len(entries)] ==
        IF n = 0 THEN slots[k]
        ELSE IF entries[n].signal = k[2] THEN Unlink(k, after[n - 1], l, entries[n].slot)
        ELSE after[n - 1]
  IN after[Len(entries)]

\* l has an entry for slot f of the signal k.
HasEntry(l, k, f) ==
  \E i \in DOMAIN slotData[l][k[1]] : slotData[l][k[1]][i] = [signal |-> k[2], slot |-> f]

\* Mutant: the slots of a signal that is being emitted are left alone.
DeleteListenerIdle(l) ==
  /\ UserCode
  /\ l \in listeners
  /\ listeners' = listeners \ {l}
  /\ slots' = [k \in Keys |-> IF activation[k] # 0 THEN slots[k] ELSE Unlinked(k, l)]
  /\ slotData' = [slotData EXCEPT ![l] = [e \in Emitters |-> <<>>]]
  /\ UNCHANGED <<emitters, activation, dirty, stack, ambiguous>>

DeleteListener(l) ==
  /\ UserCode
  /\ l \in listeners
  /\ listeners' = listeners \ {l}
  /\ slots' = [k \in Keys |-> Unlinked(k, l)]
  /\ dirty' = [k \in Keys |->
                 dirty[k] \/ (activation[k] # 0 /\ \E f \in SlotFns : HasEntry(l, k, f) /\ Present(k, l, f))]
  /\ slotData' = [slotData EXCEPT ![l] = [e \in Emitters |-> <<>>]]
  /\ ambiguous' = (ambiguous \/ \E k \in Keys, f \in SlotFns : HasEntry(l, k, f) /\ Ambiguous(k, l, f))
  /\ UNCHANGED <<emitters, activation, stack>>

-----------------------------------------------------------------------------
(* ~Emitter *)

\* What a listener's entries are when the slots of its own in the list of signal s are taken
\* off them, but for those that are disconnected.
Forget(entries, l, s, list) ==
  LET after[n \in 0 .. Len(list)] ==
        IF n = 0 THEN entries
        ELSE IF list[n].receiver = l /\ list[n].state # "disconnected"
        THEN RemoveFirst(after[n - 1], [signal |-> s, slot |-> list[n].slot])
        ELSE after[n - 1]
  IN after[Len(list)]

\* The same for every signal of e, in the order of the map.
Forgotten(l, e) ==
  LET order == SetToSeq(Signals)
      after[n \in 0 .. Len(order)] ==
        IF n = 0 THEN slotData[l][e]
        ELSE Forget(after[n - 1], l, order[n], slots[<<e, order[n]>>])
  IN after[Len(order)]

DeleteEmitter(e) ==
  /\ UserCode
  /\ e \in emitters
  /\ emitters' = emitters \ {e}
  /\ slotData' = [l \in Listeners |-> [slotData[l] EXCEPT ![e] = Forgotten(l, e)]]
  /\ stack' = [i \in DOMAIN stack |->
                 [stack[i] EXCEPT !.invalidated = @ \/ \E k \in KeysOf(e) : activation[k] = i]]
  /\ slots' = [k \in Keys |-> IF k[1] = e THEN <<>> ELSE slots[k]]
  /\ activation' = [k \in Keys |-> IF k[1] = e THEN 0 ELSE activation[k]]
  /\ dirty' = [k \in Keys |-> k[1] # e /\ dirty[k]]
  /\ UNCHANGED <<listeners, ambiguous>>

-----------------------------------------------------------------------------
(* emit *)

\* SignalActivation::SignalActivation; snapshot and called are history.
Emit(k) ==
  /\ UserCode
  /\ k[1] \in emitters
  /\ Len(stack) < MaxDepth
  /\ stack' = Append(stack,
       [key |-> k, next |-> activation[k], invalidated |-> FALSE, i |-> FirstOf(k),
        calling |-> FALSE, called |-> {},
        snapshot |-> {n \in 1 .. MaxSlots :
                        \E i \in DOMAIN slots[k] :
                          slots[k][i].id = n /\ slots[k][i].state = "connected"}])
  /\ activation' = [activation EXCEPT ![k] = Len(stack) + 1]
  /\ UNCHANGED <<emitters, listeners, slots, dirty, slotData, ambiguous>>

\* i->state == Slot::connected: the slot is called
CallSlot ==
  /\ ~UserCode
  /\ Top.i # End
  /\ NodeAt(Top.key, Top.i).state = "connected"
  /\ stack' = [stack EXCEPT ![Len(stack)].calling = TRUE, ![Len(stack)].called = @ \cup {Top.i}]
  /\ UNCHANGED <<emitters, listeners, signalVars, slotData, ambiguous>>

SkipSlot ==
  /\ ~UserCode
  /\ Top.i # End
  /\ NodeAt(Top.key, Top.i).state # "connected"
  /\ stack' = [stack EXCEPT ![Len(stack)].i = NextOf(Top.key, @)]
  /\ UNCHANGED <<emitters, listeners, signalVars, slotData, ambiguous>>

\* The slot returns and the emitter is still there: ++i
ReturnSlot ==
  /\ stack # <<>> /\ Top.calling /\ ~Top.invalidated
  /\ stack' = [stack EXCEPT ![Len(stack)].calling = FALSE,
                            ![Len(stack)].i = NextOf(Top.key, @)]
  /\ UNCHANGED <<emitters, listeners, signalVars, slotData, ambiguous>>

\* Mutant: the emit() around this one is not told that the emitter is gone.
ReturnInvalidatedQuietly ==
  /\ stack # <<>> /\ Top.calling /\ Top.invalidated
  /\ stack' = Front(stack)
  /\ UNCHANGED <<emitters, listeners, signalVars, slotData, ambiguous>>

\* The slot returns and the emitter is gone: ~SignalActivation, next->invalidated
ReturnInvalidated ==
  /\ stack # <<>> /\ Top.calling /\ Top.invalidated
  /\ stack' = [i \in 1 .. Len(stack) - 1 |->
                 [stack[i] EXCEPT !.invalidated = @ \/ i = Top.next]]
  /\ UNCHANGED <<emitters, listeners, signalVars, slotData, ambiguous>>

\* The list when the outermost emit() of a signal is done.
Settled(list) ==
  LET settled[n \in 0 .. Len(list)] ==
        IF n = 0 THEN <<>>
        ELSE IF list[n].state = "disconnected" THEN settled[n - 1]
        ELSE Append(settled[n - 1], [list[n] EXCEPT !.state = "connected"])
  IN settled[Len(list)]

\* i == end: ~SignalActivation
EmitEnd ==
  /\ ~UserCode
  /\ Top.i = End
  /\ activation' = [activation EXCEPT ![Top.key] = Top.next]
  /\ IF Top.next = 0 /\ dirty[Top.key]
     THEN /\ slots' = [slots EXCEPT ![Top.key] = Settled(@)]
          /\ dirty' = [dirty EXCEPT ![Top.key] = FALSE]
     ELSE UNCHANGED <<slots, dirty>>
  /\ stack' = Front(stack)
  /\ UNCHANGED <<emitters, listeners, slotData, ambiguous>>

-----------------------------------------------------------------------------
Next == \/ \E k \in Keys, l \in Listeners, f \in SlotFns : Connect(k, l, f) \/ Disconnect(k, l, f)
        \/ \E k \in Keys : Emit(k)
        \/ \E l \in Listeners : DeleteListener(l)
        \/ \E e \in Emitters : DeleteEmitter(e)
        \/ CallSlot \/ SkipSlot \/ ReturnSlot \/ ReturnInvalidated \/ EmitEnd

Spec == Init /\ [][Next]_vars

-----------------------------------------------------------------------------
(* Properties *)

\* A slot that is not disconnected belongs to a listener that is not deleted:
\* neither emit() nor ~Emitter uses a dangling receiver, wherever the listener was
\* deleted (Callback.cpp 75-103), as long as no slot was disconnected that was
\* twice in the list of a signal being emitted.
ReceiverAlive ==
  ~ambiguous =>
    \A k \in Keys : \A i \in DOMAIN slots[k] :
      slots[k][i].state # "disconnected" => slots[k][i].receiver \in listeners

Occurrences(seq, Test(_)) == Cardinality({i \in DOMAIN seq : Test(seq[i])})

\* Both ends of a connection agree: a listener has an entry for each slot of its
\* own that is not disconnected, and none for an emitter that is gone, so that
\* ~Listener never touches a deleted emitter.
BothEndsAgree ==
  ~ambiguous =>
    \A l \in listeners, e \in Emitters, s \in Signals, f \in SlotFns :
      Occurrences(slotData[l][e], LAMBDA x : x.signal = s /\ x.slot = f)
        = Occurrences(slots[<<e, s>>],
                      LAMBDA n : Matches(n, l, f) /\ n.state # "disconnected")

FramesOf(k) == {i \in DOMAIN stack : stack[i].key = k}
InnermostOf(k) == IF FramesOf(k) = {} THEN 0 ELSE Max(FramesOf(k))

\* The activation pointer of a signal is its innermost emit(), and when its emitter
\* has been deleted that emit(), whichever it is by now, knows: no emit() that
\* control returns to uses the list of a deleted emitter.
ActivationSound ==
  \A k \in Keys :
    IF k[1] \in emitters
    THEN /\ activation[k] = InnermostOf(k)
         /\ \A i \in FramesOf(k) : ~stack[i].invalidated
    ELSE FramesOf(k) # {} => stack[InnermostOf(k)].invalidated

\* No node is removed from a list while an emit() has an iterator in the list.
IteratorsValid ==
  \A i \in DOMAIN stack :
    stack[i].key[1] \in emitters => stack[i].i = End \/ IndexOf(stack[i].key, stack[i].i) # 0

\* An emit() calls a slot only if the slot was connected when the emit() began, and
\* never twice; at the end it has called all those that are still connected. When no
\* emit() of a signal is in progress its slots have settled: what was disconnected is
\* gone, and what was connected will be called (Callback.hpp 42-59, Callback.cpp 50-69).
EmissionExact ==
  /\ ~UserCode =>
       IF Top.i = End
       THEN \A i \in DOMAIN slots[Top.key] :
              slots[Top.key][i].state = "connected" => slots[Top.key][i].id \in Top.called
       ELSE NodeAt(Top.key, Top.i).state = "connected" => Top.i \in Top.snapshot \ Top.called
  /\ \A k \in Keys :
       activation[k] = 0 => ~dirty[k] /\ \A i \in DOMAIN slots[k] : slots[k][i].state = "connected"

\* A slot is only ever called on a listener that is not deleted, whatever the slots
\* called before did.
CallsLiveReceiver ==
  ~UserCode /\ Top.i # End /\ NodeAt(Top.key, Top.i).state = "connected" =>
    NodeAt(Top.key, Top.i).receiver \in listeners
=============================================================================
