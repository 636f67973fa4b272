----------------------------- MODULE MCCallback -----------------------------
(***************************************************************************)
(* Callback for TLC: a few emitters and listeners, emit() nested twice.    *)
(***************************************************************************)
EXTENDS Callback, TLC

\* Objects of a kind are interchangeable, and so are signals and slots.
Symmetry == Permutations(Emitters) \cup Permutations(Listeners)
              \cup Permutations(Signals) \cup Permutations(SlotFns)
=============================================================================
