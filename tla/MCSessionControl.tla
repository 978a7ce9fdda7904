-------------------------- MODULE MCSessionControl --------------------------
(* Instances of SessionControl for TLC. *)
EXTENDS SessionControl, TLC

\* The tasks are interchangeable: no step looks at which slot it runs in.
SlotSymmetry == Permutations(Slots)

\* Sound where the contexts are interchangeable, that is all of them dialable.
Symmetry == Permutations(Slots) \cup Permutations(Contexts)
=============================================================================
