------------------------------- MODULE MCGate -------------------------------
(* Bounds for model checking Gate. *)
EXTENDS Gate, TLC

\* Session ids and token secrets are random strings: interchangeable.
Symmetry == Permutations(Sids) \cup Permutations(Tids)
=============================================================================
