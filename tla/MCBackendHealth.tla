-------------------------- MODULE MCBackendHealth --------------------------
(* Bounds for model checking BackendHealth. *)
EXTENDS BackendHealth, TLC

\* Backends are interchangeable: evaluate treats them alike, in any order.
Symmetry == Permutations(Backends)

=============================================================================
