------------------------------- MODULE MCGate -------------------------------
(* Instances of Gate for TLC. *)
EXTENDS Gate, TLC

\* Requests are interchangeable, and so are canaries.
Symmetry == Permutations(Nonces) \cup Permutations(Reqs)
=============================================================================
