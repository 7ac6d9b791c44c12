-------------------------- MODULE MCBusinessServer --------------------------
(* Instances of BusinessServer for TLC. *)
EXTENDS BusinessServer, TLC

\* Descriptors and workers are interchangeable.
Symmetry == Permutations(Handles) \cup Permutations(Workers)
=============================================================================
