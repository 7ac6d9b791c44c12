--------------------------- MODULE MCLoginService ---------------------------
(* Instances of LoginService for TLC. *)
EXTENDS LoginService, TLC

\* Init chooses an address, so only the threads are interchangeable.
Symmetry == Permutations(Threads)
=============================================================================
