---------------------------- MODULE MCMsgServer ----------------------------
(* Instances of MsgServer for TLC. *)
EXTENDS MsgServer, TLC

Symmetry == Permutations(Handles) \cup Permutations(Addresses)
=============================================================================
