----------------------------- MODULE MCServLink -----------------------------
(* Instances of ServLink for TLC: Slots is given in the configurations. *)
EXTENDS ServLink
=============================================================================
