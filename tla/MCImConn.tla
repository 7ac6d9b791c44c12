------------------------------ MODULE MCImConn ------------------------------
(* Instances of ImConn for TLC. *)
EXTENDS ImConn
=============================================================================
