-------------------------- MODULE MCAccountConfig --------------------------
(* Three identities, two deaths of the process, one failing call.            *)
EXTENDS AccountConfig
=============================================================================
