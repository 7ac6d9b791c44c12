---------------------------- MODULE DurableCell ----------------------------
(* What ptp_net/Config.cpp promises to its callers: one value that survives  *)
(* the process.  A write replaces it whole or not at all, whenever the       *)
(* process dies; a power failure may undo the last replacement, but never    *)
(* leaves anything else behind.                                              *)
CONSTANTS Values,   \* what may be stored
          None      \* nothing stored, or nothing being written

VARIABLES cell,     \* what the next start of the process will find
          possible, \* what a start after a power failure may find
          writing,  \* the value being written
          up        \* the process runs

vars == <<cell, possible, writing, up>>

Init ==
  /\ cell = None
  /\ possible = {None}
  /\ writing = None
  /\ up = TRUE

Begin(v) ==
  /\ up /\ writing = None
  /\ writing' = v
  /\ UNCHANGED <<cell, possible, up>>

Replace ==
  /\ writing # None
  /\ cell' = writing
  /\ possible' = {cell, writing}
  /\ UNCHANGED <<writing, up>>

Settle ==
  /\ possible' = {cell}
  /\ UNCHANGED <<cell, writing, up>>

End ==
  /\ writing # None
  /\ cell = writing
  /\ writing' = None
  /\ UNCHANGED <<cell, possible, up>>

\* The process dies; with the power, its last replacement may be undone.
Crash ==
  /\ up /\ up' = FALSE
  /\ writing' = None
  /\ \/ UNCHANGED <<cell, possible>>
     \/ /\ cell' \in possible
        /\ possible' = {cell'}

Start ==
  /\ ~up /\ up' = TRUE
  /\ UNCHANGED <<cell, possible, writing>>

Next ==
  \/ \E v \in Values : Begin(v)
  \/ Replace
  \/ Settle
  \/ End
  \/ Crash
  \/ Start

Spec == Init /\ [][Next]_vars
=============================================================================
