---------------------------- MODULE MCEventLoop ----------------------------
(* Instances of EventLoop for TLC.                                           *)
EXTENDS EventLoop, TLC

\* Sockets are interchangeable, and the descriptors but for the listener's.
Symmetry == Permutations(Sockets) \cup Permutations(Fds \ {listener})
=============================================================================
