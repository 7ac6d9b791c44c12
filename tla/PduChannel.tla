----------------------------- MODULE PduChannel -----------------------------
(***************************************************************************)
(* What a connection promises to the handlers at its two ends: the PDUs    *)
(* that one end sends are handled by the other, whole, once, in order, and *)
(* all of them if both ends go on.                                         *)
(***************************************************************************)
EXTENDS Naturals, Sequences

VARIABLES sent, handled

Init == sent = << >> /\ handled = << >>

\* One more PDU, whichever.
Send == /\ Len(sent') = Len(sent) + 1
        /\ SubSeq(sent', 1, Len(sent)) = sent
        /\ UNCHANGED handled

Handle == /\ Len(handled) < Len(sent)
          /\ handled' = Append(handled, sent[Len(handled) + 1])
          /\ UNCHANGED sent

Next == Send \/ Handle

Safety == Init /\ [][Next]_<<sent, handled>>
Spec == Safety /\ WF_<<sent, handled>>(Handle)
=============================================================================
