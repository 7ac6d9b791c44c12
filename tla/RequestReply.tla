---------------------------- MODULE RequestReply ----------------------------
(***************************************************************************)
(* What the business server promises to its peers, without threads,        *)
(* descriptors, uuids or queues: sessions open and close, a session        *)
(* submits requests while it is open, and a request is answered at most    *)
(* once, only to the session that submitted it and only while that session *)
(* is open.  Requests of one session may be answered in any order.         *)
(***************************************************************************)
EXTENDS Naturals, Sequences

CONSTANTS Session, Kind, MaxRequest

VARIABLES session, request, replies

vars == <<session, request, replies>>

Init ==
    /\ session = [c \in Session |-> "new"]
    /\ request = <<>>
    /\ replies = [c \in Session |-> <<>>]

Open(c) ==
    /\ session[c] = "new"
    /\ session' = [session EXCEPT ![c] = "open"]
    /\ UNCHANGED <<request, replies>>

Submit(c, kind) ==
    /\ session[c] = "open" /\ Len(request) < MaxRequest
    /\ request' = Append(request, [conn |-> c, kind |-> kind])
    /\ UNCHANGED <<session, replies>>

Answered(r) == \E c \in Session : \E i \in 1 .. Len(replies[c]) : replies[c][i] = r

Reply(r) ==
    /\ r \in 1 .. Len(request) /\ request[r].kind = "request"
    /\ session[request[r].conn] = "open" /\ ~Answered(r)
    /\ replies' = [replies EXCEPT ![request[r].conn] = Append(@, r)]
    /\ UNCHANGED <<session, request>>

Close(S) ==
    /\ \A c \in S : session[c] = "open"
    /\ session' = [c \in Session |-> IF c \in S THEN "closed" ELSE session[c]]
    /\ UNCHANGED <<request, replies>>

Next ==
    \/ \E c \in Session : Open(c) \/ \E kind \in Kind : Submit(c, kind)
    \/ \E r \in 1 .. MaxRequest : Reply(r)
    \/ \E S \in SUBSET Session : Close(S)

\* A request is not ignored for ever: it is answered, or its session closes.
Fairness == \A r \in 1 .. MaxRequest : WF_vars(Reply(r))

Safety == Init /\ [][Next]_vars
Spec == Safety /\ Fairness
=============================================================================
