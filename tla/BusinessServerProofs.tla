------------------------ MODULE BusinessServerProofs ------------------------
(***************************************************************************)
(* Proofs about BusinessServer, for any number of descriptors, workers,    *)
(* connections and PDUs and for any width of the uuid counter.             *)
(*                                                                         *)
(* UuidDistance and ReplyToRequester are not inductive.  What carries them *)
(* is the conjunction Inv of TypeOK with four facts: how the uuids of the  *)
(* latest connections follow from the counter (UuidWindow), that the maps  *)
(* point to open connections only and find them (ConnInv, MapsMatchConns), *)
(* where the event loop is with respect to its locals (LoopInv), and that  *)
(* whatever travels between the threads carries the uuid of the connection *)
(* its request came from (FlightInv).  CloseJustified needs two more: a    *)
(* worker is given what has a handler and gives back what that handler     *)
(* calls for (Kinded), and a reported descriptor keeps the reason it was   *)
(* reported for until the loop has dealt with it (BatchInv).               *)
(***************************************************************************)
EXTENDS BusinessServer, TLAPS

\* The uuid drawn k connections before uuid u: k steps back, skipping 0.
UuidBack(u, k) == IF u - k >= 1 THEN u - k ELSE u - k + (UuidMod - 1)

UuidWindow ==
    /\ accepted = 0 => s_uuid_alloctor = 0
    /\ accepted > 0 => s_uuid_alloctor >= 1
    /\ \A c \in 1 .. accepted : m_uuid[c] \in Uuids
    /\ \A c \in 1 .. accepted :
          accepted - c < UuidMod - 1 => m_uuid[c] = UuidBack(s_uuid_alloctor, accepted - c)

ConnInv ==
    /\ \A c \in Conns : status[c] = "new" <=> c > accepted
    /\ \A c \in 1 .. accepted : m_handle[c] \in Handles

LoopInv ==
    /\ pc = "read" => reading \in 1 .. accepted
    /\ pc = "read" /\ m_in_buf # <<>> => status[reading] = "open"
    /\ pc # "read" => m_in_buf = <<>>
    /\ pc = "deliver" => m_resp.uuid \in Uuids

\* A PDU that was sent, with the connection it was sent on.
From(r) == request[r].conn
Known(r) == r \in 1 .. Len(request) /\ From(r) \in 1 .. accepted
Tagged(x) == Known(x.pdu) /\ x.uuid = m_uuid[From(x.pdu)]

RequestsKnown == \A r \in 1 .. Len(request) : From(r) \in 1 .. accepted
InboxKnown == \A c \in Conns : \A i \in 1 .. Len(inbox[c]) :
                  Known(inbox[c][i]) /\ From(inbox[c][i]) = c
BufferKnown == \A i \in 1 .. Len(m_in_buf) :
                  Known(m_in_buf[i]) /\ From(m_in_buf[i]) = reading
TasksTagged == \A w \in Workers : \A i \in 1 .. Len(m_task_list[w]) :
                  Tagged(m_task_list[w][i])
RunningTagged == \A w \in Workers : running[w] # NoTask => Tagged(running[w])
ListTagged == \A i \in 1 .. Len(s_response_pdu_list) :
                  s_response_pdu_list[i].pdu # NULL => Tagged(s_response_pdu_list[i])
ResponseTagged == m_resp.pdu # NULL => Tagged(m_resp)
SentKnown == \A c \in Conns : \A i \in 1 .. Len(sent[c]) :
                  Known(sent[c][i]) /\ c <= accepted

FlightInv ==
    /\ RequestsKnown /\ InboxKnown /\ BufferKnown /\ TasksTagged /\ RunningTagged
    /\ ListTagged /\ ResponseTagged /\ SentKnown

Inv ==
    /\ TypeOK /\ UuidWindow /\ UuidDistance /\ ConnInv /\ MapsMatchConns
    /\ LoopInv /\ FlightInv /\ ReplyToRequester

USE UuidModAssumption, BoundsAssumption
    DEF NoConn, NULL

\* What the head and the tail of a non-empty sequence are.
LEMMA HeadTail ==
    ASSUME NEW S, NEW q \in Seq(S), q # <<>>
    PROVE  /\ Head(q) \in S /\ Head(q) = q[1]
           /\ Tail(q) \in Seq(S) /\ Len(q) \in Nat /\ Len(q) >= 1 /\ 1 \in 1 .. Len(q)
           /\ Len(Tail(q)) = Len(q) - 1
           /\ \A i \in 1 .. Len(Tail(q)) : i + 1 \in 1 .. Len(q) /\ Tail(q)[i] = q[i + 1]
  OBVIOUS

\* What Append does to the length, the elements and the type of a sequence.
LEMMA AppendFacts ==
    ASSUME NEW S, NEW q \in Seq(S), NEW e \in S
    PROVE  /\ Append(q, e) \in Seq(S) /\ Len(q) \in Nat
           /\ Len(Append(q, e)) = Len(q) + 1
           /\ Append(q, e)[Len(q) + 1] = e
           /\ \A i \in 1 .. Len(q) : Append(q, e)[i] = q[i]
  OBVIOUS

\* What g_proxy_conn_map has for a descriptor is an open connection on it.
LEMMA ProxyConn ==
    ASSUME TypeOK, MapsMatchConns, NEW h \in Handles, g_proxy_conn_map[h] # NoConn
    PROVE  /\ g_proxy_conn_map[h] \in Conns /\ status[g_proxy_conn_map[h]] = "open"
           /\ m_handle[g_proxy_conn_map[h]] = h
<1>1. g_proxy_conn_map[h] \in Conns \cup {NoConn}
  BY Zenon DEF TypeOK
<1>. QED
  BY <1>1, Zenon DEF MapsMatchConns

\* The number of the next PDU.
LEMMA NextPdu ==
    ASSUME TypeOK, Len(request) < MaxReq
    PROVE  Len(request) \in Nat /\ Len(request) + 1 \in Pdus
<1>1. request \in Seq([conn : Conns, kind : Kinds])
  BY Zenon DEF TypeOK
<1>2. Len(request) \in Nat
  BY <1>1
<1>. QED
  BY <1>2, BoundsAssumption DEF Pdus

\* Close keeps the types of what it writes.
LEMMA CloseType ==
    ASSUME TypeOK, NEW S, Close(S)
    PROVE  /\ status' \in [Conns -> {"new", "open", "closed"}]
           /\ g_proxy_conn_map' \in [Handles -> Conns \cup {NoConn}]
           /\ g_uuid_conn_map' \in [Uuids -> Conns \cup {NoConn}]
           /\ inbox' \in [Conns -> Seq(Pdus)]
           /\ peer' \in [Conns -> {"up", "fin", "reset"}]
           /\ ready' \in [Conns -> BOOLEAN]
           /\ quiet' \in [Conns -> BOOLEAN]
<1>1. status' \in [Conns -> {"new", "open", "closed"}]
  BY Zenon DEF TypeOK, Close
<1>2. g_proxy_conn_map' \in [Handles -> Conns \cup {NoConn}]
  BY Zenon DEF TypeOK, Close
<1>3. g_uuid_conn_map' \in [Uuids -> Conns \cup {NoConn}]
  BY Zenon DEF TypeOK, Close
<1>4. inbox' \in [Conns -> Seq(Pdus)]
  <2>1. <<>> \in Seq(Pdus)
    OBVIOUS
  <2> QED BY <2>1, Zenon DEF TypeOK, Close
<1>5. peer' \in [Conns -> {"up", "fin", "reset"}]
  BY Zenon DEF TypeOK, Close
<1>6. ready' \in [Conns -> BOOLEAN]
  BY Zenon DEF TypeOK, Close
<1>7. quiet' \in [Conns -> BOOLEAN]
  BY Zenon DEF TypeOK, Close
<1> QED BY <1>1, <1>2, <1>3, <1>4, <1>5, <1>6, <1>7, Zenon

\* The variables keep their types.
LEMMA TypeStep == Inv /\ [Next]_vars => TypeOK'
<1> SUFFICES ASSUME Inv, [Next]_vars PROVE TypeOK'
  BY Zenon
<1> USE DEF connVars, mapVars, kernVars, mainVars, poolVars
<1>0. TypeOK
  BY Zenon DEF Inv
<1>1. ASSUME NEW c \in Conns, NEW kind \in Kinds, PeerSend(c, kind) PROVE TypeOK'
  <2>1. Len(request) + 1 \in Pdus
    BY <1>0, <1>1 DEF TypeOK, PeerSend, Pdus
  <2>2. request' \in Seq([conn : Conns, kind : Kinds]) /\ Len(request') <= MaxReq
    BY <1>0, <1>1 DEF TypeOK, PeerSend
  <2>3. Append(inbox[c], Len(request) + 1) \in Seq(Pdus)
    BY <1>0, <2>1, AppendFacts DEF TypeOK
  <2>4. inbox' \in [Conns -> Seq(Pdus)]
    BY <1>0, <1>1, <2>3, Zenon DEF TypeOK, PeerSend
  <2> QED BY <1>0, <1>1, <2>2, <2>4, Zenon DEF TypeOK, PeerSend
<1>2. ASSUME NEW c \in Conns, NEW how \in {"fin", "reset"}, PeerGone(c, how) PROVE TypeOK'
  BY <1>0, <1>2 DEF TypeOK, PeerGone
<1>3. ASSUME NEW c \in Conns, Elapse(c) PROVE TypeOK'
  BY <1>0, <1>3, Zenon DEF TypeOK, Elapse
<1>4. CASE EpollWait
  BY <1>0, <1>4, Zenon DEF TypeOK, EpollWait
<1>5. ASSUME NEW h \in Handles, OnConnect(h) PROVE TypeOK'
  <2>1. NextUuid \in Uuids /\ NextUuid \in 0 .. (UuidMod - 1)
    BY <1>0 DEF TypeOK, NextUuid, Uuids
  <2>2. accepted + 1 \in Conns /\ accepted + 1 \in 0 .. MaxConn
    BY <1>0, <1>5 DEF TypeOK, OnConnect, Conns
  <2>3. g_uuid_conn_map' \in [Uuids -> Conns \cup {NoConn}]
    BY <1>0, <1>5, <2>1, <2>2, Zenon DEF TypeOK, OnConnect
  <2>4. /\ s_uuid_alloctor' \in 0 .. (UuidMod - 1) /\ accepted' \in 0 .. MaxConn
        /\ m_uuid' \in [Conns -> 0 .. (UuidMod - 1)]
        /\ m_handle' \in [Conns -> Handles \cup {NULL}]
        /\ status' \in [Conns -> {"new", "open", "closed"}]
        /\ g_proxy_conn_map' \in [Handles -> Conns \cup {NoConn}]
    BY <1>0, <1>5, <2>1, <2>2, Zenon DEF TypeOK, OnConnect
  <2> QED BY <1>0, <1>5, <2>3, <2>4, Zenon DEF TypeOK, OnConnect
<1>6. ASSUME NEW h \in Handles, OnRead(h) PROVE TypeOK'
  <2> DEFINE c == g_proxy_conn_map[h]
  <2>1. CASE c = NoConn \/ inbox[c] = <<>>
    <3>1. Close({c} \ {NoConn}) /\ batch' = [batch EXCEPT ![h] = "none"]
          /\ UNCHANGED <<pc, reading, m_in_buf>>
      BY <1>6, <2>1, Zenon DEF OnRead
    <3> QED BY <1>0, <1>6, <3>1, CloseType, Zenon DEF TypeOK, OnRead
  <2>2. CASE ~(c = NoConn \/ inbox[c] = <<>>)
    <3>1. c \in Conns
      BY <1>0, <2>2, Zenon DEF TypeOK
    <3>2. /\ m_in_buf' = inbox[c] /\ reading' = c /\ pc' = "read"
          /\ inbox' = [inbox EXCEPT ![c] = <<>>]
          /\ quiet' = [quiet EXCEPT ![c] = FALSE]
          /\ UNCHANGED <<mapVars, peer, ready, batch>>
      BY <1>6, <2>2, Zenon DEF OnRead
    <3>3. inbox' \in [Conns -> Seq(Pdus)] /\ m_in_buf' \in Seq(Pdus)
          /\ quiet' \in [Conns -> BOOLEAN]
      <4>1. <<>> \in Seq(Pdus)
        OBVIOUS
      <4> QED BY <1>0, <3>1, <3>2, <4>1, Zenon DEF TypeOK
    <3> QED BY <1>0, <1>6, <3>1, <3>2, <3>3, Zenon DEF TypeOK, OnRead
  <2> QED BY <2>1, <2>2, Zenon
<1>7. ASSUME NEW h \in Handles, EndOfEvent(h) PROVE TypeOK'
  BY Zenon, <1>0, <1>7, CloseType DEF TypeOK, EndOfEvent
<1>8. ASSUME NEW w \in Workers, HandlePduBuf(w) PROVE TypeOK'
  <2> DEFINE pdu == Head(m_in_buf)
             kind == request[pdu].kind
             task == [uuid |-> m_uuid[reading], pdu |-> pdu]
  <2>1. pdu \in Pdus /\ Tail(m_in_buf) \in Seq(Pdus)
    BY <1>0, <1>8, HeadTail, Zenon DEF TypeOK, HandlePduBuf
  <2>2. task \in InFlight
    BY <1>8, <2>1, Zenon DEF Inv, LoopInv, UuidWindow, HandlePduBuf, InFlight
  <2>3. CASE kind = "malformed"
    <3>1. Close({reading}) /\ m_in_buf' = <<>> /\ UNCHANGED m_task_list
      BY <1>8, <2>3, Zenon DEF HandlePduBuf
    <3>2. m_in_buf' \in Seq(Pdus)
      BY <3>1
    <3> QED BY Zenon, <1>0, <1>8, <3>1, <3>2, CloseType DEF TypeOK, HandlePduBuf
  <2>4. CASE kind = "ignored"
    <3>1. m_in_buf' = Tail(m_in_buf) /\ UNCHANGED <<mapVars, kernVars, m_task_list>>
      BY <1>8, <2>4, Zenon DEF HandlePduBuf
    <3> QED BY Zenon, <1>0, <1>8, <2>1, <3>1 DEF TypeOK, HandlePduBuf
  <2>5. CASE kind \notin {"malformed", "ignored"}
    <3>1. /\ m_task_list' = [m_task_list EXCEPT ![w] = Append(@, task)]
          /\ m_in_buf' = Tail(m_in_buf) /\ UNCHANGED <<mapVars, kernVars>>
      BY <1>8, <2>5, Zenon DEF HandlePduBuf
    <3>2. Append(m_task_list[w], task) \in Seq(InFlight)
      BY <1>0, <2>2, AppendFacts, Zenon DEF TypeOK
    <3>3. m_task_list' \in [Workers -> Seq(InFlight)]
      BY <1>0, <3>1, <3>2, Zenon DEF TypeOK
    <3> QED BY Zenon, <1>0, <1>8, <2>1, <3>1, <3>3 DEF TypeOK, HandlePduBuf
  <2> QED BY <2>3, <2>4, <2>5, Zenon
<1>9. CASE ProxyTimer
  BY <1>0, <1>9, CloseType, Zenon DEF TypeOK, ProxyTimer
<1>10. CASE PopResponse
  BY Zenon, <1>0, <1>10, HeadTail DEF TypeOK, PopResponse
<1>11. CASE DeliverResponse
  <2> DEFINE c == g_uuid_conn_map[m_resp.uuid]
  <2>0. m_resp' \in [uuid : Uuids, pdu : Pdus \cup {NULL}] \cup {NoTask} /\ pc' = "loop"
    BY <1>11, Zenon DEF DeliverResponse
  <2>1. CASE c # NoConn /\ m_resp.pdu # NULL
    <3>1. /\ sent' = [sent EXCEPT ![c] = Append(@, m_resp.pdu)]
          /\ UNCHANGED <<mapVars, kernVars>>
      BY <1>11, <2>1, Zenon DEF DeliverResponse
    <3>2. m_resp.uuid \in Uuids
      BY <1>11, Zenon DEF DeliverResponse, Inv, LoopInv
    <3>3. c \in Conns
      BY <1>0, <2>1, <3>2, Zenon DEF TypeOK
    <3>4. m_resp.pdu \in Pdus
      BY <1>0, <2>1 DEF TypeOK, NoTask
    <3>5. sent' \in [Conns -> Seq(Pdus)]
      <4>1. Append(sent[c], m_resp.pdu) \in Seq(Pdus)
        BY <1>0, <3>3, <3>4, AppendFacts, Zenon DEF TypeOK
      <4> QED BY <1>0, <3>1, <3>3, <4>1, Zenon DEF TypeOK
    <3> QED BY Zenon, <1>0, <1>11, <2>0, <3>1, <3>5 DEF TypeOK, DeliverResponse
  <2>2. CASE ~(c # NoConn /\ m_resp.pdu # NULL)
    <3>1. Close({c} \ {NoConn}) /\ UNCHANGED sent
      BY <1>11, <2>2, Zenon DEF DeliverResponse
    <3> QED BY Zenon, <1>0, <1>11, <2>0, <3>1, CloseType DEF TypeOK, DeliverResponse
  <2> QED BY <2>1, <2>2, Zenon
<1>12. CASE EndOfLoop
  BY <1>0, <1>12, Zenon DEF TypeOK, EndOfLoop
<1>13. CASE ExitCallback
  BY <1>0, <1>13, Zenon DEF TypeOK, ExitCallback
<1>14. CASE SigHandler
  BY <1>0, <1>14, Zenon DEF TypeOK, SigHandler
<1>15. ASSUME NEW w \in Workers, PopTask(w) PROVE TypeOK'
  <2>1. Head(m_task_list[w]) \in InFlight /\ Tail(m_task_list[w]) \in Seq(InFlight)
    BY <1>0, <1>15, HeadTail, Zenon DEF TypeOK, PopTask
  <2> QED BY <1>0, <1>15, <2>1, Zenon DEF TypeOK, PopTask
<1>16. ASSUME NEW w \in Workers, Run(w) PROVE TypeOK'
  <2> DEFINE R == [uuid : Uuids, pdu : Pdus \cup {NULL}]
             resp == [uuid |-> running[w].uuid,
                      pdu  |-> IF request[running[w].pdu].kind = "request"
                               THEN running[w].pdu ELSE NULL]
  <2>1. running[w] \in InFlight
    BY <1>0, <1>16, Zenon DEF TypeOK, Run
  <2>2. resp \in R
    BY <2>1, Zenon DEF InFlight
  <2>3. Append(s_response_pdu_list, resp) \in Seq(R)
    BY <1>0, <2>2, AppendFacts DEF TypeOK
  <2>4. s_response_pdu_list' \in Seq(R) /\ running' \in [Workers -> InFlight \cup {NoTask}]
    BY <1>0, <1>16, <2>3, Zenon DEF TypeOK, Run
  <2> QED BY <1>0, <1>16, <2>4, Zenon DEF TypeOK, Run
<1>17. CASE UNCHANGED vars
  BY <1>0, <1>17, Zenon DEF TypeOK, vars
<1> QED
  BY <1>1, <1>2, <1>3, <1>4, <1>5, <1>6, <1>7, <1>8, <1>9, <1>10, <1>11, <1>12,
     <1>13, <1>14, <1>15, <1>16, <1>17 DEF Next, Environment, EventLoop, Worker

\* A step accepts a connection, or leaves every uuid and handle alone and at most
\* closes some open connections.
LEMMA ConnStep ==
    ASSUME Inv, [Next]_vars
    PROVE  \/ \E h \in Handles : OnConnect(h)
           \/ /\ UNCHANGED connVars
              /\ \/ UNCHANGED mapVars
                 \/ \E S \in SUBSET {c \in Conns : status[c] = "open"} : Close(S)
<1> DEFINE Goal == \/ \E h \in Handles : OnConnect(h)
                   \/ /\ UNCHANGED connVars
                      /\ \/ UNCHANGED mapVars
                         \/ \E S \in SUBSET {c \in Conns : status[c] = "open"} : Close(S)
<1> SUFFICES Goal
  BY Zenon
<1>a. TypeOK /\ MapsMatchConns /\ LoopInv
  BY Zenon DEF Inv
<1>0. ASSUME NEW S, \A c \in S : c \in Conns /\ status[c] = "open",
             Close(S), UNCHANGED connVars
      PROVE  Goal
  BY <1>0, Zenon
<1>1. CASE Environment
  <2>1. UNCHANGED <<connVars, mapVars>>
    BY Zenon, <1>1 DEF Environment, PeerSend, PeerGone, Elapse
  <2> QED BY <2>1, Zenon
<1>2. CASE EpollWait \/ PopResponse \/ EndOfLoop \/ ExitCallback \/ SigHandler
  <2>1. UNCHANGED <<connVars, mapVars>>
    BY <1>2, Zenon DEF EpollWait, PopResponse, EndOfLoop, ExitCallback, SigHandler
  <2> QED BY <2>1, Zenon
<1>3. ASSUME NEW h \in Handles, OnRead(h) PROVE Goal
  <2>1. UNCHANGED connVars
    BY <1>3, Zenon DEF OnRead
  <2> DEFINE c == g_proxy_conn_map[h]
  <2>2. CASE c = NoConn \/ inbox[c] = <<>>
    <3>1. Close({c} \ {NoConn})
      BY <1>3, <2>2, Zenon DEF OnRead
    <3>2. \A d \in {c} \ {NoConn} : d \in Conns /\ status[d] = "open"
      BY <1>a DEF TypeOK, MapsMatchConns
    <3> QED BY <1>0, <2>1, <3>1, <3>2, Zenon
  <2>3. CASE ~(c = NoConn \/ inbox[c] = <<>>)
    <3>1. UNCHANGED mapVars
      BY <1>3, <2>3, Zenon DEF OnRead
    <3> QED BY <2>1, <3>1, Zenon
  <2> QED BY <2>2, <2>3, Zenon
<1>4. ASSUME NEW h \in Handles, EndOfEvent(h) PROVE Goal
  <2> DEFINE S == IF batch[h] = "in_hup" THEN {g_proxy_conn_map[h]} \ {NoConn} ELSE {}
  <2>1. UNCHANGED connVars /\ Close(S)
    BY <1>4, Zenon DEF EndOfEvent
  <2>2. \A d \in S : d \in Conns /\ status[d] = "open"
    BY <1>a DEF TypeOK, MapsMatchConns
  <2> QED BY <1>0, <2>1, <2>2, Zenon
<1>5. ASSUME NEW w \in Workers, HandlePduBuf(w) PROVE Goal
  <2>1. UNCHANGED connVars
    BY <1>5, Zenon DEF HandlePduBuf
  <2>2. CASE request[Head(m_in_buf)].kind = "malformed"
    <3>1. Close({reading})
      BY <1>5, <2>2, Zenon DEF HandlePduBuf
    <3>2. reading \in Conns /\ status[reading] = "open"
      BY <1>a, <1>5 DEF HandlePduBuf, LoopInv, TypeOK, Conns
    <3> QED BY <1>0, <2>1, <3>1, <3>2, Zenon
  <2>3. CASE request[Head(m_in_buf)].kind # "malformed"
    <3>1. CASE request[Head(m_in_buf)].kind = "ignored"
      BY <1>5, <2>1, <3>1, Zenon DEF HandlePduBuf
    <3>2. CASE request[Head(m_in_buf)].kind # "ignored"
      BY <1>5, <2>1, <2>3, <3>2, Zenon DEF HandlePduBuf
    <3> QED BY <3>1, <3>2, Zenon
  <2> QED BY <2>2, <2>3, Zenon
<1>6. CASE ProxyTimer
  <2> DEFINE S == {g_proxy_conn_map[h] : h \in {g \in Handles :
                 /\ g_proxy_conn_map[g] # NoConn
                 /\ quiet[g_proxy_conn_map[g]]}}
  <2>1. UNCHANGED connVars /\ Close(S)
    BY <1>6, Zenon DEF ProxyTimer
  <2>2. \A d \in S : d \in Conns /\ status[d] = "open"
    BY <1>a DEF TypeOK, MapsMatchConns
  <2> QED BY <1>0, <2>1, <2>2, Zenon
<1>7. CASE DeliverResponse
  <2> DEFINE c == g_uuid_conn_map[m_resp.uuid]
  <2>1. UNCHANGED connVars
    BY <1>7, Zenon DEF DeliverResponse
  <2>2. CASE c # NoConn /\ m_resp.pdu # NULL
    <3>1. UNCHANGED mapVars
      BY <1>7, <2>2, Zenon DEF DeliverResponse
    <3> QED BY <2>1, <3>1, Zenon
  <2>3. CASE ~(c # NoConn /\ m_resp.pdu # NULL)
    <3>1. Close({c} \ {NoConn})
      BY <1>7, <2>3, Zenon DEF DeliverResponse
    <3>2. m_resp.uuid \in Uuids
      BY <1>a, <1>7, Zenon DEF LoopInv, DeliverResponse
    <3>3. \A d \in {c} \ {NoConn} : d \in Conns /\ status[d] = "open"
      BY <1>a, <3>2 DEF TypeOK, MapsMatchConns
    <3> QED BY <1>0, <2>1, <3>1, <3>3, Zenon
  <2> QED BY <2>2, <2>3, Zenon
<1>8. ASSUME NEW w \in Workers, Worker(w) PROVE Goal
  <2>1. UNCHANGED <<connVars, mapVars>>
    BY <1>8, Zenon DEF Worker, PopTask, Run
  <2> QED BY <2>1, Zenon
<1>9. CASE UNCHANGED vars
  BY <1>9, Zenon DEF vars
<1> QED
  BY <1>1, <1>2, <1>3, <1>4, <1>5, <1>6, <1>7, <1>8, <1>9, Zenon DEF Next, EventLoop

\* Drawing the next uuid keeps the window of recent uuids and the distance between
\* connections that share one.
LEMMA UuidStep == Inv /\ [Next]_vars => UuidWindow' /\ UuidDistance'
<1> SUFFICES ASSUME Inv, [Next]_vars PROVE UuidWindow' /\ UuidDistance'
  BY Zenon
<1>a. TypeOK /\ UuidWindow /\ UuidDistance
  BY Zenon DEF Inv
<1>1. CASE UNCHANGED connVars
  BY <1>a, <1>1, Zenon DEF connVars, UuidWindow, UuidDistance, UuidBack
<1>2. ASSUME NEW h \in Handles, OnConnect(h) PROVE UuidWindow' /\ UuidDistance'
  <2> DEFINE n == accepted
             k == UuidMod - 1
  <2>1. /\ accepted' = n + 1 /\ s_uuid_alloctor' = NextUuid
        /\ m_uuid' = [m_uuid EXCEPT ![n + 1] = NextUuid]
        /\ n \in Nat /\ n < MaxConn /\ n + 1 \in Conns
    BY <1>a, <1>2, SMTT(40) DEF OnConnect, TypeOK, Conns
  <2>2. /\ s_uuid_alloctor \in 0 .. k /\ k \in Nat /\ k >= 1
        /\ NextUuid = IF s_uuid_alloctor = k THEN 1 ELSE s_uuid_alloctor + 1
    BY <1>a DEF TypeOK, NextUuid
  <2>3. m_uuid'[n + 1] = NextUuid /\ \A c \in 1 .. n : m_uuid'[c] = m_uuid[c]
    BY <1>a, <2>1 DEF TypeOK, Conns
  <2>4. NextUuid \in Uuids
    BY <2>2 DEF Uuids
  <2>5. ASSUME NEW c \in 1 .. n, n + 1 - c < k
        PROVE  /\ m_uuid[c] # NextUuid
               /\ m_uuid[c] = UuidBack(NextUuid, n + 1 - c)
    <3>1. m_uuid[c] = UuidBack(s_uuid_alloctor, n - c)
      BY <1>a, <2>1, <2>2, <2>5 DEF UuidWindow
    <3>2. n - c \in Nat /\ n - c < k - 1 /\ s_uuid_alloctor >= 1
      BY <1>a, <2>1, <2>2, <2>5 DEF UuidWindow
    <3> QED BY <2>1, <2>2, <3>1, <3>2 DEF UuidBack
  <2>6. UuidWindow'
    <3>1. s_uuid_alloctor' >= 1 /\ accepted' > 0
      BY <2>1, <2>2
    <3>2. \A c \in 1 .. n + 1 : m_uuid'[c] \in Uuids
      BY <1>a, <2>1, <2>3, <2>4 DEF UuidWindow
    <3>3. ASSUME NEW c \in 1 .. n + 1, n + 1 - c < k
          PROVE  m_uuid'[c] = UuidBack(NextUuid, n + 1 - c)
      <4>1. CASE c = n + 1
        BY <2>1, <2>2, <2>3, <4>1 DEF UuidBack
      <4>2. CASE c # n + 1
        BY <2>1, <2>3, <2>5, <3>3, <4>2
      <4> QED BY <4>1, <4>2, Zenon
    <3> QED BY <2>1, <3>1, <3>2, <3>3 DEF UuidWindow, Uuids
  <2>7. UuidDistance'
    <3> SUFFICES ASSUME NEW c \in 1 .. n + 1, NEW d \in 1 .. n + 1,
                        c < d, m_uuid'[c] = m_uuid'[d]
                 PROVE  d - c >= k
      BY <2>1, Zenon DEF UuidDistance
    <3>1. c \in 1 .. n
      BY <2>1
    <3>2. CASE d = n + 1
      BY <2>1, <2>2, <2>3, <2>5, <3>1, <3>2
    <3>3. CASE d # n + 1
      BY <1>a, <2>1, <2>3, <3>1, <3>3 DEF UuidDistance
    <3> QED BY <3>2, <3>3, Zenon
  <2> QED BY <2>6, <2>7, Zenon
<1> QED BY <1>1, <1>2, ConnStep, Zenon

\* Accepting and closing keep both maps in step with the open connections.
LEMMA MapsStep == Inv /\ [Next]_vars => ConnInv' /\ MapsMatchConns'
<1> SUFFICES ASSUME Inv, [Next]_vars PROVE ConnInv' /\ MapsMatchConns'
  BY Zenon
<1>a. TypeOK /\ UuidWindow /\ ConnInv /\ MapsMatchConns
  BY Zenon DEF Inv
<1>b. TypeOK' /\ UuidWindow'
  BY TypeStep, UuidStep, Zenon
<1>c. \A c \in Conns : status[c] # "new" => c \in 1 .. accepted
  BY <1>a DEF ConnInv, TypeOK, Conns
<1>d. \A c \in 1 .. accepted : c \in Conns
  BY <1>a DEF TypeOK, Conns
<1>1. CASE UNCHANGED <<connVars, mapVars>>
  BY <1>a, <1>1, Zenon DEF connVars, mapVars, ConnInv, MapsMatchConns, SharesUuid
<1>2. ASSUME NEW S \in SUBSET {c \in Conns : status[c] = "open"},
             Close(S), UNCHANGED connVars
      PROVE  ConnInv' /\ MapsMatchConns'
  <2>1. ConnInv'
    BY <1>a, <1>2, Zenon DEF ConnInv, Close, connVars, TypeOK
  <2>2. \A h \in Handles : g_proxy_conn_map'[h] # NoConn =>
           /\ status'[g_proxy_conn_map'[h]] = "open"
           /\ m_handle'[g_proxy_conn_map'[h]] = h
    BY <1>a, <1>2, SMTT(40) DEF MapsMatchConns, Close, connVars, TypeOK
  <2>3. \A u \in Uuids : g_uuid_conn_map'[u] # NoConn =>
           /\ status'[g_uuid_conn_map'[u]] = "open"
           /\ m_uuid'[g_uuid_conn_map'[u]] = u
    BY <1>a, <1>2, SMTT(40) DEF MapsMatchConns, Close, connVars, TypeOK
  <2>4. ASSUME NEW c \in Conns, status'[c] = "open"
        PROVE  /\ g_proxy_conn_map'[m_handle'[c]] = c
               /\ g_uuid_conn_map'[m_uuid'[c]] = c \/ SharesUuid(c)'
    <3>1. c \notin S /\ status[c] = "open" /\ c \in 1 .. accepted
      BY <1>c, <1>2, <2>4, Zenon DEF Close
    <3>2. /\ g_proxy_conn_map[m_handle[c]] = c /\ m_handle[c] \in Handles
          /\ g_uuid_conn_map[m_uuid[c]] = c \/ SharesUuid(c)
          /\ m_uuid[c] \in Uuids
      BY <1>a, <3>1, Zenon DEF MapsMatchConns, ConnInv, UuidWindow
    <3>3. g_proxy_conn_map'[m_handle'[c]] = c
      <4>1. \A d \in S : m_handle[d] # m_handle[c]
        BY <1>a, <1>2, <3>1, <3>2, Zenon DEF MapsMatchConns
      <4> QED BY <1>2, <3>2, <4>1, Zenon DEF Close, connVars
    <3>4. CASE \E d \in S : m_uuid[d] = m_uuid[c]
      <4>1. PICK d \in S : m_uuid[d] = m_uuid[c]
        BY <3>4, Zenon
      <4>2. d \in 1 .. accepted /\ d # c
        BY <1>c, <1>2, <3>1, Zenon
      <4> QED BY <1>2, <3>3, <4>1, <4>2, Zenon DEF SharesUuid, connVars
    <3>5. CASE \A d \in S : m_uuid[d] # m_uuid[c]
      <4>1. g_uuid_conn_map'[m_uuid'[c]] = g_uuid_conn_map[m_uuid[c]]
        BY <1>2, <3>2, <3>5, Zenon DEF Close, connVars
      <4> QED BY <1>2, <3>2, <3>3, <4>1, Zenon DEF SharesUuid, connVars
    <3> QED BY <3>4, <3>5, Zenon
  <2> QED BY <2>1, <2>2, <2>3, <2>4, Zenon DEF MapsMatchConns
<1>3. ASSUME NEW h \in Handles, OnConnect(h) PROVE ConnInv' /\ MapsMatchConns'
  <2> DEFINE new == accepted + 1
  <2>1. /\ new \in Conns /\ accepted' = new /\ accepted \in Nat /\ new \in Nat
        /\ m_uuid' = [m_uuid EXCEPT ![new] = NextUuid]
        /\ m_handle' = [m_handle EXCEPT ![new] = h]
        /\ status' = [status EXCEPT ![new] = "open"]
        /\ g_proxy_conn_map' = [g_proxy_conn_map EXCEPT ![h] = new]
        /\ g_uuid_conn_map' = [g_uuid_conn_map EXCEPT
               ![NextUuid] = IF @ = NoConn THEN new ELSE @]
        /\ g_proxy_conn_map[h] = NoConn
    BY <1>a, <1>3 DEF OnConnect, TypeOK, Conns
  <2>2. NextUuid \in Uuids
    BY <1>a DEF TypeOK, NextUuid, Uuids
  <2>3. status[new] = "new" /\ new # NoConn
    BY <1>a, <2>1 DEF ConnInv
  <2>t. /\ m_uuid \in [Conns -> 0 .. (UuidMod - 1)] /\ m_handle \in [Conns -> Handles \cup {NULL}]
        /\ status \in [Conns -> {"new", "open", "closed"}]
        /\ g_proxy_conn_map \in [Handles -> Conns \cup {NoConn}]
        /\ g_uuid_conn_map \in [Uuids -> Conns \cup {NoConn}]
    BY <1>a, Zenon DEF TypeOK
  <2>p. /\ m_uuid'[new] = NextUuid /\ m_handle'[new] = h /\ status'[new] = "open"
        /\ \A c \in Conns : c # new => /\ m_uuid'[c] = m_uuid[c]
                                       /\ m_handle'[c] = m_handle[c]
                                       /\ status'[c] = status[c]
    BY <2>1, <2>t, Zenon
  <2>q. /\ g_proxy_conn_map'[h] = new
        /\ \A g \in Handles : g # h => g_proxy_conn_map'[g] = g_proxy_conn_map[g]
    BY <2>1, <2>t, Zenon
  <2>r. /\ g_uuid_conn_map[NextUuid] = NoConn => g_uuid_conn_map'[NextUuid] = new
        /\ \A u \in Uuids : u # NextUuid \/ g_uuid_conn_map[u] # NoConn =>
               g_uuid_conn_map'[u] = g_uuid_conn_map[u]
    BY <2>1, <2>2, <2>t, Zenon
  <2>4. ConnInv'
    <3>1. ASSUME NEW c \in Conns PROVE status'[c] = "new" <=> c > accepted'
      <4>1. c \in Nat /\ (status[c] = "new" <=> c > accepted)
        BY <1>a DEF ConnInv, Conns
      <4>2. CASE c = new
        BY <2>1, <2>p, <4>2
      <4>3. CASE c # new
        <5>1. status'[c] = status[c]
          BY <2>p, <4>3, Zenon
        <5> QED BY <2>1, <4>1, <4>3, <5>1
      <4> QED BY <4>2, <4>3, Zenon
    <3>2. ASSUME NEW c \in 1 .. accepted' PROVE m_handle'[c] \in Handles
      <4>1. c = new \/ c \in 1 .. accepted
        BY <2>1
      <4>2. c \in Conns
        BY <1>d, <2>1, <4>1, Zenon
      <4> QED BY <1>a, <2>p, <4>1, <4>2, Zenon DEF ConnInv
    <3> QED BY <3>1, <3>2, Zenon DEF ConnInv
  <2>5. \A g \in Handles : g_proxy_conn_map'[g] # NoConn =>
           /\ status'[g_proxy_conn_map'[g]] = "open"
           /\ m_handle'[g_proxy_conn_map'[g]] = g
    <3> SUFFICES ASSUME NEW g \in Handles, g_proxy_conn_map'[g] # NoConn
                 PROVE  /\ status'[g_proxy_conn_map'[g]] = "open"
                        /\ m_handle'[g_proxy_conn_map'[g]] = g
      BY Zenon
    <3>1. CASE g = h
      BY <2>p, <2>q, <3>1, Zenon
    <3>2. CASE g # h
      <4>1. /\ g_proxy_conn_map'[g] = g_proxy_conn_map[g] /\ g_proxy_conn_map[g] \in Conns
            /\ status[g_proxy_conn_map[g]] = "open" /\ m_handle[g_proxy_conn_map[g]] = g
        BY <1>a, <2>q, <2>t, <3>2 DEF MapsMatchConns
      <4>2. g_proxy_conn_map[g] # new
        BY <2>3, <4>1, Zenon
      <4> QED BY <2>p, <4>1, <4>2, Zenon
    <3> QED BY <3>1, <3>2, Zenon
  <2>6. \A u \in Uuids : g_uuid_conn_map'[u] # NoConn =>
           /\ status'[g_uuid_conn_map'[u]] = "open"
           /\ m_uuid'[g_uuid_conn_map'[u]] = u
    <3> SUFFICES ASSUME NEW u \in Uuids, g_uuid_conn_map'[u] # NoConn
                 PROVE  /\ status'[g_uuid_conn_map'[u]] = "open"
                        /\ m_uuid'[g_uuid_conn_map'[u]] = u
      BY Zenon
    <3>1. CASE g_uuid_conn_map[u] # NoConn
      <4>1. g_uuid_conn_map'[u] = g_uuid_conn_map[u] /\ g_uuid_conn_map[u] \in Conns
        BY <2>r, <2>t, <3>1, Zenon
      <4>2. status[g_uuid_conn_map[u]] = "open" /\ m_uuid[g_uuid_conn_map[u]] = u
        BY <1>a, <3>1, Zenon DEF MapsMatchConns
      <4>3. g_uuid_conn_map[u] # new
        BY <2>3, <4>2, Zenon
      <4> QED BY <2>p, <4>1, <4>2, <4>3, Zenon
    <3>2. CASE g_uuid_conn_map[u] = NoConn
      <4>1. u = NextUuid /\ g_uuid_conn_map'[u] = new
        BY <2>r, <3>2, Zenon
      <4> QED BY <2>p, <4>1, Zenon
    <3> QED BY <3>1, <3>2, Zenon
  <2>7. ASSUME NEW c \in Conns, status'[c] = "open"
        PROVE  /\ g_proxy_conn_map'[m_handle'[c]] = c
               /\ g_uuid_conn_map'[m_uuid'[c]] = c \/ SharesUuid(c)'
    <3>1. CASE c = new
      <4>1. g_proxy_conn_map'[m_handle'[c]] = c /\ m_uuid'[c] = NextUuid
        BY <2>p, <2>q, <3>1, Zenon
      <4>2. CASE g_uuid_conn_map[NextUuid] = NoConn
        BY <2>r, <3>1, <4>1, <4>2, Zenon
      <4>3. CASE g_uuid_conn_map[NextUuid] # NoConn
        <5> DEFINE d == g_uuid_conn_map[NextUuid]
        <5>1. d \in Conns /\ status[d] = "open" /\ m_uuid[d] = NextUuid
          BY <1>a, <2>2, <2>t, <4>3 DEF MapsMatchConns
        <5>2. d \in 1 .. accepted'
          BY <1>c, <2>1, <5>1
        <5>3. d # c /\ m_uuid'[d] = m_uuid'[c]
          <6>1. d # new
            BY <2>3, <5>1, Zenon
          <6> HIDE DEF d
          <6> QED BY <2>p, <3>1, <5>1, <6>1, Zenon
        <5> QED BY <4>1, <5>2, <5>3, Zenon DEF SharesUuid
      <4> QED BY <4>2, <4>3, Zenon
    <3>2. CASE c # new
      <4>1. /\ status[c] = "open" /\ c \in 1 .. accepted /\ m_handle'[c] = m_handle[c]
            /\ m_uuid'[c] = m_uuid[c]
        BY <1>c, <2>7, <2>p, <3>2, Zenon
      <4>2. /\ g_proxy_conn_map[m_handle[c]] = c /\ m_handle[c] \in Handles
            /\ g_uuid_conn_map[m_uuid[c]] = c \/ SharesUuid(c)
            /\ m_uuid[c] \in Uuids /\ c # NoConn
        BY <1>a, <4>1 DEF MapsMatchConns, ConnInv, UuidWindow
      <4>3. g_proxy_conn_map'[m_handle'[c]] = c
        <5>1. m_handle[c] # h
          BY <2>1, <4>2, Zenon
        <5> QED BY <2>q, <4>1, <4>2, <5>1, Zenon
      <4>4. CASE g_uuid_conn_map[m_uuid[c]] = c
        <5>1. g_uuid_conn_map'[m_uuid[c]] = g_uuid_conn_map[m_uuid[c]]
          BY <2>r, <4>2, <4>4, Zenon
        <5> QED BY <4>1, <4>3, <4>4, <5>1, Zenon
      <4>5. CASE SharesUuid(c)
        <5>1. PICK d \in 1 .. accepted : d # c /\ m_uuid[d] = m_uuid[c]
          BY <4>5, Zenon DEF SharesUuid
        <5>2. d \in 1 .. accepted' /\ m_uuid'[d] = m_uuid'[c]
          <6>1. d \in Conns /\ d \in 1 .. accepted' /\ d # new
            BY <1>d, <2>1
          <6> QED BY <2>p, <4>1, <5>1, <6>1, Zenon
        <5> QED BY <4>3, <5>1, <5>2, Zenon DEF SharesUuid
      <4> QED BY <4>2, <4>4, <4>5, Zenon
    <3> QED BY <3>1, <3>2, Zenon
  <2> QED BY <2>4, <2>5, <2>6, <2>7, Zenon DEF MapsMatchConns
<1> QED BY <1>1, <1>2, <1>3, ConnStep, Zenon

\* The event loop's locals match the place it is at.
LEMMA LoopStep == Inv /\ [Next]_vars => LoopInv'
<1> SUFFICES ASSUME Inv, [Next]_vars PROVE LoopInv'
  BY Zenon
<1>a. TypeOK /\ LoopInv /\ MapsMatchConns /\ ConnInv
  BY Zenon DEF Inv
<1> USE DEF connVars, mapVars, kernVars, mainVars, poolVars
<1>1. CASE Environment
  BY Zenon, <1>a, <1>1 DEF Environment, PeerSend, PeerGone, Elapse, LoopInv
<1>2. CASE EpollWait \/ EndOfLoop \/ ExitCallback \/ SigHandler
  BY <1>a, <1>2, Zenon DEF EpollWait, EndOfLoop, ExitCallback, SigHandler, LoopInv
<1>3. ASSUME NEW h \in Handles, OnConnect(h) PROVE LoopInv'
  BY <1>a, <1>3, Zenon DEF OnConnect, LoopInv
<1>4. ASSUME NEW h \in Handles, OnRead(h) PROVE LoopInv'
  <2> DEFINE c == g_proxy_conn_map[h]
  <2>1. CASE c = NoConn \/ inbox[c] = <<>>
    <3>1. UNCHANGED <<pc, reading, m_in_buf, m_resp>> /\ pc = "events"
      BY <1>4, <2>1, Zenon DEF OnRead
    <3> QED BY <1>a, <3>1, Zenon DEF LoopInv
  <2>2. CASE ~(c = NoConn \/ inbox[c] = <<>>)
    <3>1. c \in Conns /\ status[c] = "open"
      BY <1>a, <2>2 DEF TypeOK, MapsMatchConns
    <3>2. c \in 1 .. accepted
      BY <1>a, <3>1 DEF ConnInv, TypeOK, Conns
    <3>3. pc' = "read" /\ reading' = c /\ UNCHANGED <<status, accepted>>
      BY <1>4, <2>2, Zenon DEF OnRead
    <3> QED BY <3>1, <3>2, <3>3, Zenon DEF LoopInv
  <2> QED BY <2>1, <2>2, Zenon
<1>5. ASSUME NEW h \in Handles, EndOfEvent(h) PROVE LoopInv'
  BY <1>5, Zenon DEF EndOfEvent, LoopInv
<1>6. ASSUME NEW w \in Workers, HandlePduBuf(w) PROVE LoopInv'
  <2>1. /\ pc = "read" /\ reading \in 1 .. accepted /\ status[reading] = "open"
        /\ UNCHANGED <<accepted, pc, reading, m_resp>>
    BY <1>a, <1>6, Zenon DEF HandlePduBuf, LoopInv
  <2>2. m_in_buf' = <<>> \/ UNCHANGED status
    <3>1. CASE request[Head(m_in_buf)].kind = "malformed"
      BY <1>6, <3>1, Zenon DEF HandlePduBuf
    <3>2. CASE request[Head(m_in_buf)].kind = "ignored"
      BY <1>6, <3>2, Zenon DEF HandlePduBuf
    <3>3. CASE request[Head(m_in_buf)].kind \notin {"malformed", "ignored"}
      BY <1>6, <3>3, Zenon DEF HandlePduBuf
    <3> QED BY <3>1, <3>2, <3>3, Zenon
  <2> QED BY <2>1, <2>2, Zenon DEF LoopInv
<1>7. CASE ProxyTimer
  BY <1>a, <1>7, Zenon DEF ProxyTimer, LoopInv
<1>8. CASE PopResponse
  <2>1. m_resp' \in [uuid : Uuids, pdu : Pdus \cup {NULL}]
    BY Zenon, <1>a, <1>8, HeadTail DEF PopResponse, TypeOK
  <2> QED BY <1>a, <1>8, <2>1, Zenon DEF PopResponse, LoopInv
<1>9. CASE DeliverResponse
  BY <1>a, <1>9, Zenon DEF DeliverResponse, LoopInv
<1>10. ASSUME NEW w \in Workers, Worker(w) PROVE LoopInv'
  BY <1>a, <1>10, Zenon DEF Worker, PopTask, Run, LoopInv
<1>11. CASE UNCHANGED vars
  BY <1>a, <1>11, Zenon DEF vars, LoopInv
<1> QED
  BY <1>1, <1>2, <1>3, <1>4, <1>5, <1>6, <1>7, <1>8, <1>9, <1>10, <1>11, Zenon
     DEF Next, EventLoop

-----------------------------------------------------------------------------
\* A step that sends e on connection c: what every connection was sent, before and after it.
LEMMA SentAppend ==
  ASSUME TypeOK, NEW c \in Conns, NEW e \in Pdus,
         sent' = [sent EXCEPT ![c] = Append(@, e)]
  PROVE  \A d \in Conns : \A i \in 1 .. Len(sent'[d]) :
            (d = c /\ sent'[d][i] = e) \/ (i \in 1 .. Len(sent[d]) /\ sent'[d][i] = sent[d][i])
<1> SUFFICES ASSUME NEW d \in Conns, NEW i \in 1 .. Len(sent'[d])
             PROVE  (d = c /\ sent'[d][i] = e) \/ (i \in 1 .. Len(sent[d]) /\ sent'[d][i] = sent[d][i])
  BY Zenon
<1>1. CASE d # c
  <2>1. sent'[d] = sent[d]
    BY <1>1, Zenon DEF TypeOK
  <2> QED BY Zenon, <2>1
<1>2. CASE d = c
  <2>1. sent[c] \in Seq(Pdus) /\ sent'[c] = Append(sent[c], e)
    BY Zenon DEF TypeOK
  <2>2. /\ Len(sent[c]) \in Nat /\ Len(sent'[c]) = Len(sent[c]) + 1
        /\ sent'[c][Len(sent[c]) + 1] = e
        /\ \A j \in 1 .. Len(sent[c]) : sent'[c][j] = sent[c][j]
    <3> DEFINE q == sent[c]
    <3>1. /\ Len(q) \in Nat /\ Len(Append(q, e)) = Len(q) + 1
          /\ Append(q, e)[Len(q) + 1] = e
          /\ \A j \in 1 .. Len(q) : Append(q, e)[j] = q[j]
      <4>1. q \in Seq(Pdus)
        BY <2>1, Zenon
      <4> HIDE DEF q
      <4> QED BY <4>1, AppendFacts
    <3> QED BY <2>1, <3>1, Zenon
  <2>3. i \in 1 .. Len(sent[c]) \/ i = Len(sent[c]) + 1
    BY <1>2, <2>2
  <2>4. CASE i \in 1 .. Len(sent[c])
    BY <1>2, <2>2, <2>4, Zenon
  <2>5. CASE i = Len(sent[c]) + 1
    <3>1. sent'[d][i] = sent'[c][Len(sent[c]) + 1]
      BY <1>2, <2>5, Zenon
    <3>2. sent'[c][Len(sent[c]) + 1] = e
      BY Zenon, <2>2
    <3>3. sent'[d][i] = e
      BY Zenon, <3>1, <3>2
    <3> QED BY Zenon, <1>2, <3>3
  <2> QED BY <2>3, <2>4, <2>5, Zenon
<1> QED BY <1>1, <1>2, Zenon

\* The connection a response is about to be written to is an accepted one, and the uuid
\* under which get_proxy_conn_by_uuid found it is its own.
LEMMA ResponseConn ==
  ASSUME Inv, pc = "deliver", g_uuid_conn_map[m_resp.uuid] # NoConn
  PROVE  LET c == g_uuid_conn_map[m_resp.uuid]
         IN  c \in Conns /\ c \in 1 .. accepted /\ c <= accepted /\ m_uuid[c] = m_resp.uuid
<1> DEFINE c == g_uuid_conn_map[m_resp.uuid]
<1>1. m_resp.uuid \in Uuids
  BY Zenon DEF Inv, LoopInv
<1>2. c \in Conns /\ accepted \in Nat
  BY <1>1 DEF Inv, TypeOK
<1>3. status[c] = "open" /\ m_uuid[c] = m_resp.uuid
  BY <1>1, Zenon DEF Inv, MapsMatchConns
<1> HIDE DEF c
<1>4. ~(c > accepted)
  BY <1>2, <1>3, Zenon DEF Inv, ConnInv
<1>5. c \in 1 .. accepted /\ c <= accepted
  BY <1>2, <1>4 DEF Conns
<1> QED BY <1>2, <1>3, <1>5, Zenon DEF c

\* What is known about a PDU or a connection stays true: requests are only added,
\* and an accepted connection keeps its uuid.
LEMMA HistoryStep ==
    ASSUME Inv, [Next]_vars
    PROVE  /\ \A c \in 1 .. accepted : c \in 1 .. accepted' /\ m_uuid'[c] = m_uuid[c]
           /\ \A r \in 1 .. Len(request) :
                 r \in 1 .. Len(request') /\ request'[r] = request[r]
           /\ \A r : Known(r) => Known(r)' /\ From(r)' = From(r)
           /\ \A x : Tagged(x) => Tagged(x)'
<1>a. TypeOK /\ ConnInv
  BY Zenon DEF Inv
<1>1. \A c \in 1 .. accepted : c \in 1 .. accepted' /\ m_uuid'[c] = m_uuid[c]
  <2>1. CASE UNCHANGED connVars
    BY <2>1, Zenon DEF connVars
  <2>2. ASSUME NEW h \in Handles, OnConnect(h)
        PROVE  \A c \in 1 .. accepted : c \in 1 .. accepted' /\ m_uuid'[c] = m_uuid[c]
    BY <1>a, <2>2 DEF OnConnect, TypeOK, Conns
  <2> QED BY <2>1, <2>2, ConnStep, Zenon
<1>2. \A r \in 1 .. Len(request) : r \in 1 .. Len(request') /\ request'[r] = request[r]
  <2>1. CASE UNCHANGED request
    BY <2>1, Zenon
  <2>2. ASSUME NEW c \in Conns, NEW kind \in Kinds, PeerSend(c, kind)
        PROVE  \A r \in 1 .. Len(request) :
                  r \in 1 .. Len(request') /\ request'[r] = request[r]
    <3>1. request' = Append(request, [conn |-> c, kind |-> kind])
      BY <2>2, Zenon DEF PeerSend
    <3>2. [conn |-> c, kind |-> kind] \in [conn : Conns, kind : Kinds]
      BY Zenon
    <3>3. request \in Seq([conn : Conns, kind : Kinds])
      BY <1>a, Zenon DEF TypeOK
    <3> QED BY <3>1, <3>2, <3>3, AppendFacts
  <2>3. UNCHANGED request \/ \E c \in Conns, kind \in Kinds : PeerSend(c, kind)
    BY Zenon DEF Next, Environment, EventLoop, Worker, PeerGone, Elapse, EpollWait,
           OnConnect, OnRead, EndOfEvent, HandlePduBuf, ProxyTimer, PopResponse,
           DeliverResponse, EndOfLoop, ExitCallback, SigHandler, PopTask, Run, vars
  <2> QED BY <2>1, <2>2, <2>3, Zenon
<1>3. \A r : Known(r) => Known(r)' /\ From(r)' = From(r)
  BY <1>1, <1>2, Zenon DEF Known, From
<1>4. \A x : Tagged(x) => Tagged(x)'
  BY <1>1, <1>3 DEF Tagged, Known
<1> QED BY Zenon, <1>1, <1>2, <1>3, <1>4

\* Whatever a step leaves in its place keeps its tag.
LEMMA FlightFrame ==
    ASSUME Inv, [Next]_vars
    PROVE  /\ UNCHANGED request => RequestsKnown'
           /\ UNCHANGED inbox => InboxKnown'
           /\ UNCHANGED <<m_in_buf, reading>> => BufferKnown'
           /\ UNCHANGED m_task_list => TasksTagged'
           /\ UNCHANGED running => RunningTagged'
           /\ UNCHANGED s_response_pdu_list => ListTagged'
           /\ UNCHANGED m_resp => ResponseTagged'
           /\ UNCHANGED sent => SentKnown'
<1>a. FlightInv /\ TypeOK
  BY Zenon DEF Inv
<1>b. /\ \A c \in 1 .. accepted : c \in 1 .. accepted'
      /\ \A r : Known(r) => Known(r)' /\ From(r)' = From(r)
      /\ \A x : Tagged(x) => Tagged(x)'
  BY HistoryStep, Zenon
<1>1. UNCHANGED request => RequestsKnown'
  BY <1>a, <1>b, Zenon DEF FlightInv, RequestsKnown, From
<1>2. UNCHANGED inbox => InboxKnown'
  BY <1>a, <1>b, Zenon DEF FlightInv, InboxKnown
<1>3. UNCHANGED <<m_in_buf, reading>> => BufferKnown'
  BY <1>a, <1>b, Zenon DEF FlightInv, BufferKnown
<1>4. UNCHANGED m_task_list => TasksTagged'
  BY <1>a, <1>b, Zenon DEF FlightInv, TasksTagged
<1>5. UNCHANGED running => RunningTagged'
  BY <1>a, <1>b, Zenon DEF FlightInv, RunningTagged
<1>6. UNCHANGED s_response_pdu_list => ListTagged'
  BY <1>a, <1>b, Zenon DEF FlightInv, ListTagged
<1>7. UNCHANGED m_resp => ResponseTagged'
  BY <1>a, <1>b, Zenon DEF FlightInv, ResponseTagged
<1>8. UNCHANGED sent => SentKnown'
  <2> SUFFICES ASSUME UNCHANGED sent, NEW c \in Conns, NEW i \in 1 .. Len(sent[c])
               PROVE  Known(sent[c][i])' /\ c <= accepted'
    BY Zenon DEF SentKnown
  <2>1. Known(sent[c][i]) /\ c <= accepted
    BY <1>a, Zenon DEF FlightInv, SentKnown
  <2>2. c \in 1 .. accepted
    BY <1>a, <2>1 DEF TypeOK, Conns
  <2>3. c \in 1 .. accepted'
    BY <1>b, <2>2, Zenon
  <2>4. c <= accepted'
    BY <2>3
  <2> QED BY <1>b, <2>1, <2>4, Zenon
<1> QED BY <1>1, <1>2, <1>3, <1>4, <1>5, <1>6, <1>7, <1>8, Zenon

\* Everything in flight carries the uuid of the connection its request came from.
LEMMA FlightStep == Inv /\ [Next]_vars => FlightInv'
<1> SUFFICES ASSUME Inv, [Next]_vars PROVE FlightInv'
  BY Zenon
<1>a. TypeOK /\ FlightInv /\ LoopInv /\ ConnInv /\ MapsMatchConns
  BY Zenon DEF Inv
<1>b. /\ \A c \in 1 .. accepted : c \in 1 .. accepted' /\ m_uuid'[c] = m_uuid[c]
      /\ \A r \in 1 .. Len(request) :
            r \in 1 .. Len(request') /\ request'[r] = request[r]
      /\ \A x : Tagged(x) => Tagged(x)'
  BY HistoryStep, Zenon
<1>c. ASSUME NEW S, Close(S) PROVE InboxKnown'
  BY <1>a, <1>b, <1>c, SMTT(40) DEF FlightInv, InboxKnown, Known, From, Close
<1> USE DEF connVars, mapVars, kernVars, mainVars, poolVars
<1>1. ASSUME NEW c \in Conns, NEW kind \in Kinds, PeerSend(c, kind) PROVE FlightInv'
  <2> DEFINE new == Len(request) + 1
             rec == [conn |-> c, kind |-> kind]
  <2>1. c \in 1 .. accepted /\ accepted' = accepted
    BY <1>a, <1>1, SMTT(40) DEF PeerSend, ConnInv, TypeOK, Conns
  <2>2. /\ request' = Append(request, rec)
        /\ inbox' = [inbox EXCEPT ![c] = Append(@, new)]
    BY Zenon, <1>1 DEF PeerSend
  <2>3. /\ Len(request) \in Nat /\ Len(request') = new
        /\ request'[new] = rec /\ \A r \in 1 .. Len(request) : request'[r] = request[r]
    <3>1. rec \in [conn : Conns, kind : Kinds]
      BY Zenon
    <3>2. request \in Seq([conn : Conns, kind : Kinds])
      BY <1>a, Zenon DEF TypeOK
    <3> QED BY <2>2, <3>1, <3>2, AppendFacts
  <2>4. RequestsKnown'
    BY <1>a, <2>1, <2>3 DEF FlightInv, RequestsKnown, From
  <2>5. InboxKnown'
    <3>1. /\ inbox[c] \in Seq(Pdus) /\ new \in Pdus
      BY <1>a, <1>1, NextPdu, Zenon DEF PeerSend, TypeOK
    <3>2. /\ inbox'[c] = Append(inbox[c], new)
          /\ \A d \in Conns : d # c => inbox'[d] = inbox[d]
      BY <1>a, <2>2, Zenon DEF TypeOK
    <3>3. /\ Len(inbox[c]) \in Nat /\ Len(inbox'[c]) = Len(inbox[c]) + 1
          /\ inbox'[c][Len(inbox[c]) + 1] = new
          /\ \A i \in 1 .. Len(inbox[c]) : inbox'[c][i] = inbox[c][i]
      BY <3>1, <3>2, AppendFacts, SMTT(40)
    <3>4. ASSUME NEW d \in Conns, NEW i \in 1 .. Len(inbox'[d])
          PROVE  /\ inbox'[d][i] \in 1 .. Len(request')
                 /\ request'[inbox'[d][i]].conn = d /\ d \in 1 .. accepted'
      <4>1. CASE d = c /\ i = Len(inbox[c]) + 1
        <5>1. inbox'[d][i] = new
          BY Zenon, <3>3, <4>1
        <5> QED BY <2>1, <2>3, <4>1, <5>1, SMTT(40)
      <4>2. CASE ~(d = c /\ i = Len(inbox[c]) + 1)
        <5>1. i \in 1 .. Len(inbox[d]) /\ inbox'[d][i] = inbox[d][i]
          <6>1. CASE d # c
            BY Zenon, <3>2, <6>1
          <6>2. CASE d = c
            <7>1. i \in 1 .. Len(inbox[c])
              BY <3>3, <4>2, <6>2
            <7> QED BY Zenon, <3>3, <6>2, <7>1
          <6> QED BY <6>1, <6>2, Zenon
        <5>2. /\ inbox[d][i] \in 1 .. Len(request) /\ request[inbox[d][i]].conn = d
              /\ d \in 1 .. accepted
          BY <1>a, <5>1, Zenon DEF FlightInv, InboxKnown, Known, From
        <5> QED BY <1>b, <5>1, <5>2, Zenon
      <4> QED BY <4>1, <4>2, Zenon
    <3> QED BY Zenon, <3>4 DEF InboxKnown, Known, From
  <2> QED BY <1>1, <2>4, <2>5, FlightFrame, Zenon DEF PeerSend, FlightInv
<1>2. ASSUME NEW c \in Conns,
             Elapse(c) \/ \E how \in {"fin", "reset"} : PeerGone(c, how)
      PROVE  FlightInv'
  BY <1>2, FlightFrame, Zenon DEF Elapse, PeerGone, FlightInv
<1>3. CASE EpollWait \/ EndOfLoop \/ ExitCallback \/ SigHandler
  BY <1>3, FlightFrame, Zenon DEF EpollWait, EndOfLoop, ExitCallback, SigHandler, FlightInv
<1>4. ASSUME NEW h \in Handles, OnConnect(h) PROVE FlightInv'
  BY <1>4, FlightFrame, Zenon DEF OnConnect, FlightInv
<1>5. ASSUME NEW h \in Handles, OnRead(h) PROVE FlightInv'
  <2> DEFINE c == g_proxy_conn_map[h]
  <2>1. CASE c = NoConn \/ inbox[c] = <<>>
    <3>1. Close({c} \ {NoConn}) /\ UNCHANGED <<reading, m_in_buf>>
      BY <1>5, <2>1, Zenon DEF OnRead
    <3> QED BY <1>5, <1>c, <3>1, FlightFrame, Zenon DEF OnRead, FlightInv
  <2>2. CASE ~(c = NoConn \/ inbox[c] = <<>>)
    <3>1. c \in Conns
      BY <1>a, <2>2, Zenon DEF TypeOK
    <3>2. /\ m_in_buf' = inbox[c] /\ reading' = c
          /\ inbox' = [inbox EXCEPT ![c] = <<>>]
      BY Zenon, <1>5, <2>2 DEF OnRead
    <3>3. BufferKnown'
      <4> SUFFICES ASSUME NEW i \in 1 .. Len(m_in_buf'), NEW r, r = m_in_buf'[i]
                   PROVE  Known(r)' /\ From(r)' = reading'
        BY Zenon DEF BufferKnown
      <4>1. Known(r) /\ From(r) = c
        BY <1>a, <3>1, <3>2, Zenon DEF FlightInv, InboxKnown
      <4> HIDE DEF c
      <4> QED BY Zenon, <1>b, <3>2, <4>1 DEF Known, From
    <3>4. InboxKnown'
      <4>1. \A d \in Conns : inbox'[d] = inbox[d] \/ inbox'[d] = <<>>
        BY <1>a, <3>2, Zenon DEF TypeOK
      <4>2. \A d \in Conns : \A i \in 1 .. Len(inbox'[d]) : inbox'[d] = inbox[d]
        BY <4>1
      <4> SUFFICES ASSUME NEW d \in Conns, NEW i \in 1 .. Len(inbox'[d]), NEW r,
                          r = inbox'[d][i]
                   PROVE  Known(r)' /\ From(r)' = d
        BY Zenon DEF InboxKnown
      <4>3. Known(r) /\ From(r) = d
        BY <1>a, <4>2, Zenon DEF FlightInv, InboxKnown
      <4> QED BY <1>b, <4>3, Zenon DEF Known, From
    <3> QED BY Zenon, <1>5, <3>3, <3>4, FlightFrame DEF OnRead, FlightInv
  <2> QED BY <2>1, <2>2, Zenon
<1>6. ASSUME NEW h \in Handles, EndOfEvent(h) PROVE FlightInv'
  <2>1. InboxKnown'
    BY <1>6, <1>c, Zenon DEF EndOfEvent
  <2>2. BufferKnown'
    <3>1. m_in_buf' = <<>>
      BY <1>6, Zenon DEF EndOfEvent
    <3>2. 1 .. Len(m_in_buf') = {}
      BY <3>1
    <3> QED BY <3>2, Zenon DEF BufferKnown
  <2> QED BY <1>6, <2>1, <2>2, FlightFrame, Zenon DEF EndOfEvent, FlightInv
<1>8. CASE ProxyTimer
  <2>1. InboxKnown'
    BY <1>8, <1>c, Zenon DEF ProxyTimer
  <2> QED BY <1>8, <2>1, FlightFrame, Zenon DEF ProxyTimer, FlightInv
<1>7. ASSUME NEW w \in Workers, HandlePduBuf(w) PROVE FlightInv'
  <2> DEFINE pdu == Head(m_in_buf)
             task == [uuid |-> m_uuid[reading], pdu |-> pdu]
  <2>1. /\ pc = "read" /\ m_in_buf # <<>> /\ m_in_buf \in Seq(Pdus)
        /\ UNCHANGED <<connVars, request, sent, reading, m_resp, running,
                       s_response_pdu_list>>
    BY <1>a, <1>7, Zenon DEF HandlePduBuf, TypeOK
  <2>2. /\ pdu = m_in_buf[1] /\ 1 \in 1 .. Len(m_in_buf)
        /\ Len(Tail(m_in_buf)) = Len(m_in_buf) - 1
        /\ \A i \in 1 .. Len(Tail(m_in_buf)) :
              i + 1 \in 1 .. Len(m_in_buf) /\ Tail(m_in_buf)[i] = m_in_buf[i + 1]
    BY <2>1, HeadTail, Zenon
  <2>3. /\ RequestsKnown' /\ RunningTagged' /\ ListTagged' /\ ResponseTagged'
        /\ SentKnown'
    BY <2>1, FlightFrame, Zenon
  <2>4. m_in_buf' \in {<<>>, Tail(m_in_buf)}
    <3>1. CASE request[pdu].kind = "malformed"
      BY <1>7, <3>1, Zenon DEF HandlePduBuf
    <3>2. CASE request[pdu].kind = "ignored"
      BY <1>7, <3>2, Zenon DEF HandlePduBuf
    <3>3. CASE request[pdu].kind \notin {"malformed", "ignored"}
      BY <1>7, <3>3, Zenon DEF HandlePduBuf
    <3> QED BY <3>1, <3>2, <3>3, Zenon
  <2>5. BufferKnown'
    <3>1. CASE m_in_buf' = <<>>
      BY <3>1 DEF BufferKnown
    <3>2. CASE m_in_buf' = Tail(m_in_buf)
      BY <1>a, <2>1, <2>2, <3>2, Zenon DEF FlightInv, BufferKnown, Known, From, connVars
    <3> QED BY <2>4, <3>1, <3>2, Zenon
  <2>6. InboxKnown' /\ TasksTagged'
    <3>1. CASE request[pdu].kind = "malformed"
      <4>1. Close({reading}) /\ UNCHANGED m_task_list
        BY <1>7, <3>1, Zenon DEF HandlePduBuf
      <4> QED BY <1>c, <4>1, FlightFrame, Zenon
    <3>2. CASE request[pdu].kind = "ignored"
      <4>1. UNCHANGED <<kernVars, m_task_list>>
        BY <1>7, <3>2, Zenon DEF HandlePduBuf
      <4> QED BY <4>1, FlightFrame, Zenon DEF kernVars
    <3>3. CASE request[pdu].kind \notin {"malformed", "ignored"}
      <4>1. /\ m_task_list' = [m_task_list EXCEPT ![w] = Append(@, task)]
            /\ UNCHANGED kernVars
        BY <1>7, <3>3, Zenon DEF HandlePduBuf
      <4>2. InboxKnown'
        BY <4>1, FlightFrame, Zenon DEF kernVars
      <4>3. Known(pdu) /\ From(pdu) = reading
        BY <1>a, <2>2, Zenon DEF FlightInv, BufferKnown
      <4>4. Tagged(task)
        BY <4>3, Zenon DEF Tagged
      <4>5. task \in InFlight
        <5>1. m_uuid[reading] \in Uuids
          BY <1>a, <2>1, Zenon DEF LoopInv, Inv, UuidWindow
        <5>2. pdu \in Pdus
          BY <2>1, HeadTail, Zenon
        <5> QED BY <5>1, <5>2, Zenon DEF InFlight
      <4>6. m_task_list[w] \in Seq(InFlight)
        BY <1>a, Zenon DEF TypeOK
      <4>7. /\ m_task_list'[w] = Append(m_task_list[w], task)
            /\ \A v \in Workers : v # w => m_task_list'[v] = m_task_list[v]
        BY <1>a, <4>1, Zenon DEF TypeOK
      <4> HIDE DEF task
      <4>8. /\ Len(m_task_list[w]) \in Nat
            /\ Len(m_task_list'[w]) = Len(m_task_list[w]) + 1
            /\ m_task_list'[w][Len(m_task_list[w]) + 1] = task
            /\ \A i \in 1 .. Len(m_task_list[w]) : m_task_list'[w][i] = m_task_list[w][i]
        BY <4>5, <4>6, <4>7, AppendFacts
      <4>9. TasksTagged'
        <5> SUFFICES ASSUME NEW v \in Workers, NEW i \in 1 .. Len(m_task_list'[v]),
                            NEW x, x = m_task_list'[v][i]
                     PROVE  Tagged(x)'
          BY Zenon DEF TasksTagged
        <5>1. CASE v = w /\ i = Len(m_task_list[w]) + 1
          <6>1. x = task
            BY <4>8, <5>1, Zenon
          <6> QED BY <1>b, <4>4, <6>1, Zenon
        <5>2. CASE ~(v = w /\ i = Len(m_task_list[w]) + 1)
          <6>1. i \in 1 .. Len(m_task_list[v]) /\ x = m_task_list[v][i]
            <7>1. CASE v # w
              BY Zenon, <4>7, <7>1
            <7>2. CASE v = w
              <8>1. i \in 1 .. Len(m_task_list[w])
                BY <4>8, <5>2, <7>2
              <8> QED BY Zenon, <4>8, <7>2, <8>1
            <7> QED BY <7>1, <7>2, Zenon
          <6> QED BY <1>a, <1>b, <6>1, Zenon DEF FlightInv, TasksTagged
        <5> QED BY <5>1, <5>2, Zenon
      <4> QED BY <4>2, <4>9, Zenon
    <3> QED BY <3>1, <3>2, <3>3, Zenon
  <2> QED BY <2>3, <2>5, <2>6, Zenon DEF FlightInv
<1>9. CASE PopResponse
  <2> DEFINE q == s_response_pdu_list
  <2>1. /\ q # <<>> /\ m_resp' = Head(q) /\ q' = Tail(q)
        /\ q \in Seq([uuid : Uuids, pdu : Pdus \cup {NULL}])
    BY <1>a, <1>9, Zenon DEF PopResponse, TypeOK
  <2>2. /\ m_resp' = q[1] /\ 1 \in 1 .. Len(q)
        /\ \A i \in 1 .. Len(q') : i + 1 \in 1 .. Len(q) /\ q'[i] = q[i + 1]
    BY <2>1, HeadTail, Zenon
  <2>3. \A i \in 1 .. Len(q) : q[i].pdu # NULL => Tagged(q[i])
    BY <1>a, Zenon DEF FlightInv, ListTagged
  <2>4. UNCHANGED <<connVars, request>>
    BY <1>9, Zenon DEF PopResponse
  <2>5. ResponseTagged'
    BY <2>2, <2>3, <2>4, Zenon DEF ResponseTagged, Tagged, Known, From
  <2>6. ListTagged'
    <3> SUFFICES ASSUME NEW i \in 1 .. Len(q'), NEW x, x = q'[i], x.pdu # NULL
                 PROVE  Tagged(x)'
      BY Zenon DEF ListTagged
    <3>1. Tagged(x)
      BY <2>2, <2>3, Zenon
    <3> QED BY <1>b, <3>1, Zenon
  <2> QED BY <1>9, <2>5, <2>6, FlightFrame, Zenon DEF PopResponse, FlightInv
<1>10. CASE DeliverResponse
  <2> DEFINE c == g_uuid_conn_map[m_resp.uuid]
  <2>1. ResponseTagged'
    BY <1>10, Zenon DEF DeliverResponse, ResponseTagged, NoTask
  <2>2. CASE c # NoConn /\ m_resp.pdu # NULL
    <3>1. /\ sent' = [sent EXCEPT ![c] = Append(@, m_resp.pdu)]
          /\ UNCHANGED <<connVars, request, kernVars>>
      BY <1>10, <2>2, Zenon DEF DeliverResponse
    <3>2. Known(m_resp.pdu) /\ m_resp.pdu \in Pdus
      BY <1>a, <2>2 DEF FlightInv, ResponseTagged, Tagged, Known, TypeOK, Pdus, NoTask
    <3>3. c \in Conns /\ c <= accepted
      BY <1>10, <2>2, ResponseConn, Zenon DEF DeliverResponse
    <3> HIDE DEF c
    <3>4. \A d \in Conns : \A i \in 1 .. Len(sent'[d]) :
             \/ d = c /\ sent'[d][i] = m_resp.pdu
             \/ i \in 1 .. Len(sent[d]) /\ sent'[d][i] = sent[d][i]
      <4> DEFINE e == m_resp.pdu
      <4>1. TypeOK /\ c \in Conns /\ e \in Pdus /\ sent' = [sent EXCEPT ![c] = Append(@, e)]
        BY <1>a, <3>1, <3>2, <3>3, Zenon
      <4>2. \A d \in Conns : \A i \in 1 .. Len(sent'[d]) :
               (d = c /\ sent'[d][i] = e) \/ (i \in 1 .. Len(sent[d]) /\ sent'[d][i] = sent[d][i])
        <5> HIDE DEF e
        <5> QED BY Zenon, <4>1, SentAppend
      <4> QED BY <4>2, Zenon
    <3>5. SentKnown'
      <4> SUFFICES ASSUME NEW d \in Conns, NEW i \in 1 .. Len(sent'[d]),
                          NEW r, r = sent'[d][i]
                   PROVE  Known(r)' /\ d <= accepted'
        BY Zenon DEF SentKnown
      <4>1. Known(r) /\ d <= accepted
        BY <1>a, <3>2, <3>3, <3>4, Zenon DEF FlightInv, SentKnown
      <4> QED BY <3>1, <4>1, Zenon DEF Known, From, connVars
    <3> QED BY <1>10, <2>1, <3>1, <3>5, FlightFrame, Zenon DEF DeliverResponse, FlightInv
  <2>3. CASE ~(c # NoConn /\ m_resp.pdu # NULL)
    <3>1. Close({c} \ {NoConn}) /\ UNCHANGED sent
      BY <1>10, <2>3, Zenon DEF DeliverResponse
    <3>2. InboxKnown'
      BY <1>c, <3>1, Zenon
    <3> QED BY <1>10, <2>1, <3>1, <3>2, FlightFrame, Zenon DEF DeliverResponse, FlightInv
  <2> QED BY <2>2, <2>3, Zenon
<1>11. ASSUME NEW w \in Workers, PopTask(w) PROVE FlightInv'
  <2> DEFINE q == m_task_list[w]
  <2>1. q # <<>> /\ q \in Seq(InFlight)
    BY <1>a, <1>11, Zenon DEF PopTask, TypeOK
  <2>2. /\ Head(q) = q[1] /\ 1 \in 1 .. Len(q)
        /\ \A i \in 1 .. Len(Tail(q)) : i + 1 \in 1 .. Len(q) /\ Tail(q)[i] = q[i + 1]
    <3> HIDE DEF q
    <3> QED BY <2>1, HeadTail, Zenon
  <2>3. /\ m_task_list'[w] = Tail(q) /\ running'[w] = Head(q)
        /\ \A v \in Workers : v # w => /\ m_task_list'[v] = m_task_list[v]
                                        /\ running'[v] = running[v]
    BY <1>a, <1>11, Zenon DEF PopTask, TypeOK
  <2>4. UNCHANGED <<connVars, request>>
    BY <1>11, Zenon DEF PopTask
  <2>5. RunningTagged'
    <3>1. Tagged(q[1])
      BY <1>a, <2>2, Zenon DEF FlightInv, TasksTagged
    <3> SUFFICES ASSUME NEW v \in Workers, running'[v] # NoTask, NEW x, x = running'[v]
                 PROVE  Tagged(x)'
      BY Zenon DEF RunningTagged
    <3>2. CASE v = w
      <4>1. x = q[1]
        BY <2>2, <2>3, <3>2, Zenon
      <4> HIDE DEF q
      <4> QED BY <1>b, <3>1, <4>1, Zenon
    <3>3. CASE v # w
      <4>1. x = running[v] /\ running[v] # NoTask
        BY <2>3, <3>3, Zenon
      <4> QED BY <1>a, <1>b, <4>1, Zenon DEF FlightInv, RunningTagged
    <3> QED BY <3>2, <3>3, Zenon
  <2>6. TasksTagged'
    <3> SUFFICES ASSUME NEW v \in Workers, NEW i \in 1 .. Len(m_task_list'[v]),
                        NEW x, x = m_task_list'[v][i]
                 PROVE  Tagged(x)'
      BY Zenon DEF TasksTagged
    <3>1. \E j \in 1 .. Len(m_task_list[v]) : x = m_task_list[v][j]
      <4>1. CASE v = w
        <5>1. i + 1 \in 1 .. Len(m_task_list[v]) /\ x = m_task_list[v][i + 1]
          BY Zenon, <2>2, <2>3, <4>1
        <5> QED BY <5>1, Zenon
      <4>2. CASE v # w
        BY <2>3, <4>2, Zenon
      <4> QED BY <4>1, <4>2, Zenon
    <3> QED BY <1>a, <1>b, <3>1, Zenon DEF FlightInv, TasksTagged
  <2> QED BY <1>11, <2>5, <2>6, FlightFrame, Zenon DEF PopTask, FlightInv
<1>12. ASSUME NEW w \in Workers, Run(w) PROVE FlightInv'
  <2> DEFINE q == s_response_pdu_list
             e == [uuid |-> running[w].uuid,
                   pdu  |-> IF request[running[w].pdu].kind = "request"
                            THEN running[w].pdu ELSE NULL]
  <2>1. q' = Append(q, e) /\ UNCHANGED <<connVars, request>>
    BY <1>12, Zenon DEF Run
  <2>2. e.pdu # NULL => Tagged(e)
    BY <1>a, <1>12, Zenon DEF Run, FlightInv, RunningTagged, Tagged
  <2>3. e \in [uuid : Uuids, pdu : Pdus \cup {NULL}]
    <3>1. running[w] \in InFlight
      BY <1>a, <1>12, Zenon DEF TypeOK, Run
    <3> QED BY <3>1, Zenon DEF InFlight
  <2>4. q \in Seq([uuid : Uuids, pdu : Pdus \cup {NULL}])
    BY <1>a, Zenon DEF TypeOK
  <2> HIDE DEF e
  <2>5. /\ Len(q) \in Nat /\ Len(q') = Len(q) + 1 /\ q'[Len(q) + 1] = e
        /\ \A i \in 1 .. Len(q) : q'[i] = q[i]
    <3>1. /\ Len(q) \in Nat /\ Len(Append(q, e)) = Len(q) + 1
          /\ Append(q, e)[Len(q) + 1] = e
          /\ \A i \in 1 .. Len(q) : Append(q, e)[i] = q[i]
      <4> HIDE DEF q
      <4> QED BY <2>3, <2>4, AppendFacts
    <3> QED BY <2>1, <3>1, Zenon
  <2>6. ListTagged'
    <3> SUFFICES ASSUME NEW i \in 1 .. Len(q'), NEW x, x = q'[i], x.pdu # NULL
                 PROVE  Tagged(x)'
      BY Zenon DEF ListTagged
    <3>1. CASE i = Len(q) + 1
      BY <2>1, <2>2, <2>5, <3>1, Zenon DEF Tagged, Known, From
    <3>2. CASE i # Len(q) + 1
      <4>1. i \in 1 .. Len(q) /\ x = q[i]
        BY <2>5, <3>2
      <4> QED BY <1>a, <1>b, <4>1, Zenon DEF FlightInv, ListTagged
    <3> QED BY <3>1, <3>2, Zenon
  <2>7. RunningTagged'
    <3>1. \A v \in Workers : running'[v] = running[v] \/ running'[v] = NoTask
      BY <1>a, <1>12, Zenon DEF Run, TypeOK
    <3> QED BY <1>a, <2>1, <3>1, Zenon DEF FlightInv, RunningTagged, Tagged, Known, From
  <2> QED BY <1>12, <2>6, <2>7, FlightFrame, Zenon DEF Run, FlightInv
<1>13. CASE UNCHANGED vars
  BY <1>13, FlightFrame, Zenon DEF vars, FlightInv
<1> QED BY <1>1, <1>2, <1>3, <1>4, <1>5, <1>6, <1>7, <1>8, <1>9, <1>10, <1>11, <1>12,
           <1>13 DEF Next, Environment, EventLoop, Worker
\* A response reaches the connection of its request, or one whose uuid is the
\* same although UuidMod - 1 connections or more lie between them.
LEMMA ReplyStep == Inv /\ [Next]_vars => ReplyToRequester'
<1> SUFFICES ASSUME Inv, [Next]_vars PROVE ReplyToRequester'
  BY Zenon
<1> DEFINE Near(c, f) == f = c \/ f - c >= UuidMod - 1 \/ c - f >= UuidMod - 1
<1>a. /\ TypeOK /\ FlightInv /\ LoopInv /\ ConnInv /\ MapsMatchConns /\ UuidDistance
      /\ ReplyToRequester
  BY Zenon DEF Inv
<1>b. \A c \in Conns : \A i \in 1 .. Len(sent[c]) :
         /\ sent[c][i] \in 1 .. Len(request)
         /\ Near(c, request[sent[c][i]].conn)
  BY Zenon, <1>a DEF FlightInv, SentKnown, Known, ReplyToRequester
<1>c. \A r \in 1 .. Len(request) : r \in 1 .. Len(request') /\ request'[r] = request[r]
  BY Zenon, HistoryStep
<1>1. CASE UNCHANGED sent
  BY Zenon, <1>b, <1>c, <1>1 DEF ReplyToRequester
<1>2. CASE DeliverResponse /\ sent' # sent
  <2> DEFINE c == g_uuid_conn_map[m_resp.uuid]
             f == From(m_resp.pdu)
  <2>1. /\ pc = "deliver" /\ c # NoConn /\ m_resp.pdu # NULL
        /\ sent' = [sent EXCEPT ![c] = Append(@, m_resp.pdu)] /\ UNCHANGED request
    BY Zenon, <1>2 DEF DeliverResponse
  <2>2. c \in 1 .. accepted /\ m_uuid[c] = m_resp.uuid /\ c \in Conns
    BY <2>1, ResponseConn, Zenon
  <2>3. f \in 1 .. accepted /\ m_uuid[f] = m_resp.uuid
    BY <1>a, <2>1, Zenon DEF FlightInv, ResponseTagged, Tagged, Known
  <2>4. Near(c, f)
    <3>1. accepted \in Nat
      BY <1>a DEF TypeOK
    <3> HIDE DEF c, f
    <3> QED BY <1>a, <2>2, <2>3, <3>1 DEF UuidDistance
  <2>5. m_resp.pdu \in Pdus
    BY <1>a, <2>1, <2>2, SMTT(40) DEF TypeOK, NoTask
  <2> HIDE DEF c
  <2>6. \A d \in Conns : \A i \in 1 .. Len(sent'[d]) :
           \/ d = c /\ sent'[d][i] = m_resp.pdu
           \/ i \in 1 .. Len(sent[d]) /\ sent'[d][i] = sent[d][i]
    <3> DEFINE e == m_resp.pdu
    <3>1. TypeOK /\ c \in Conns /\ e \in Pdus /\ sent' = [sent EXCEPT ![c] = Append(@, e)]
      BY <1>a, <2>1, <2>2, <2>5, Zenon
    <3>2. \A d \in Conns : \A i \in 1 .. Len(sent'[d]) :
             (d = c /\ sent'[d][i] = e) \/ (i \in 1 .. Len(sent[d]) /\ sent'[d][i] = sent[d][i])
      <4> HIDE DEF e
      <4> QED BY Zenon, <3>1, SentAppend
    <3> QED BY <3>2, Zenon
  <2>7. ASSUME NEW d \in Conns, NEW i \in 1 .. Len(sent'[d])
        PROVE  Near(d, request[sent'[d][i]].conn)
    <3>1. CASE d = c /\ sent'[d][i] = m_resp.pdu
      BY <2>4, <3>1, Zenon DEF From
    <3>2. CASE i \in 1 .. Len(sent[d]) /\ sent'[d][i] = sent[d][i]
      BY <1>b, <3>2, Zenon
    <3> QED BY <2>6, <3>1, <3>2, Zenon
  <2> QED BY <2>1, <2>7, Zenon DEF ReplyToRequester
<1>3. UNCHANGED sent \/ (DeliverResponse /\ sent' # sent)
  BY Zenon DEF Next, vars, Environment, EventLoop, Worker, PeerSend, PeerGone, Elapse, EpollWait,
         OnConnect, OnRead, EndOfEvent, HandlePduBuf, ProxyTimer, PopResponse, EndOfLoop,
         ExitCallback, SigHandler, PopTask, Run
<1> QED BY <1>1, <1>2, <1>3, Zenon

\* The invariant holds when run_ptp_server_business enters its event loop.
LEMMA InitInv == Init => Inv
<1> SUFFICES ASSUME Init PROVE Inv
  BY Zenon
<1>1. TypeOK
  BY DEF Init, TypeOK, Conns, NoTask, InFlight
<1>2. UuidWindow /\ UuidDistance /\ ConnInv
  BY DEF Init, UuidWindow, UuidDistance, ConnInv, Conns
<1>3. MapsMatchConns
  BY Zenon DEF Init, MapsMatchConns
<1>4. LoopInv
  BY Zenon DEF Init, LoopInv
<1>5. FlightInv
  BY SMTT(40) DEF Init, FlightInv, RequestsKnown, InboxKnown, BufferKnown, TasksTagged, RunningTagged,
         ListTagged, ResponseTagged, SentKnown, NoTask
<1>6. ReplyToRequester
  BY DEF Init, ReplyToRequester
<1> QED BY <1>1, <1>2, <1>3, <1>4, <1>5, <1>6, Zenon DEF Inv

\* The inductive invariant, from its parts.
THEOREM Invariance == Spec => []Inv
<1>1. Init => Inv
  BY InitInv, Zenon
<1>2. Inv /\ [Next]_vars => Inv'
  BY TypeStep, UuidStep, MapsStep, LoopStep, FlightStep, ReplyStep, Zenon DEF Inv
<1> QED BY <1>1, <1>2, PTL DEF Spec

\* Every variable of the business server keeps its type, through every
\* interleaving of its event loop and its workers.
THEOREM TypeCorrect == Spec => []TypeOK
<1>1. Inv => TypeOK
  BY Zenon DEF Inv
<1> QED BY <1>1, Invariance, PTL

\* The uuid allocator of CBusinessSrvConn gives no uuid twice within UuidMod - 1
\* connections, the value 0 it skips and its wrap-around included.
THEOREM UuidsFarApart == Spec => []UuidDistance
<1>1. Inv => UuidDistance
  BY Zenon DEF Inv
<1> QED BY <1>1, Invariance, PTL

\* g_proxy_conn_map and g_uuid_conn_map never lead to a connection that Close
\* released, and they lead to every open one.
THEOREM MapsAgree == Spec => []MapsMatchConns
<1>1. Inv => MapsMatchConns
  BY Zenon DEF Inv
<1> QED BY <1>1, Invariance, PTL

\* The reason BusinessSrvConn.h gives for the uuid: SendResponsePduList never
\* writes a response to a connection that merely reuses the descriptor of the
\* one that asked.
THEOREM RepliesReachRequester == Spec => []ReplyToRequester
<1>1. Inv => ReplyToRequester
  BY Zenon DEF Inv
<1> QED BY <1>1, Invariance, PTL

-----------------------------------------------------------------------------
(* Why a connection is closed.                                               *)

\* The steps that a place can change in.
LEMMA Touches ==
    ASSUME [Next]_vars
    PROVE  /\ \/ UNCHANGED <<status, inbox>>
              \/ \E S : Close(S)
              \/ UNCHANGED status /\ \E c \in Conns, kind \in Kinds : PeerSend(c, kind)
              \/ UNCHANGED inbox /\ \E h \in Handles : OnConnect(h)
              \/ UNCHANGED status /\ \E h \in Handles : OnRead(h) /\ pc' = "read"
           /\ \/ UNCHANGED <<reading, m_in_buf>>
              \/ \E h \in Handles : OnRead(h) \/ EndOfEvent(h)
              \/ \E w \in Workers : HandlePduBuf(w)
           /\ UNCHANGED m_task_list \/ \E w \in Workers : HandlePduBuf(w) \/ PopTask(w)
           /\ UNCHANGED running \/ \E w \in Workers : PopTask(w) \/ Run(w)
           /\ UNCHANGED s_response_pdu_list \/ PopResponse \/ \E w \in Workers : Run(w)
           /\ UNCHANGED m_resp \/ PopResponse \/ DeliverResponse
           /\ UNCHANGED sent \/ DeliverResponse
<1>. USE DEF vars, connVars, mapVars, kernVars, mainVars, poolVars
<1>0. \/ Next \/ UNCHANGED vars
  BY Zenon
<1>1. ASSUME NEW c \in Conns, NEW kind \in Kinds, PeerSend(c, kind)
      PROVE  UNCHANGED <<status, reading, m_in_buf, m_task_list, running, s_response_pdu_list,
                         m_resp, sent>>
  BY <1>1, Zenon DEF PeerSend
<1>2. ASSUME NEW c \in Conns, Elapse(c) \/ \E how \in {"fin", "reset"} : PeerGone(c, how)
      PROVE  UNCHANGED <<status, inbox, reading, m_in_buf, m_task_list, running,
                         s_response_pdu_list, m_resp, sent>>
  BY <1>2, Zenon DEF Elapse, PeerGone
<1>3. ASSUME EpollWait \/ EndOfLoop \/ ExitCallback \/ SigHandler \/ UNCHANGED vars
      PROVE  UNCHANGED <<status, inbox, reading, m_in_buf, m_task_list, running,
                         s_response_pdu_list, m_resp, sent>>
  BY <1>3, Zenon DEF EpollWait, EndOfLoop, ExitCallback, SigHandler
<1>4. ASSUME NEW h \in Handles, OnConnect(h)
      PROVE  UNCHANGED <<inbox, reading, m_in_buf, m_task_list, running,
                         s_response_pdu_list, m_resp, sent>>
  BY <1>4, Zenon DEF OnConnect
<1>5. ASSUME NEW h \in Handles, OnRead(h)
      PROVE  /\ UNCHANGED <<m_task_list, running, s_response_pdu_list, m_resp, sent>>
             /\ (\E S : Close(S)) \/ (UNCHANGED status /\ pc' = "read")
  <2>1. UNCHANGED <<m_task_list, running, s_response_pdu_list, m_resp, sent>>
    BY <1>5, Zenon DEF OnRead
  <2>2. CASE g_proxy_conn_map[h] = NoConn \/ inbox[g_proxy_conn_map[h]] = <<>>
    <3>1. Close({g_proxy_conn_map[h]} \ {NoConn})
      BY <1>5, <2>2, Zenon DEF OnRead
    <3>2. \E S : Close(S)
      BY <3>1, Zenon
    <3>. QED
      BY <2>1, <3>2, Zenon
  <2>3. CASE ~(g_proxy_conn_map[h] = NoConn \/ inbox[g_proxy_conn_map[h]] = <<>>)
    <3>1. UNCHANGED status /\ pc' = "read"
      BY <1>5, <2>3, Zenon DEF OnRead
    <3>. QED
      BY <2>1, <3>1, Zenon
  <2>. QED
    BY <2>2, <2>3, Zenon
<1>6. ASSUME NEW h \in Handles, EndOfEvent(h)
      PROVE  /\ UNCHANGED <<m_task_list, running, s_response_pdu_list, m_resp, sent>>
             /\ \E S : Close(S)
  BY <1>6, Zenon DEF EndOfEvent
<1>7. ASSUME NEW w \in Workers, HandlePduBuf(w)
      PROVE  /\ UNCHANGED <<running, s_response_pdu_list, m_resp, sent>>
             /\ (\E S : Close(S)) \/ UNCHANGED <<status, inbox>>
  <2>1. CASE request[Head(m_in_buf)].kind = "malformed"
    BY <1>7, <2>1, Zenon DEF HandlePduBuf
  <2>2. CASE request[Head(m_in_buf)].kind = "ignored"
    BY <1>7, <2>2, Zenon DEF HandlePduBuf
  <2>3. CASE request[Head(m_in_buf)].kind \notin {"malformed", "ignored"}
    BY <1>7, <2>3, Zenon DEF HandlePduBuf
  <2>. QED
    BY <2>1, <2>2, <2>3, Zenon
<1>8. ASSUME ProxyTimer
      PROVE  /\ UNCHANGED <<reading, m_in_buf, m_task_list, running, s_response_pdu_list,
                            m_resp, sent>>
             /\ \E S : Close(S)
  BY <1>8, Zenon DEF ProxyTimer
<1>9. ASSUME PopResponse
      PROVE  UNCHANGED <<status, inbox, reading, m_in_buf, m_task_list, running, sent>>
  BY <1>9, Zenon DEF PopResponse
<1>10. ASSUME DeliverResponse
       PROVE  /\ UNCHANGED <<reading, m_in_buf, m_task_list, running, s_response_pdu_list>>
              /\ (\E S : Close(S)) \/ UNCHANGED <<status, inbox>>
  BY <1>10, Zenon DEF DeliverResponse
<1>11. ASSUME NEW w \in Workers, PopTask(w) \/ Run(w)
       PROVE  /\ UNCHANGED <<status, inbox, reading, m_in_buf, m_resp, sent>>
              /\ PopTask(w) => UNCHANGED s_response_pdu_list
              /\ Run(w) => UNCHANGED m_task_list
  BY <1>11, Zenon DEF PopTask, Run
<1>. QED
  BY <1>0, <1>1, <1>2, <1>3, <1>4, <1>5, <1>6, <1>7, <1>8, <1>9, <1>10, <1>11, Zenon
     DEF Next, Environment, EventLoop, Worker

\* What a worker is given has a handler; what it hands back is a valid response, or
\* nothing, for a request whose handler gave no valid one.
HasHandler(x) == x.pdu \in 1 .. Len(request) /\ request[x.pdu].kind \in {"request", "refused"}
Excused(x) == \E r \in 1 .. Len(request) :
    Known(r) /\ request[r].kind = "refused" /\ m_uuid[From(r)] = x.uuid
IsResponse(x) ==
    IF x.pdu = NULL THEN Excused(x)
                    ELSE x.pdu \in 1 .. Len(request) /\ request[x.pdu].kind = "request"

TasksHandled == \A w \in Workers : \A i \in 1 .. Len(m_task_list[w]) : HasHandler(m_task_list[w][i])
RunningHandled == \A w \in Workers : running[w] # NoTask => HasHandler(running[w])
ListChecked == \A i \in 1 .. Len(s_response_pdu_list) : IsResponse(s_response_pdu_list[i])
Kinded ==
    /\ TasksHandled /\ RunningHandled /\ ListChecked
    /\ pc = "deliver" => IsResponse(m_resp)

\* An element of an appended or shortened list is the new one or an old one.
LEMMA ElementOfAppend ==
    ASSUME NEW X, NEW q \in Seq(X), NEW e \in X, NEW i \in 1 .. Len(Append(q, e))
    PROVE  Append(q, e)[i] = e \/ \E j \in 1 .. Len(q) : Append(q, e)[i] = q[j]
<1>1. /\ Len(q) \in Nat /\ Len(Append(q, e)) = Len(q) + 1
      /\ Append(q, e)[Len(q) + 1] = e
      /\ \A j \in 1 .. Len(q) : Append(q, e)[j] = q[j]
  BY AppendFacts
<1>2. i = Len(q) + 1 \/ i \in 1 .. Len(q)
  BY <1>1
<1>. QED
  BY <1>1, <1>2, Zenon

\* An element of a shortened list was in the list.
LEMMA ElementOfTail ==
    ASSUME NEW X, NEW q \in Seq(X), q # <<>>, NEW i \in 1 .. Len(Tail(q))
    PROVE  \E j \in 1 .. Len(q) : Tail(q)[i] = q[j]
  BY HeadTail, Zenon

\* Requests are only added, and keep their kind and their connection.
LEMMA KindsStay ==
    ASSUME Inv, [Next]_vars, NEW x
    PROVE  /\ HasHandler(x) => HasHandler(x)'
           /\ IsResponse(x) => IsResponse(x)'
<1>1. /\ \A c \in 1 .. accepted : c \in 1 .. accepted' /\ m_uuid'[c] = m_uuid[c]
      /\ \A r \in 1 .. Len(request) : r \in 1 .. Len(request') /\ request'[r] = request[r]
  BY HistoryStep, Zenon
<1>2. HasHandler(x) => HasHandler(x)'
  BY <1>1, Zenon DEF HasHandler
<1>3. Excused(x) => Excused(x)'
  BY <1>1, Zenon DEF Excused, Known, From
<1>4. IsResponse(x) => IsResponse(x)'
  BY <1>1, <1>3, Zenon DEF IsResponse
<1>. QED
  BY <1>2, <1>4, Zenon

\* No step gives a worker a PDU without handler, or sends a response that is not valid.
LEMMA KindedStep ==
    ASSUME Inv, Kinded, [Next]_vars
    PROVE  Kinded'
<1>a. TypeOK /\ FlightInv
  BY Zenon DEF Inv
<1>b. \A x : /\ HasHandler(x) => HasHandler(x)'
             /\ IsResponse(x) => IsResponse(x)'
  BY KindsStay, Zenon
<1>. USE DEF vars, connVars, mapVars, kernVars, mainVars, poolVars
<1>1. ASSUME NEW w \in Workers, HandlePduBuf(w) PROVE TasksHandled'
  <2>1. m_in_buf # <<>> /\ m_in_buf \in Seq(Pdus)
    BY <1>a, <1>1, Zenon DEF HandlePduBuf, TypeOK
  <2>2. Head(m_in_buf) \in 1 .. Len(request) /\ Head(m_in_buf) \in Pdus
    <3>1. Head(m_in_buf) = m_in_buf[1] /\ 1 \in 1 .. Len(m_in_buf) /\ Head(m_in_buf) \in Pdus
      BY <2>1, HeadTail, Zenon
    <3>. QED
      BY <1>a, <3>1, Zenon DEF FlightInv, BufferKnown, Known
  <2>3. CASE request[Head(m_in_buf)].kind \in {"malformed", "ignored"}
    <3>1. UNCHANGED m_task_list
      BY <1>1, <2>3, Zenon DEF HandlePduBuf
    <3>. QED
      BY <1>b, <3>1, Zenon DEF Kinded, TasksHandled
  <2>4. CASE request[Head(m_in_buf)].kind \notin {"malformed", "ignored"}
    <3>1. PICK x \in InFlight : x = [uuid |-> m_uuid[reading], pdu |-> Head(m_in_buf)]
      <4>1. m_uuid[reading] \in Uuids
        BY <1>1, Zenon DEF HandlePduBuf, LoopInv, Inv, UuidWindow
      <4>. QED
        BY <2>2, <4>1, Zenon DEF InFlight
    <3>2. m_task_list' = [m_task_list EXCEPT ![w] = Append(@, x)]
      <4>1. m_task_list' = [m_task_list EXCEPT ![w] = Append(@, [uuid |-> m_uuid[reading], pdu |-> Head(m_in_buf)])]
        BY <1>1, <2>4, Zenon DEF HandlePduBuf
      <4>. QED
        BY <3>1, <4>1, Zenon
    <3>3. HasHandler(x)
      <4>0. request \in Seq([conn : Conns, kind : Kinds])
        BY <1>a, Zenon DEF TypeOK
      <4>1. \A r \in 1 .. Len(request) : request[r].kind \in Kinds
        <5>. DEFINE R == [conn : Conns, kind : Kinds]
        <5>1. \A z \in R : z.kind \in Kinds
          BY Zenon
        <5>2. request \in Seq(R)
          BY <4>0, Zenon
        <5>. HIDE DEF R
        <5>3. \A r \in 1 .. Len(request) : request[r] \in R
          BY <5>2
        <5>. QED
          BY <5>1, <5>3, Zenon
      <4>2. request[Head(m_in_buf)].kind \in {"request", "refused"}
        BY <2>2, <2>4, <4>1, Zenon DEF Kinds
      <4>. QED
        BY <2>2, <3>1, <4>2, Zenon DEF HasHandler
    <3>. SUFFICES ASSUME NEW v \in Workers, NEW i \in 1 .. Len(m_task_list'[v]),
                         NEW y, y = m_task_list'[v][i]
                  PROVE  HasHandler(y)'
      BY Zenon DEF TasksHandled
    <3>4. m_task_list'[v] = m_task_list[v] \/ m_task_list'[v] = Append(m_task_list[v], x)
      BY <1>a, <3>2, Zenon DEF TypeOK
    <3>5. y = x \/ \E j \in 1 .. Len(m_task_list[v]) : y = m_task_list[v][j]
      <4>1. m_task_list[v] \in Seq(InFlight)
        BY <1>a, Zenon DEF TypeOK
      <4>. QED
        <5>1. CASE m_task_list'[v] = m_task_list[v]
          BY <5>1, Zenon
        <5>2. CASE m_task_list'[v] = Append(m_task_list[v], x)
          BY <4>1, <5>2, ElementOfAppend, SMTT(40)
        <5>. QED
          BY <3>4, <5>1, <5>2, Zenon
    <3>. QED
      BY <1>b, <3>3, <3>5, Zenon DEF Kinded, TasksHandled
  <2>. QED
    BY <2>3, <2>4, Zenon
<1>2. ASSUME NEW w \in Workers, PopTask(w) PROVE TasksHandled' /\ RunningHandled'
  <2>1. m_task_list[w] \in Seq(InFlight) /\ m_task_list[w] # <<>>
    BY <1>a, <1>2, Zenon DEF PopTask, TypeOK
  <2>2. /\ \A v \in Workers : m_task_list'[v] = m_task_list[v] \/ (v = w /\ m_task_list'[v] = Tail(m_task_list[w]))
        /\ \A v \in Workers : running'[v] = running[v] \/ running'[v] = Head(m_task_list[w])
    BY <1>a, <1>2, Zenon DEF PopTask, TypeOK
  <2>3. TasksHandled'
    <3>. SUFFICES ASSUME NEW v \in Workers, NEW i \in 1 .. Len(m_task_list'[v]),
                         NEW y, y = m_task_list'[v][i]
                  PROVE  HasHandler(y)'
      BY Zenon DEF TasksHandled
    <3>1. \E j \in 1 .. Len(m_task_list[v]) : y = m_task_list[v][j]
      <4>1. CASE m_task_list'[v] = m_task_list[v]
        BY <4>1, Zenon
      <4>2. CASE v = w /\ m_task_list'[v] = Tail(m_task_list[w])
        <5>1. i \in 1 .. Len(Tail(m_task_list[w])) /\ y = Tail(m_task_list[w])[i]
          BY <4>2, Zenon
        <5>2. \E j \in 1 .. Len(m_task_list[w]) : y = m_task_list[w][j]
          BY <2>1, <5>1, ElementOfTail, SMTT(40)
        <5>. QED
          BY <4>2, <5>2, Zenon
      <4>. QED
        BY <2>2, <4>1, <4>2, Zenon
    <3>. QED
      BY <1>b, <3>1, Zenon DEF Kinded, TasksHandled
  <2>4. HasHandler(Head(m_task_list[w]))
    <3>1. Head(m_task_list[w]) = m_task_list[w][1] /\ 1 \in 1 .. Len(m_task_list[w])
      BY <2>1, HeadTail, Zenon
    <3>. QED
      BY <3>1, Zenon DEF Kinded, TasksHandled
  <2>5. RunningHandled'
    <3>. SUFFICES ASSUME NEW v \in Workers, NEW y, y = running'[v], y # NoTask
                  PROVE  HasHandler(y)'
      BY Zenon DEF RunningHandled
    <3>. QED
      BY <1>b, <2>2, <2>4, Zenon DEF Kinded, RunningHandled
  <2>. QED
    BY <2>3, <2>5, Zenon
<1>3. ASSUME NEW w \in Workers, Run(w) PROVE RunningHandled' /\ ListChecked'
  <2>0. running[w] \in InFlight /\ running[w] # NoTask
    BY <1>a, <1>3, Zenon DEF Run, TypeOK
  <2>1. PICK x \in [uuid : Uuids, pdu : Pdus \cup {NULL}] :
          x = [uuid |-> running[w].uuid,
               pdu  |-> IF request[running[w].pdu].kind = "request"
                        THEN running[w].pdu ELSE NULL]
    BY <2>0, Zenon DEF InFlight
  <2>2. /\ s_response_pdu_list' = Append(s_response_pdu_list, x)
        /\ \A v \in Workers : running'[v] = running[v] \/ running'[v] = NoTask
    BY <1>a, <1>3, <2>1, Zenon DEF Run, TypeOK
  <2>3. IsResponse(x)
    <3>1. Known(running[w].pdu) /\ running[w].uuid = m_uuid[From(running[w].pdu)]
      BY <1>a, <2>0, Zenon DEF FlightInv, RunningTagged, Tagged
    <3>2. request[running[w].pdu].kind \in {"request", "refused"} /\ running[w].pdu \in 1 .. Len(request)
      BY <2>0, Zenon DEF Kinded, RunningHandled, HasHandler
    <3>3. CASE request[running[w].pdu].kind = "request"
      <4>1. x.pdu = running[w].pdu /\ x.pdu # NULL
        BY <2>0, <2>1, <3>3, SMTT(40) DEF InFlight, Pdus
      <4>. QED
        BY <3>2, <3>3, <4>1, Zenon DEF IsResponse
    <3>4. CASE request[running[w].pdu].kind = "refused"
      <4>1. x.pdu = NULL /\ x.uuid = running[w].uuid
        BY <2>1, <3>4, Zenon
      <4>. QED
        BY <3>1, <3>2, <3>4, <4>1, Zenon DEF IsResponse, Excused
    <3>. QED
      BY <3>2, <3>3, <3>4, Zenon
  <2>4. ListChecked'
    <3>. SUFFICES ASSUME NEW i \in 1 .. Len(s_response_pdu_list'), NEW y, y = s_response_pdu_list'[i]
                  PROVE  IsResponse(y)'
      BY Zenon DEF ListChecked
    <3>1. s_response_pdu_list \in Seq([uuid : Uuids, pdu : Pdus \cup {NULL}])
      BY <1>a, Zenon DEF TypeOK
    <3>2. y = x \/ \E j \in 1 .. Len(s_response_pdu_list) : y = s_response_pdu_list[j]
      BY <2>2, <3>1, ElementOfAppend, SMTT(40)
    <3>. QED
      BY <1>b, <2>3, <3>2, Zenon DEF Kinded, ListChecked
  <2>5. RunningHandled'
    <3>. SUFFICES ASSUME NEW v \in Workers, NEW y, y = running'[v], y # NoTask
                  PROVE  HasHandler(y)'
      BY Zenon DEF RunningHandled
    <3>. QED
      BY <1>b, <2>2, Zenon DEF Kinded, RunningHandled
  <2>. QED
    BY <2>4, <2>5, Zenon
<1>4. ASSUME PopResponse PROVE ListChecked' /\ IsResponse(m_resp)'
  <2>1. /\ s_response_pdu_list \in Seq([uuid : Uuids, pdu : Pdus \cup {NULL}])
        /\ s_response_pdu_list # <<>> /\ m_resp' = Head(s_response_pdu_list)
        /\ s_response_pdu_list' = Tail(s_response_pdu_list)
    BY <1>a, <1>4, Zenon DEF PopResponse, TypeOK
  <2>2. ListChecked'
    <3>. SUFFICES ASSUME NEW i \in 1 .. Len(s_response_pdu_list'), NEW y, y = s_response_pdu_list'[i]
                  PROVE  IsResponse(y)'
      BY Zenon DEF ListChecked
    <3>1. \E j \in 1 .. Len(s_response_pdu_list) : y = s_response_pdu_list[j]
      BY <2>1, ElementOfTail, Zenon
    <3>. QED
      BY <1>b, <3>1, Zenon DEF Kinded, ListChecked
  <2>3. PICK x : x = m_resp'
    BY Zenon
  <2>4. x = s_response_pdu_list[1] /\ 1 \in 1 .. Len(s_response_pdu_list)
    BY <2>1, <2>3, HeadTail, Zenon
  <2>5. IsResponse(x)'
    BY <1>b, <2>4, Zenon DEF Kinded, ListChecked
  <2>. QED
    BY <2>2, <2>3, <2>5, Zenon
<1>5. TasksHandled'
  <2>1. CASE UNCHANGED m_task_list
    BY <1>b, <2>1, Zenon DEF Kinded, TasksHandled
  <2>. QED
    BY <1>1, <1>2, <2>1, Touches, Zenon
<1>6. RunningHandled'
  <2>1. CASE UNCHANGED running
    BY <1>b, <2>1, Zenon DEF Kinded, RunningHandled
  <2>. QED
    BY <1>2, <1>3, <2>1, Touches, Zenon
<1>7. ListChecked'
  <2>1. CASE UNCHANGED s_response_pdu_list
    BY <1>b, <2>1, Zenon DEF Kinded, ListChecked
  <2>. QED
    BY <1>3, <1>4, <2>1, Touches, Zenon
<1>8. ASSUME pc' = "deliver" PROVE IsResponse(m_resp)'
  <2>1. CASE UNCHANGED <<pc, m_resp>>
    <3>1. PICK x : x = m_resp
      BY Zenon
    <3>2. IsResponse(x)'
      BY <1>8, <1>b, <2>1, <3>1, Zenon DEF Kinded
    <3>. QED
      BY <2>1, <3>1, <3>2, Zenon
  <2>2. UNCHANGED <<pc, m_resp>> \/ PopResponse
    <3>1. ASSUME Environment \/ SigHandler \/ ExitCallback \/ UNCHANGED vars
                 \/ \E w \in Workers : Worker(w) \/ HandlePduBuf(w)
          PROVE  UNCHANGED <<m_resp, pc>>
      BY <3>1, Zenon DEF Environment, SigHandler, ExitCallback, Worker, PeerSend, PeerGone, Elapse,
                  PopTask, Run, HandlePduBuf
    <3>2. ASSUME \/ EpollWait \/ ProxyTimer \/ EndOfLoop \/ DeliverResponse
                 \/ \E h \in Handles : OnConnect(h) \/ OnRead(h) \/ EndOfEvent(h)
          PROVE  FALSE
      BY <1>8, <3>2, Zenon DEF EpollWait, ProxyTimer, EndOfLoop, OnConnect, OnRead, EndOfEvent, DeliverResponse
    <3>. QED
      BY <3>1, <3>2, Zenon DEF Next, EventLoop
  <2>. QED
    BY <1>4, <2>1, <2>2, Zenon
<1>. QED
  BY <1>5, <1>6, <1>7, <1>8, Zenon DEF Kinded

\* What is true of a descriptor that epoll_wait reported and the loop has not finished
\* with: its connection is there, unless it was closed while being read, and gave a
\* reason to be reported that still stands.
Reported(h) ==
    /\ pc \in {"events", "read"}
    /\ g_proxy_conn_map[h] # NoConn \/ (pc = "read" /\ h = m_handle[reading])
    /\ g_proxy_conn_map[h] # NoConn =>
         /\ batch[h] = "in_hup" => peer[g_proxy_conn_map[h]] = "reset"
         /\ \/ peer[g_proxy_conn_map[h]] # "up"
            \/ inbox[g_proxy_conn_map[h]] # <<>>
            \/ pc = "read" /\ reading = g_proxy_conn_map[h]

BatchInv == \A h \in Handles : batch[h] # "none" => Reported(h)

\* A close of the connection behind one descriptor leaves the others alone.
LEMMA CloseElsewhere ==
    ASSUME Inv, NEW S, Close(S), NEW h \in Handles,
           \A d \in S : m_handle[d] # h
    PROVE  /\ g_proxy_conn_map'[h] = g_proxy_conn_map[h]
           /\ g_proxy_conn_map[h] # NoConn =>
                /\ inbox'[g_proxy_conn_map[h]] = inbox[g_proxy_conn_map[h]]
                /\ peer'[g_proxy_conn_map[h]] = peer[g_proxy_conn_map[h]]
<1>1. g_proxy_conn_map'[h] = g_proxy_conn_map[h]
  BY Zenon DEF Close
<1>2. ASSUME NEW c, c = g_proxy_conn_map[h], c # NoConn
      PROVE  inbox'[c] = inbox[c] /\ peer'[c] = peer[c]
  <2>1. c \in Conns /\ m_handle[c] = h
    BY <1>2, ProxyConn, Zenon DEF Inv
  <2>2. c \notin S
    BY <2>1, Zenon
  <2>. QED
    BY <2>1, <2>2, Zenon DEF Close
<1>. QED
  BY <1>1, <1>2, Zenon

\* No step takes away the reason a descriptor was reported for.
LEMMA BatchStep ==
    ASSUME Inv, BatchInv, [Next]_vars
    PROVE  BatchInv'
<1>a. TypeOK /\ MapsMatchConns /\ LoopInv
  BY Zenon DEF Inv
<1>. USE DEF vars, connVars, mapVars, kernVars, mainVars, poolVars
<1>1. ASSUME NEW c \in Conns, NEW kind \in Kinds, PeerSend(c, kind) PROVE BatchInv'
  <2>1. \A d \in Conns : inbox[d] # <<>> => inbox'[d] # <<>>
    <3>1. \A d \in Conns : inbox'[d] = inbox[d] \/ inbox'[d] = Append(inbox[d], Len(request) + 1)
      BY <1>a, <1>1, Zenon DEF PeerSend, TypeOK
    <3>2. Len(request) + 1 \in Pdus
      BY <1>a, <1>1, NextPdu, Zenon DEF PeerSend
    <3>3. \A d \in Conns : inbox[d] \in Seq(Pdus)
      BY <1>a, Zenon DEF TypeOK
    <3>4. ASSUME NEW q \in Seq(Pdus), NEW e \in Pdus PROVE Append(q, e) # <<>>
      <4>1. Len(Append(q, e)) = Len(q) + 1 /\ Len(q) \in Nat
        BY AppendFacts, Zenon
      <4>. QED
        BY <4>1
    <3>. QED
      BY <3>1, <3>2, <3>3, <3>4, Zenon
  <2>2. \A h \in Handles : g_proxy_conn_map[h] # NoConn => g_proxy_conn_map[h] \in Conns
    BY <1>a, Zenon DEF TypeOK
  <2>3. UNCHANGED <<batch, pc, g_proxy_conn_map, m_handle, reading, peer>>
    BY <1>1, Zenon DEF PeerSend
  <2>. QED
    BY <2>1, <2>2, <2>3, Zenon DEF BatchInv, Reported
<1>2. ASSUME NEW c \in Conns, NEW how \in {"fin", "reset"}, PeerGone(c, how) PROVE BatchInv'
  <2>1. \A d \in Conns : peer'[d] = peer[d] \/ (peer'[d] \in {"fin", "reset"} /\ peer[d] # "reset")
    BY <1>a, <1>2, Zenon DEF PeerGone, TypeOK
  <2>2. \A h \in Handles : g_proxy_conn_map[h] # NoConn => g_proxy_conn_map[h] \in Conns
    BY <1>a, Zenon DEF TypeOK
  <2>3. UNCHANGED <<batch, pc, g_proxy_conn_map, m_handle, reading, inbox>>
    BY <1>2, Zenon DEF PeerGone
  <2>. QED
    BY <2>1, <2>2, <2>3, SMTT(40) DEF BatchInv, Reported
<1>3. ASSUME UNCHANGED <<batch, pc, g_proxy_conn_map, m_handle, reading, inbox, peer>>
      PROVE  BatchInv'
  BY <1>3, Zenon DEF BatchInv, Reported
<1>4. ASSUME EpollWait PROVE BatchInv'
  BY <1>a, <1>4, Zenon DEF EpollWait, BatchInv, Reported
<1>5. ASSUME NEW h \in Handles, OnConnect(h) PROVE BatchInv'
  <2>1. pc = "events" /\ g_proxy_conn_map[h] = NoConn /\ UNCHANGED <<batch, pc, inbox, peer>>
    BY <1>5, Zenon DEF OnConnect
  <2>2. \A g \in Handles : g # h => g_proxy_conn_map'[g] = g_proxy_conn_map[g]
    BY <1>a, <1>5, Zenon DEF OnConnect, TypeOK
  <2>. QED
    BY <2>1, <2>2, Zenon DEF BatchInv, Reported
<1>6. ASSUME NEW h \in Handles, OnRead(h) PROVE BatchInv'
  <2>0. pc = "events" /\ batch[h] # "none" /\ UNCHANGED m_handle
    BY <1>6, Zenon DEF OnRead
  <2>. PICK c : c = g_proxy_conn_map[h]
    BY Zenon
  <2>1. c # NoConn /\ c \in Conns /\ m_handle[c] = h
    <3>1. c # NoConn
      BY <2>0, Zenon DEF BatchInv, Reported
    <3>. QED
      BY <1>a, <3>1, ProxyConn, Zenon
  <2>2. CASE inbox[c] = <<>>
    <3>1. /\ Close({c} \ {NoConn}) /\ UNCHANGED pc
          /\ batch' = [batch EXCEPT ![h] = "none"]
      BY <1>6, <2>2, Zenon DEF OnRead
    <3>2. \A g \in Handles : batch'[g] # "none" => g # h /\ batch'[g] = batch[g]
      BY <1>a, <3>1, Zenon DEF TypeOK
    <3>3. ASSUME NEW g \in Handles, g # h
          PROVE  /\ g_proxy_conn_map'[g] = g_proxy_conn_map[g]
                 /\ g_proxy_conn_map[g] # NoConn =>
                      /\ inbox'[g_proxy_conn_map[g]] = inbox[g_proxy_conn_map[g]]
                      /\ peer'[g_proxy_conn_map[g]] = peer[g_proxy_conn_map[g]]
      <4>. PICK S : S = {c} \ {NoConn}
        BY Zenon
      <4>1. Close(S) /\ \A d \in S : m_handle[d] # g
        BY <2>1, <3>1, <3>3, Zenon
      <4>. QED
        BY <3>3, <4>1, CloseElsewhere, Zenon
    <3>. QED
      BY <2>0, <3>1, <3>2, <3>3, SMTT(40) DEF BatchInv, Reported
  <2>3. CASE inbox[c] # <<>>
    <3>1. /\ inbox' = [inbox EXCEPT ![c] = <<>>] /\ reading' = c /\ pc' = "read"
          /\ UNCHANGED <<g_proxy_conn_map, peer, batch>>
      BY <1>6, <2>1, <2>3, Zenon DEF OnRead
    <3>2. \A d \in Conns : d # c => inbox'[d] = inbox[d]
      BY <1>a, <3>1, Zenon DEF TypeOK
    <3>3. \A g \in Handles : g_proxy_conn_map[g] # NoConn => g_proxy_conn_map[g] \in Conns
      BY <1>a, Zenon DEF TypeOK
    <3>. QED
      BY <2>0, <2>1, <3>1, <3>2, <3>3 DEF BatchInv, Reported
  <2>. QED
    BY <2>2, <2>3, Zenon
<1>7. ASSUME NEW h \in Handles, EndOfEvent(h) PROVE BatchInv'
  <2>1. PICK S : Close(S) /\ \A d \in S : d = g_proxy_conn_map[h] /\ d # NoConn
    <3>. DEFINE S == IF batch[h] = "in_hup" THEN {g_proxy_conn_map[h]} \ {NoConn} ELSE {}
    <3>1. Close(S)
      BY <1>7, Zenon DEF EndOfEvent
    <3>2. \A d \in S : d = g_proxy_conn_map[h] /\ d # NoConn
      BY Zenon
    <3>. HIDE DEF S
    <3>. QED
      BY <3>1, <3>2, Zenon
  <2>2. /\ pc = "read" /\ pc' = "events" /\ batch' = [batch EXCEPT ![h] = "none"]
        /\ h = m_handle[reading]
    BY <1>7, Zenon DEF EndOfEvent
  <2>3. \A g \in Handles : batch'[g] # "none" => g # h /\ batch'[g] = batch[g]
    BY <1>a, <2>2, Zenon DEF TypeOK
  <2>4. \A d \in S : m_handle[d] = h
    BY <1>a, <2>1, Zenon DEF MapsMatchConns
  <2>5. ASSUME NEW g \in Handles, g # h
        PROVE  /\ g_proxy_conn_map'[g] = g_proxy_conn_map[g]
               /\ g_proxy_conn_map[g] # NoConn =>
                    /\ inbox'[g_proxy_conn_map[g]] = inbox[g_proxy_conn_map[g]]
                    /\ peer'[g_proxy_conn_map[g]] = peer[g_proxy_conn_map[g]]
    <3>1. \A d \in S : m_handle[d] # g
      BY <2>4, <2>5, Zenon
    <3>. QED
      BY <2>1, <2>5, <3>1, CloseElsewhere, Zenon
  <2>6. \A g \in Handles : g # h /\ g_proxy_conn_map[g] # NoConn => reading # g_proxy_conn_map[g]
    BY <1>a, <2>2, Zenon DEF MapsMatchConns
  <2>. QED
    BY <2>2, <2>3, <2>5, <2>6, SMTT(40) DEF BatchInv, Reported
<1>8. ASSUME NEW w \in Workers, HandlePduBuf(w) PROVE BatchInv'
  <2>1. pc = "read" /\ UNCHANGED <<pc, batch, reading, m_handle>>
    BY <1>8, Zenon DEF HandlePduBuf
  <2>2. CASE request[Head(m_in_buf)].kind = "malformed"
    <3>1. Close({reading})
      BY <1>8, <2>2, Zenon DEF HandlePduBuf
    <3>2. ASSUME NEW g \in Handles, g # m_handle[reading]
          PROVE  /\ g_proxy_conn_map'[g] = g_proxy_conn_map[g]
                 /\ g_proxy_conn_map[g] # NoConn =>
                      /\ inbox'[g_proxy_conn_map[g]] = inbox[g_proxy_conn_map[g]]
                      /\ peer'[g_proxy_conn_map[g]] = peer[g_proxy_conn_map[g]]
      <4>. PICK S : S = {reading}
        BY Zenon
      <4>1. Close(S) /\ \A d \in S : m_handle[d] # g
        BY <3>1, <3>2, Zenon
      <4>. QED
        BY <3>2, <4>1, CloseElsewhere, Zenon
    <3>3. \A g \in Handles : g = m_handle[reading] => g_proxy_conn_map'[g] = NoConn
      BY <3>1, Zenon DEF Close
    <3>. QED
      BY <2>1, <3>2, <3>3, SMTT(40) DEF BatchInv, Reported
  <2>3. CASE request[Head(m_in_buf)].kind # "malformed"
    <3>1. UNCHANGED g_proxy_conn_map /\ UNCHANGED inbox /\ UNCHANGED peer
      <4>1. CASE request[Head(m_in_buf)].kind = "ignored"
        BY <1>8, <4>1, Zenon DEF HandlePduBuf
      <4>2. CASE request[Head(m_in_buf)].kind # "ignored"
        BY <1>8, <2>3, <4>2, Zenon DEF HandlePduBuf
      <4>. QED
        BY <4>1, <4>2, Zenon
    <3>. QED
      BY <1>3, <2>1, <3>1, Zenon
  <2>. QED
    BY <2>2, <2>3, Zenon
<1>9. ASSUME ProxyTimer \/ PopResponse \/ DeliverResponse \/ EndOfLoop PROVE BatchInv'
  <2>1. \A h \in Handles : batch[h] = "none"
    BY <1>9, Zenon DEF ProxyTimer, PopResponse, DeliverResponse, EndOfLoop, BatchInv, Reported
  <2>2. UNCHANGED batch
    BY <1>9, Zenon DEF ProxyTimer, PopResponse, DeliverResponse, EndOfLoop
  <2>. QED
    BY <2>1, <2>2, Zenon DEF BatchInv
<1>10. ASSUME \/ \E c \in Conns : Elapse(c)
              \/ ExitCallback \/ SigHandler \/ UNCHANGED vars
              \/ \E w \in Workers : Worker(w)
       PROVE  BatchInv'
  <2>1. UNCHANGED <<batch, pc, g_proxy_conn_map, m_handle, reading, inbox, peer>>
    BY <1>10, Zenon DEF Elapse, ExitCallback, SigHandler, Worker, PopTask, Run
  <2>. QED
    BY <1>3, <2>1, Zenon
<1>. QED
  BY <1>1, <1>2, <1>4, <1>5, <1>6, <1>7, <1>8, <1>9, <1>10, Zenon DEF Next, Environment, EventLoop

\* The step form of CloseJustified.
JustifiedFor(c) ==
    \/ peer[c] # "up"
    \/ quiet[c]
    \/ \E r \in 1 .. Len(request) :
           request[r].conn = c /\ request[r].kind \in {"malformed", "refused"}
    \/ SharesUuid(c)

\* Each of the five ways to Close has a reason that the closed connection gave.
LEMMA JustifiedStep ==
    ASSUME Inv, Kinded, BatchInv, [Next]_vars, NEW c \in Conns,
           status[c] = "open", status'[c] = "closed"
    PROVE  JustifiedFor(c)
<1>a. TypeOK /\ MapsMatchConns /\ LoopInv /\ FlightInv /\ ConnInv
  BY Zenon DEF Inv
<1>. USE DEF vars, connVars, mapVars, kernVars, mainVars, poolVars
<1>b. ASSUME NEW S, Close(S) PROVE c \in S
  BY <1>b, Zenon DEF Close
<1>1. ASSUME NEW h \in Handles, OnRead(h) PROVE JustifiedFor(c)
  <2>0. pc = "events" /\ batch[h] # "none"
    BY <1>1, Zenon DEF OnRead
  <2>. PICK d : d = g_proxy_conn_map[h]
    BY Zenon
  <2>1. CASE d = NoConn \/ inbox[d] = <<>>
    <3>1. Close({d} \ {NoConn})
      BY <1>1, <2>1, Zenon DEF OnRead
    <3>2. c = d /\ d # NoConn
      BY <1>b, <3>1, Zenon
    <3>. QED
      BY <2>0, <2>1, <3>2, Zenon DEF BatchInv, Reported, JustifiedFor
  <2>2. CASE ~(d = NoConn \/ inbox[d] = <<>>)
    BY <1>1, <2>2, Zenon DEF OnRead
  <2>. QED
    BY <2>1, <2>2, Zenon
<1>2. ASSUME NEW h \in Handles, EndOfEvent(h) PROVE JustifiedFor(c)
  <2>1. CASE batch[h] = "in_hup"
    <3>1. Close({g_proxy_conn_map[h]} \ {NoConn})
      BY <1>2, <2>1, Zenon DEF EndOfEvent
    <3>2. c = g_proxy_conn_map[h] /\ c # NoConn
      BY <1>b, <3>1, Zenon
    <3>. QED
      BY <2>1, <3>2, Zenon DEF BatchInv, Reported, JustifiedFor
  <2>2. CASE batch[h] # "in_hup"
    <3>1. Close({})
      BY <1>2, <2>2, Zenon DEF EndOfEvent
    <3>. QED
      BY <1>b, <3>1, Zenon
  <2>. QED
    BY <2>1, <2>2, Zenon
<1>3. ASSUME NEW w \in Workers, HandlePduBuf(w) PROVE JustifiedFor(c)
  <2>1. m_in_buf # <<>> /\ m_in_buf \in Seq(Pdus)
    BY <1>a, <1>3, Zenon DEF HandlePduBuf, TypeOK
  <2>2. Known(Head(m_in_buf)) /\ From(Head(m_in_buf)) = reading
    <3>1. Head(m_in_buf) = m_in_buf[1] /\ 1 \in 1 .. Len(m_in_buf)
      BY <2>1, HeadTail, Zenon
    <3>. QED
      BY <1>a, <3>1, Zenon DEF FlightInv, BufferKnown
  <2>3. CASE request[Head(m_in_buf)].kind = "malformed"
    <3>1. Close({reading})
      BY <1>3, <2>3, Zenon DEF HandlePduBuf
    <3>2. c = reading
      BY <1>b, <3>1, Zenon
    <3>. QED
      BY <2>2, <2>3, <3>2, Zenon DEF JustifiedFor, Known, From
  <2>4. CASE request[Head(m_in_buf)].kind # "malformed"
    <3>1. UNCHANGED status
      <4>1. CASE request[Head(m_in_buf)].kind = "ignored"
        BY <1>3, <4>1, Zenon DEF HandlePduBuf
      <4>2. CASE request[Head(m_in_buf)].kind # "ignored"
        BY <1>3, <2>4, <4>2, Zenon DEF HandlePduBuf
      <4>. QED
        BY <4>1, <4>2, Zenon
    <3>. QED
      BY <3>1, Zenon
  <2>. QED
    BY <2>3, <2>4, Zenon
<1>4. ASSUME ProxyTimer PROVE JustifiedFor(c)
  <2>1. PICK S : Close(S) /\ \A d \in S : quiet[d]
    <3>. DEFINE S == {g_proxy_conn_map[h] : h \in {g \in Handles :
                        /\ g_proxy_conn_map[g] # NoConn
                        /\ quiet[g_proxy_conn_map[g]]}}
    <3>1. Close(S)
      BY <1>4, Zenon DEF ProxyTimer
    <3>2. \A d \in S : quiet[d]
      BY Zenon
    <3>. HIDE DEF S
    <3>. QED
      BY <3>1, <3>2, Zenon
  <2>. QED
    BY <1>b, <2>1, Zenon DEF JustifiedFor
<1>5. ASSUME DeliverResponse PROVE JustifiedFor(c)
  <2>. PICK d : d = g_uuid_conn_map[m_resp.uuid]
    BY Zenon
  <2>1. CASE d # NoConn /\ m_resp.pdu # NULL
    BY <1>5, <2>1, Zenon DEF DeliverResponse
  <2>2. CASE ~(d # NoConn /\ m_resp.pdu # NULL)
    <3>1. Close({d} \ {NoConn}) /\ pc = "deliver"
      BY <1>5, <2>2, Zenon DEF DeliverResponse
    <3>2. c = d /\ d # NoConn
      BY <1>b, <3>1, Zenon
    <3>3. m_resp.pdu = NULL
      BY <2>2, <3>2, Zenon
    <3>4. Excused(m_resp)
      BY <3>1, <3>3, Zenon DEF Kinded, IsResponse
    <3>5. PICK r \in 1 .. Len(request) :
             Known(r) /\ request[r].kind = "refused" /\ m_uuid[From(r)] = m_resp.uuid
      BY <3>4, Zenon DEF Excused
    <3>6. m_uuid[c] = m_resp.uuid
      BY <3>1, <3>2, ResponseConn, Zenon
    <3>7. CASE From(r) = c
      BY <3>5, <3>7, Zenon DEF From, JustifiedFor
    <3>8. CASE From(r) # c
      BY <3>5, <3>6, <3>8, Zenon DEF Known, SharesUuid, JustifiedFor
    <3>. QED
      BY <3>7, <3>8, Zenon
  <2>. QED
    BY <2>1, <2>2, Zenon
<1>6. ASSUME NEW h \in Handles, OnConnect(h) PROVE FALSE
  BY <1>a, <1>6, Zenon DEF OnConnect, TypeOK, Conns
<1>7. ASSUME \/ Environment \/ EpollWait \/ PopResponse \/ EndOfLoop \/ ExitCallback
             \/ SigHandler \/ UNCHANGED vars \/ \E w \in Workers : Worker(w)
      PROVE  FALSE
  BY <1>7, Zenon DEF Environment, PeerSend, PeerGone, Elapse, EpollWait, PopResponse, EndOfLoop,
              ExitCallback, SigHandler, Worker, PopTask, Run
<1>. QED
  BY <1>1, <1>2, <1>3, <1>4, <1>5, <1>6, <1>7, Zenon DEF Next, EventLoop

\* Nothing is in flight and nothing is reported when the event loop starts.
LEMMA InitReasons == Init => Kinded /\ BatchInv
<1>1. Init => Kinded
  BY DEF Init, Kinded, TasksHandled, RunningHandled, ListChecked
<1>2. Init => BatchInv
  BY Zenon DEF Init, BatchInv
<1>. QED
  BY <1>1, <1>2, Zenon

\* The three invariants together are inductive.
THEOREM ReasonsInvariance == Spec => [](Inv /\ Kinded /\ BatchInv)
<1>1. Init => Inv /\ Kinded /\ BatchInv
  BY InitInv, InitReasons, Zenon
<1>2. Inv /\ Kinded /\ BatchInv /\ [Next]_vars => (Inv /\ Kinded /\ BatchInv)'
  <2>1. Inv /\ [Next]_vars => Inv'
    BY TypeStep, UuidStep, MapsStep, LoopStep, FlightStep, ReplyStep, Zenon DEF Inv
  <2>. QED
    BY <2>1, KindedStep, BatchStep, Zenon
<1>. QED
  BY <1>1, <1>2, PTL DEF Spec

\* A connection is closed only for a reason it gave itself: no event and no response that
\* belongs to an earlier user of its descriptor closes it.
THEOREM ClosesJustified == Spec => CloseJustified
<1>1. ASSUME Inv, Kinded, BatchInv, [Next]_vars
      PROVE  [\A c \in Conns : status[c] = "open" /\ status'[c] = "closed" =>
                \/ peer[c] # "up"
                \/ quiet[c]
                \/ \E r \in 1 .. Len(request) :
                       request[r].conn = c /\ request[r].kind \in {"malformed", "refused"}
                \/ SharesUuid(c)]_status
  BY <1>1, JustifiedStep, Zenon DEF JustifiedFor
<1>. QED
  BY <1>1, ReasonsInvariance, PTL DEF Spec, CloseJustified
=============================================================================
