--------------------------- MODULE BusinessServer ---------------------------
(***************************************************************************)
(* The business server process: one event-loop thread that owns every      *)
(* connection (CBusinessSrvConn) and a pool of worker threads that run the *)
(* handlers (CProxyTask).  The threads meet in two places only: the task   *)
(* list of each worker, and the list of responses the event loop drains    *)
(* once per turn.  Both are protected by a lock, so each push and each pop *)
(* is one step here.                                                       *)
(*                                                                         *)
(* A connection object is named by the order in which it was accepted; a   *)
(* PDU is named by the order in which it was sent.  File descriptors and   *)
(* connection uuids are reused, object and PDU names are not: they are     *)
(* what the properties compare.                                            *)
(***************************************************************************)
EXTENDS Naturals, Sequences

CONSTANTS Handles,   \* file descriptors the kernel may give to a connection
          Workers,   \* threads of g_thread_pool
          UuidMod,   \* 2^32 in the code: one more than the largest uuid
          MaxConn,   \* bound: connections accepted in a behaviour
          MaxReq,    \* bound: PDUs sent by the peers in a behaviour
          Sigterm    \* whether the process may receive SIGTERM

ASSUME UuidModAssumption == UuidMod \in Nat /\ UuidMod > 1
ASSUME BoundsAssumption == MaxConn \in Nat /\ MaxReq \in Nat
ASSUME SigtermAssumption == Sigterm \in BOOLEAN

Conns == 1 .. MaxConn
Pdus  == 1 .. MaxReq
Uuids == 1 .. (UuidMod - 1)
NoConn == 0
NULL   == 0
NoTask == [uuid |-> 0, pdu |-> NULL]

\* What a PDU does to the server: "request" has a handler whose response is
\* valid, "refused" one whose response is not (isPduValid fails), "ignored" is
\* a heartbeat or a command without handler, "malformed" announces length 0.
Kinds == {"request", "refused", "ignored", "malformed"}

VARIABLES
    \* connection objects and the maps that find them
    s_uuid_alloctor, accepted, m_uuid, m_handle, status,
    g_proxy_conn_map, g_uuid_conn_map,
    \* the peers and the kernel's side of each socket
    request,   \* every PDU ever sent: its connection and its kind
    inbox,     \* received by the kernel, not yet read
    peer,      \* "up", "fin" (the peer shut down) or "reset"
    ready,     \* an edge-triggered event is pending
    quiet,     \* nothing was received for SERVER_TIMEOUT
    sent,      \* PDUs written to each connection
    \* the event-loop thread
    pc, batch, reading, m_in_buf, m_resp, life,
    \* the worker threads
    m_task_list, running, s_response_pdu_list

connVars == <<s_uuid_alloctor, accepted, m_uuid, m_handle>>
mapVars  == <<status, g_proxy_conn_map, g_uuid_conn_map>>
kernVars == <<inbox, peer, ready, quiet>>
mainVars == <<batch, reading, m_in_buf, m_resp>>
poolVars == <<m_task_list, running>>
vars == <<connVars, mapVars, kernVars, request, sent, pc, mainVars, life,
          poolVars, s_response_pdu_list>>

Init ==
    /\ s_uuid_alloctor = 0 /\ accepted = 0
    /\ m_uuid = [c \in Conns |-> 0]
    /\ m_handle = [c \in Conns |-> NULL]
    /\ status = [c \in Conns |-> "new"]
    /\ g_proxy_conn_map = [h \in Handles |-> NoConn]
    /\ g_uuid_conn_map = [u \in Uuids |-> NoConn]
    /\ request = <<>>
    /\ inbox = [c \in Conns |-> <<>>]
    /\ peer = [c \in Conns |-> "up"]
    /\ ready = [c \in Conns |-> FALSE]
    /\ quiet = [c \in Conns |-> FALSE]
    /\ sent = [c \in Conns |-> <<>>]
    /\ pc = "wait" /\ life = "run"
    /\ batch = [h \in Handles |-> "none"]
    /\ reading = NoConn /\ m_in_buf = <<>> /\ m_resp = NoTask
    /\ m_task_list = [w \in Workers |-> <<>>]
    /\ running = [w \in Workers |-> NoTask]
    /\ s_response_pdu_list = <<>>

-----------------------------------------------------------------------------
(* The peers (message servers), the network and the clock.                 *)

PeerSend(c, kind) ==
    /\ status[c] = "open" /\ peer[c] = "up" /\ Len(request) < MaxReq
    /\ request' = Append(request, [conn |-> c, kind |-> kind])
    /\ inbox' = [inbox EXCEPT ![c] = Append(@, Len(request) + 1)]
    /\ ready' = [ready EXCEPT ![c] = TRUE]
    /\ UNCHANGED <<connVars, mapVars, peer, quiet, sent, pc, mainVars, life,
                   poolVars, s_response_pdu_list>>

PeerGone(c, how) ==
    /\ status[c] = "open"
    /\ <<peer[c], how>> \in {<<"up", "fin">>, <<"up", "reset">>, <<"fin", "reset">>}
    /\ peer' = [peer EXCEPT ![c] = how]
    /\ ready' = [ready EXCEPT ![c] = TRUE]
    /\ UNCHANGED <<connVars, mapVars, inbox, quiet, request, sent, pc, mainVars,
                   life, poolVars, s_response_pdu_list>>

\* More than SERVER_TIMEOUT passes since m_last_recv_tick.
Elapse(c) ==
    /\ status[c] = "open" /\ ~quiet[c]
    /\ quiet' = [quiet EXCEPT ![c] = TRUE]
    /\ UNCHANGED <<connVars, mapVars, inbox, peer, ready, request, sent, pc,
                   mainVars, life, poolVars, s_response_pdu_list>>

-----------------------------------------------------------------------------
(* The event-loop thread.                                                  *)

\* Mutant of Close: the entry of g_uuid_conn_map stays.
CloseKeepsUuid(S) ==
    /\ status' = [c \in Conns |-> IF c \in S THEN "closed" ELSE status[c]]
    /\ g_proxy_conn_map' = [h \in Handles |->
           IF \E c \in S : m_handle[c] = h THEN NoConn ELSE g_proxy_conn_map[h]]
    /\ inbox' = [c \in Conns |-> IF c \in S THEN <<>> ELSE inbox[c]]
    /\ peer'  = [c \in Conns |-> IF c \in S THEN "up" ELSE peer[c]]
    /\ ready' = [c \in Conns |-> c \notin S /\ ready[c]]
    /\ quiet' = [c \in Conns |-> c \notin S /\ quiet[c]]
    /\ UNCHANGED g_uuid_conn_map

\* CBusinessSrvConn::Close for each connection of S: close the socket (with what
\* the kernel kept for it), erase both map entries, drop the last reference.
Close(S) ==
    /\ status' = [c \in Conns |-> IF c \in S THEN "closed" ELSE status[c]]
    /\ g_proxy_conn_map' = [h \in Handles |->
           IF \E c \in S : m_handle[c] = h THEN NoConn ELSE g_proxy_conn_map[h]]
    /\ g_uuid_conn_map' = [u \in Uuids |->
           IF \E c \in S : m_uuid[c] = u THEN NoConn ELSE g_uuid_conn_map[u]]
    /\ inbox' = [c \in Conns |-> IF c \in S THEN <<>> ELSE inbox[c]]
    /\ peer'  = [c \in Conns |-> IF c \in S THEN "up" ELSE peer[c]]
    /\ ready' = [c \in Conns |-> c \notin S /\ ready[c]]
    /\ quiet' = [c \in Conns |-> c \notin S /\ quiet[c]]

\* Mutant of EpollWait: dispatching stops when SIGTERM has been received.
EpollWaitUnlessExiting ==
    /\ pc = "wait" /\ life = "run"
    /\ batch' = [h \in Handles |->
           LET c == g_proxy_conn_map[h] IN
           IF c = NoConn THEN "none"
           ELSE IF ~ready[c] \/ (inbox[c] = <<>> /\ peer[c] = "up") THEN "none"
           ELSE IF peer[c] = "reset" THEN "in_hup" ELSE "in"]
    /\ ready' = [c \in Conns |-> FALSE]
    /\ pc' = "events"
    /\ UNCHANGED <<connVars, mapVars, inbox, peer, quiet, request, sent, reading,
                   m_in_buf, m_resp, life, poolVars, s_response_pdu_list>>

\* epoll_wait: report the descriptors whose edge-triggered event is pending.
\* EPOLLIN is evaluated now; EPOLLERR and EPOLLHUP only come with a reset.
EpollWait ==
    /\ pc = "wait"
    /\ batch' = [h \in Handles |->
           LET c == g_proxy_conn_map[h] IN
           IF c = NoConn THEN "none"
           ELSE IF ~ready[c] \/ (inbox[c] = <<>> /\ peer[c] = "up") THEN "none"
           ELSE IF peer[c] = "reset" THEN "in_hup" ELSE "in"]
    /\ ready' = [c \in Conns |-> FALSE]
    /\ pc' = "events"
    /\ UNCHANGED <<connVars, mapVars, inbox, peer, quiet, request, sent, reading,
                   m_in_buf, m_resp, life, poolVars, s_response_pdu_list>>

\* Mutant of NextUuid: the counter wraps one value early.
NextUuidEarly == IF s_uuid_alloctor + 2 >= UuidMod THEN 1 ELSE s_uuid_alloctor + 1

NextUuid == IF s_uuid_alloctor + 1 = UuidMod THEN 1 ELSE s_uuid_alloctor + 1

\* The listening socket accepts a descriptor: the constructor draws a uuid and
\* inserts it (insert keeps an entry that is already there), OnConnect inserts
\* the handle.
OnConnect(h) ==
    /\ pc = "events" /\ accepted < MaxConn
    /\ g_proxy_conn_map[h] = NoConn
    /\ accepted' = accepted + 1
    /\ s_uuid_alloctor' = NextUuid
    /\ m_uuid' = [m_uuid EXCEPT ![accepted + 1] = NextUuid]
    /\ m_handle' = [m_handle EXCEPT ![accepted + 1] = h]
    /\ status' = [status EXCEPT ![accepted + 1] = "open"]
    /\ g_proxy_conn_map' = [g_proxy_conn_map EXCEPT ![h] = accepted + 1]
    /\ g_uuid_conn_map' = [g_uuid_conn_map EXCEPT
           ![NextUuid] = IF @ = NoConn THEN accepted + 1 ELSE @]
    /\ UNCHANGED <<kernVars, request, sent, pc, mainVars, life, poolVars,
                   s_response_pdu_list>>

\* One reported descriptor.  The socket's OnRead closes the connection when no
\* byte is available; otherwise CBusinessSrvConn::OnRead receives everything and
\* goes on to handle it.  With EPOLLHUP the same event ends in OnClose.
OnRead(h) ==
    /\ pc = "events" /\ batch[h] # "none"
    /\ LET c == g_proxy_conn_map[h] IN
       IF c = NoConn \/ inbox[c] = <<>>
       THEN /\ Close({c} \ {NoConn})
            /\ batch' = [batch EXCEPT ![h] = "none"]
            /\ UNCHANGED <<pc, reading, m_in_buf>>
       ELSE /\ m_in_buf' = inbox[c]
            /\ inbox' = [inbox EXCEPT ![c] = <<>>]
            /\ quiet' = [quiet EXCEPT ![c] = FALSE]
            /\ reading' = c
            /\ pc' = "read"
            /\ UNCHANGED <<mapVars, peer, ready, batch>>
    /\ UNCHANGED <<connVars, request, sent, m_resp, life, poolVars,
                   s_response_pdu_list>>

\* Mutant of HandlePduBuf: a command without handler ends the loop over the buffer.
HandlePduBufStopsEarly(w) ==
    /\ pc = "read" /\ m_in_buf # <<>>
    /\ LET pdu == Head(m_in_buf) IN
       CASE request[pdu].kind = "malformed" ->
              Close({reading}) /\ m_in_buf' = <<>> /\ UNCHANGED m_task_list
         [] request[pdu].kind = "ignored" ->
              m_in_buf' = <<>> /\ UNCHANGED <<mapVars, kernVars, m_task_list>>
         [] OTHER ->
              /\ m_task_list' = [m_task_list EXCEPT
                     ![w] = Append(@, [uuid |-> m_uuid[reading], pdu |-> pdu])]
              /\ m_in_buf' = Tail(m_in_buf)
              /\ UNCHANGED <<mapVars, kernVars>>
    /\ UNCHANGED <<connVars, request, sent, pc, batch, reading, m_resp, life,
                   running, s_response_pdu_list>>

\* HandlePduBuf on the next PDU of the buffer: a command with a handler becomes
\* a task of a randomly chosen worker; an exception closes the connection and
\* drops the rest of the buffer.
HandlePduBuf(w) ==
    /\ pc = "read" /\ m_in_buf # <<>>
    /\ LET pdu == Head(m_in_buf) IN
       CASE request[pdu].kind = "malformed" ->
              /\ Close({reading})
              /\ m_in_buf' = <<>>
              /\ UNCHANGED m_task_list
         [] request[pdu].kind = "ignored" ->
              /\ m_in_buf' = Tail(m_in_buf)
              /\ UNCHANGED <<mapVars, kernVars, m_task_list>>
         [] OTHER ->
              /\ m_task_list' = [m_task_list EXCEPT
                     ![w] = Append(@, [uuid |-> m_uuid[reading], pdu |-> pdu])]
              /\ m_in_buf' = Tail(m_in_buf)
              /\ UNCHANGED <<mapVars, kernVars>>
    /\ UNCHANGED <<connVars, request, sent, pc, batch, reading, m_resp, life,
                   running, s_response_pdu_list>>

\* The buffer is handled.  If the event also carried EPOLLHUP, OnClose looks the
\* connection up again by its handle and closes it.
EndOfEvent(h) ==
    /\ pc = "read" /\ m_in_buf = <<>> /\ h = m_handle[reading]
    /\ Close(IF batch[h] = "in_hup" THEN {g_proxy_conn_map[h]} \ {NoConn} ELSE {})
    /\ batch' = [batch EXCEPT ![h] = "none"]
    /\ reading' = NoConn
    /\ pc' = "events"
    /\ UNCHANGED <<connVars, request, sent, m_in_buf, m_resp, life,
                   poolVars, s_response_pdu_list>>

\* Mutant of ProxyTimer: OnTimer does not close a silent connection.
ProxyTimerKeepsSilent ==
    /\ pc = "events" /\ \A h \in Handles : batch[h] = "none"
    /\ pc' = "loop"
    /\ UNCHANGED <<connVars, mapVars, kernVars, request, sent, mainVars, life,
                   poolVars, s_response_pdu_list>>

\* _CheckTimer after the batch: proxy_timer_callback closes what timed out.
ProxyTimer ==
    /\ pc = "events" /\ \A h \in Handles : batch[h] = "none"
    /\ Close({g_proxy_conn_map[h] : h \in {g \in Handles :
                 /\ g_proxy_conn_map[g] # NoConn
                 /\ quiet[g_proxy_conn_map[g]]}})
    /\ pc' = "loop"
    /\ UNCHANGED <<connVars, request, sent, mainVars, life, poolVars,
                   s_response_pdu_list>>

\* SendResponsePduList, under the lock: take the first response.
PopResponse ==
    /\ pc = "loop" /\ s_response_pdu_list # <<>>
    /\ m_resp' = Head(s_response_pdu_list)
    /\ s_response_pdu_list' = Tail(s_response_pdu_list)
    /\ pc' = "deliver"
    /\ UNCHANGED <<connVars, mapVars, kernVars, request, sent, batch, reading,
                   m_in_buf, life, poolVars>>

\* Mutant of DeliverResponse: the connection is looked up by its descriptor.
DeliverByHandle ==
    /\ pc = "deliver"
    /\ LET asked == {c \in Conns : m_uuid[c] = m_resp.uuid}
           c == g_proxy_conn_map[m_handle[CHOOSE d \in asked : \A e \in asked : d <= e]] IN
       IF c # NoConn /\ m_resp.pdu # NULL
       THEN /\ sent' = [sent EXCEPT ![c] = Append(@, m_resp.pdu)]
            /\ UNCHANGED <<mapVars, kernVars>>
       ELSE /\ Close({c} \ {NoConn})
            /\ UNCHANGED sent
    /\ m_resp' = NoTask
    /\ pc' = "loop"
    /\ UNCHANGED <<connVars, request, batch, reading, m_in_buf, life, poolVars,
                   s_response_pdu_list>>

\* Mutant of DeliverResponse: a response without connection is queued again.
DeliverOrRequeue ==
    /\ pc = "deliver"
    /\ LET c == g_uuid_conn_map[m_resp.uuid] IN
       CASE c = NoConn ->
              /\ s_response_pdu_list' = Append(s_response_pdu_list, m_resp)
              /\ UNCHANGED <<mapVars, kernVars, sent>>
         [] c # NoConn /\ m_resp.pdu # NULL ->
              /\ sent' = [sent EXCEPT ![c] = Append(@, m_resp.pdu)]
              /\ UNCHANGED <<mapVars, kernVars, s_response_pdu_list>>
         [] OTHER -> Close({c}) /\ UNCHANGED <<sent, s_response_pdu_list>>
    /\ m_resp' = NoTask
    /\ pc' = "loop"
    /\ UNCHANGED <<connVars, request, batch, reading, m_in_buf, life, poolVars>>

\* SendResponsePduList, lock released: send the response on the connection its
\* uuid names now, or close that connection if there is no PDU.
DeliverResponse ==
    /\ pc = "deliver"
    /\ LET c == g_uuid_conn_map[m_resp.uuid] IN
       IF c # NoConn /\ m_resp.pdu # NULL
       THEN /\ sent' = [sent EXCEPT ![c] = Append(@, m_resp.pdu)]
            /\ UNCHANGED <<mapVars, kernVars>>
       ELSE /\ Close({c} \ {NoConn})
            /\ UNCHANGED sent
    /\ m_resp' = NoTask
    /\ pc' = "loop"
    /\ UNCHANGED <<connVars, request, batch, reading, m_in_buf, life, poolVars,
                   s_response_pdu_list>>

EndOfLoop ==
    /\ pc = "loop" /\ s_response_pdu_list = <<>>
    /\ pc' = "wait"
    /\ UNCHANGED <<connVars, mapVars, kernVars, request, sent, mainVars, life,
                   poolVars, s_response_pdu_list>>

\* sig_handler only registers the exit timer; exit_callback ends the process.
SigHandler ==
    /\ Sigterm /\ life = "run"
    /\ life' = "exiting"
    /\ UNCHANGED <<connVars, mapVars, kernVars, request, sent, pc, mainVars,
                   poolVars, s_response_pdu_list>>

ExitCallback ==
    /\ pc = "events" /\ \A h \in Handles : batch[h] = "none"
    /\ life = "exiting"
    /\ life' = "exited"
    /\ UNCHANGED <<connVars, mapVars, kernVars, request, sent, pc, mainVars,
                   poolVars, s_response_pdu_list>>

-----------------------------------------------------------------------------
(* The worker threads.                                                     *)

\* CWorkerThread::Execute, under the lock of its task list.
PopTask(w) ==
    /\ running[w] = NoTask /\ m_task_list[w] # <<>>
    /\ running' = [running EXCEPT ![w] = Head(m_task_list[w])]
    /\ m_task_list' = [m_task_list EXCEPT ![w] = Tail(@)]
    /\ UNCHANGED <<connVars, mapVars, kernVars, request, sent, pc, mainVars, life,
                   s_response_pdu_list>>

\* Mutants of Run: the task is not dropped; the response is not validated.
RunKeepsTask(w) ==
    /\ running[w] # NoTask /\ Len(s_response_pdu_list) < 2
    /\ s_response_pdu_list' = Append(s_response_pdu_list, running[w])
    /\ UNCHANGED <<connVars, mapVars, kernVars, request, sent, pc, mainVars, life,
                   poolVars>>

RunUnchecked(w) ==
    /\ running[w] # NoTask
    /\ s_response_pdu_list' = Append(s_response_pdu_list, running[w])
    /\ running' = [running EXCEPT ![w] = NoTask]
    /\ UNCHANGED <<connVars, mapVars, kernVars, request, sent, pc, mainVars, life,
                   m_task_list>>

\* CProxyTask::run: the handler's response, or no PDU if it is not valid, goes
\* to the response list under the uuid of the request's connection.
Run(w) ==
    /\ running[w] # NoTask
    /\ s_response_pdu_list' = Append(s_response_pdu_list,
           [uuid |-> running[w].uuid,
            pdu  |-> IF request[running[w].pdu].kind = "request"
                     THEN running[w].pdu ELSE NULL])
    /\ running' = [running EXCEPT ![w] = NoTask]
    /\ UNCHANGED <<connVars, mapVars, kernVars, request, sent, pc, mainVars, life,
                   m_task_list>>

-----------------------------------------------------------------------------
Environment == \E c \in Conns :
    \/ \E kind \in Kinds : PeerSend(c, kind)
    \/ \E how \in {"fin", "reset"} : PeerGone(c, how)
    \/ Elapse(c)

EventLoop ==
    \/ EpollWait
    \/ \E h \in Handles : OnConnect(h) \/ OnRead(h) \/ EndOfEvent(h)
    \/ \E w \in Workers : HandlePduBuf(w)
    \/ ProxyTimer
    \/ PopResponse \/ DeliverResponse \/ EndOfLoop
    \/ ExitCallback

Worker(w) == PopTask(w) \/ Run(w)

Next ==
    /\ life # "exited"
    /\ Environment \/ EventLoop \/ SigHandler \/ \E w \in Workers : Worker(w)

Spec == Init /\ [][Next]_vars

\* Fairness.  The event loop never stops turning, each worker runs what it is
\* given, a silent connection does reach SERVER_TIMEOUT, and the exit timer, which
\* can only fire where _CheckTimer runs, does fire once 4 s have passed.
FairSpec ==
    /\ Spec
    /\ WF_vars(Next /\ EventLoop)
    /\ \A w \in Workers : WF_vars(Next /\ Worker(w))
    /\ \A c \in Conns : WF_vars(Next /\ Elapse(c))
    /\ SF_vars(Next /\ ExitCallback)

-----------------------------------------------------------------------------
(* Properties.                                                             *)

InFlight == [uuid : Uuids, pdu : Pdus]

TypeOK ==
    /\ s_uuid_alloctor \in 0 .. (UuidMod - 1) /\ accepted \in 0 .. MaxConn
    /\ m_uuid \in [Conns -> 0 .. (UuidMod - 1)]
    /\ m_handle \in [Conns -> Handles \cup {NULL}]
    /\ status \in [Conns -> {"new", "open", "closed"}]
    /\ g_proxy_conn_map \in [Handles -> Conns \cup {NoConn}]
    /\ g_uuid_conn_map \in [Uuids -> Conns \cup {NoConn}]
    /\ request \in Seq([conn : Conns, kind : Kinds]) /\ Len(request) <= MaxReq
    /\ inbox \in [Conns -> Seq(Pdus)]
    /\ peer \in [Conns -> {"up", "fin", "reset"}]
    /\ ready \in [Conns -> BOOLEAN]
    /\ quiet \in [Conns -> BOOLEAN]
    /\ sent \in [Conns -> Seq(Pdus)]
    /\ pc \in {"wait", "events", "read", "loop", "deliver"}
    /\ life \in {"run", "exiting", "exited"}
    /\ batch \in [Handles -> {"none", "in", "in_hup"}]
    /\ reading \in Conns \cup {NoConn}
    /\ m_in_buf \in Seq(Pdus)
    /\ m_resp \in [uuid : Uuids, pdu : Pdus \cup {NULL}] \cup {NoTask}
    /\ m_task_list \in [Workers -> Seq(InFlight)]
    /\ running \in [Workers -> InFlight \cup {NoTask}]
    /\ s_response_pdu_list \in Seq([uuid : Uuids, pdu : Pdus \cup {NULL}])

\* Two connections draw the same uuid only if the allocator went all the way
\* round between them: the constructor of CBusinessSrvConn and its skipped 0.
UuidDistance ==
    \A c, d \in 1 .. accepted :
        c < d /\ m_uuid[c] = m_uuid[d] => d - c >= UuidMod - 1

SharesUuid(c) == \E d \in 1 .. accepted : d # c /\ m_uuid[d] = m_uuid[c]

\* The maps and the live connections agree.  No entry of g_proxy_conn_map or of
\* g_uuid_conn_map points to a connection that Close has released; every open
\* connection is found under its handle, and under its uuid unless another
\* connection drew the same one.
MapsMatchConns ==
    /\ \A h \in Handles : g_proxy_conn_map[h] # NoConn =>
           /\ status[g_proxy_conn_map[h]] = "open"
           /\ m_handle[g_proxy_conn_map[h]] = h
    /\ \A u \in Uuids : g_uuid_conn_map[u] # NoConn =>
           /\ status[g_uuid_conn_map[u]] = "open"
           /\ m_uuid[g_uuid_conn_map[u]] = u
    /\ \A c \in Conns : status[c] = "open" =>
           /\ g_proxy_conn_map[m_handle[c]] = c
           /\ g_uuid_conn_map[m_uuid[c]] = c \/ SharesUuid(c)

\* SendResponsePduList writes a response to the connection its request came
\* from, although that connection may have been closed and its descriptor
\* reused while a worker held the request.  The one exception needs UuidMod - 1
\* connections between the two.
ReplyToRequester ==
    \A c \in Conns : \A i \in 1 .. Len(sent[c]) :
        LET from == request[sent[c][i]].conn IN
        from = c \/ from - c >= UuidMod - 1 \/ c - from >= UuidMod - 1

\* No request is answered twice, on one connection or on two.
AtMostOneReply ==
    \A c, d \in Conns : \A i \in 1 .. Len(sent[c]), j \in 1 .. Len(sent[d]) :
        sent[c][i] = sent[d][j] => c = d /\ i = j

Has(q, r) == \E i \in 1 .. Len(q) : q[i] = r
HasTask(q, r) == \E i \in 1 .. Len(q) : q[i].pdu = r

\* Between the socket, the worker and the response list a request that has a
\* valid response is never dropped while its connection stays open.
RequestNotLost ==
    \A r \in 1 .. Len(request) : request[r].kind = "request" =>
        LET c == request[r].conn IN
        \/ status[c] = "closed"
        \/ Has(inbox[c], r)
        \/ reading = c /\ Has(m_in_buf, r)
        \/ \E w \in Workers : HasTask(m_task_list[w], r) \/ running[w].pdu = r
        \/ HasTask(s_response_pdu_list, r)
        \/ m_resp.pdu = r
        \/ Has(sent[c], r)
        \/ SharesUuid(c)

\* The server closes a connection only for a reason that connection gave it: its
\* peer went away, it was silent for SERVER_TIMEOUT, or it sent a PDU that is
\* malformed or has no valid response.  No event or response meant for an earlier
\* user of its descriptor closes it.
CloseJustified ==
    [][\A c \in Conns : status[c] = "open" /\ status'[c] = "closed" =>
          \/ peer[c] # "up"
          \/ quiet[c]
          \/ \E r \in 1 .. Len(request) :
                 request[r].conn = c /\ request[r].kind \in {"malformed", "refused"}
          \/ SharesUuid(c)]_status

\* A connection whose peer has gone is closed in the end, even when the edge that
\* reported the shutdown was consumed by a read (OnRead stops at recv's 0), unless
\* the process ends first.
GonePeerClosed ==
    \A c \in Conns : peer[c] # "up" ~> status[c] = "closed" \/ life = "exited"

\* SendResponsePduList always comes to an end although workers keep appending
\* while it drains: the event loop goes back to epoll_wait again and again.
LoopReturns == []<>(pc = "wait" \/ life = "exited")

\* After SIGTERM the process does end: the loop keeps turning, whatever the peers
\* and the workers do, until exit_callback is called.
ExitsAfterSigterm == life = "exiting" ~> life = "exited"

\* The promise to the peers, and this server as an implementation of it, up to
\* the exit of the process, which closes every session that is open.
RR == INSTANCE RequestReply WITH
        Session <- Conns, Kind <- Kinds, MaxRequest <- MaxReq,
        session <- [c \in Conns |-> IF life = "exited" /\ status[c] = "open"
                                    THEN "closed" ELSE status[c]],
        replies <- sent
ImplementsRequestReply == RR!Spec
=============================================================================
