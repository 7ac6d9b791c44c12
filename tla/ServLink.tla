------------------------------ MODULE ServLink ------------------------------
(***************************************************************************)
(* The connections a message server keeps to its business servers:         *)
(* serv_info_t slots (ServInfo.h) and their CBusinessClientConn.  A slot   *)
(* without connection is retried by a timer that runs once a second, after *)
(* a delay that doubles from 4 to 64 seconds and then starts again at 4.   *)
(***************************************************************************)
EXTENDS Integers, Sequences

CONSTANTS Slots,         \* indices of g_db_server_list
          SyncFailures   \* whether netlib_connect may fail at once (no descriptor, no route)

ASSUME SyncFailuresAssumption == SyncFailures \in BOOLEAN

MAX_RECONNECT_CNT == 64
MIN_RECONNECT_CNT == 4

\* serv_conn: NULL, or a CBusinessClientConn that has a socket and waits for its
\* connect to complete, is open, or never got a socket.
NULL == "null"
ConnStates == {NULL, "connecting", "open", "no socket"}

VARIABLES
    serv_conn, idle_cnt, reconnect_cnt,  \* the fields of the slots
    up,        \* whether the slot's server accepts and keeps connections
    failures   \* history: closes since the last confirm, 6 counted as 1 again

slotVars == <<serv_conn, idle_cnt, reconnect_cnt, failures>>
linkVars == <<slotVars, up>>

-----------------------------------------------------------------------------
\* What CBusinessClientConn::Connect leaves in serv_conn.
Connect == {"connecting"} \cup (IF SyncFailures THEN {"no socket"} ELSE {})

\* Keeps to the longest delay: a mutation of Doubled.
DoubledAndHeld(n) == IF 2 * n > MAX_RECONNECT_CNT THEN MAX_RECONNECT_CNT ELSE 2 * n

Doubled(n) == IF 2 * n > MAX_RECONNECT_CNT THEN MIN_RECONNECT_CNT ELSE 2 * n

\* The slots after Close of the connections of the slots in S, which runs
\* serv_reset for each.
ServReset(S) ==
    [conn |-> [i \in Slots |-> IF i \in S THEN NULL ELSE serv_conn[i]],
     idle |-> [i \in Slots |-> IF i \in S THEN 0 ELSE idle_cnt[i]],
     reconnect |-> [i \in Slots |-> IF i \in S THEN Doubled(reconnect_cnt[i])
                                    ELSE reconnect_cnt[i]],
     failures |-> [i \in Slots |-> IF i \in S THEN (failures[i] % 5) + 1 ELSE failures[i]]]

-----------------------------------------------------------------------------
\* init_business_serv_conn, serv_init.
LinkInit ==
    /\ serv_conn \in [Slots -> Connect]
    /\ idle_cnt = [i \in Slots |-> 0]
    /\ reconnect_cnt = [i \in Slots |-> MIN_RECONNECT_CNT \div 2]
    /\ failures = [i \in Slots |-> 0]
    /\ up \in [Slots -> BOOLEAN]

\* Does not set m_bOpen: a mutation of LinkOnConfirm.
LinkOnConfirmNotOpen(i) ==
    /\ serv_conn[i] = "connecting" /\ up[i]
    /\ reconnect_cnt' = [reconnect_cnt EXCEPT ![i] = MIN_RECONNECT_CNT \div 2]
    /\ failures' = [failures EXCEPT ![i] = 0]
    /\ UNCHANGED <<serv_conn, idle_cnt, up>>

\* The connect completes: NETLIB_MSG_CONFIRM.
LinkOnConfirm(i) ==
    /\ serv_conn[i] = "connecting" /\ up[i]
    /\ serv_conn' = [serv_conn EXCEPT ![i] = "open"]
    /\ reconnect_cnt' = [reconnect_cnt EXCEPT ![i] = MIN_RECONNECT_CNT \div 2]
    /\ failures' = [failures EXCEPT ![i] = 0]
    /\ UNCHANGED <<idle_cnt, up>>

\* The connect fails or the server goes away: NETLIB_MSG_CLOSE.
LinkOnClose(i) ==
    /\ serv_conn[i] \in {"connecting", "open"} /\ ~up[i]
    /\ LET s == ServReset({i})
       IN  /\ serv_conn' = s.conn /\ idle_cnt' = s.idle
           /\ reconnect_cnt' = s.reconnect /\ failures' = s.failures
    /\ UNCHANGED up

\* A slot that is due is not tried again: a mutation of TimerCallback.
TimerCallbackMisses(S) ==
    /\ S \subseteq {i \in Slots : serv_conn[i] = "open" /\ ~up[i]}
    /\ LET s == ServReset(S)
       IN  /\ serv_conn' = s.conn
           /\ idle_cnt' = [i \in Slots |->
                IF s.conn[i] = NULL THEN (s.idle[i] + 1) % s.reconnect[i] ELSE s.idle[i]]
           /\ reconnect_cnt' = s.reconnect /\ failures' = s.failures
    /\ UNCHANGED up

\* business_server_conn_timer_callback: OnTimer closes the open connections that
\* were silent for SERVER_TIMEOUT (S), then serv_check_reconnect counts the
\* second for every slot without connection and connects the ones that are due.
TimerCallback(S) ==
    /\ S \subseteq {i \in Slots : serv_conn[i] = "open" /\ ~up[i]}
    /\ LET s == ServReset(S)
           due == {i \in Slots : s.conn[i] = NULL /\ s.idle[i] + 1 >= s.reconnect[i]}
       IN  /\ \E c \in [Slots -> Connect] :
                serv_conn' = [i \in Slots |-> IF i \in due THEN c[i] ELSE s.conn[i]]
           /\ idle_cnt' = [i \in Slots |-> IF s.conn[i] = NULL THEN s.idle[i] + 1 ELSE s.idle[i]]
           /\ reconnect_cnt' = s.reconnect /\ failures' = s.failures
    /\ UNCHANGED up

\* A server, or the network to it, stops or starts to work.
Change(i) ==
    /\ up' = [up EXCEPT ![i] = ~@]
    /\ UNCHANGED slotVars

Tick == \E S \in SUBSET Slots : TimerCallback(S)

LinkNext ==
    \/ Tick
    \/ \E i \in Slots : LinkOnConfirm(i) \/ LinkOnClose(i) \/ Change(i)

LinkSpec == LinkInit /\ [][LinkNext]_linkVars

\* The event loop runs its timers, and the kernel reports how a connect ended and
\* that a server is gone (SERVER_TIMEOUT reports it if the kernel does not).
LinkFairSpec ==
    /\ LinkSpec
    /\ WF_linkVars(Tick)
    /\ \A i \in Slots : WF_linkVars(LinkOnConfirm(i)) /\ WF_linkVars(LinkOnClose(i))

-----------------------------------------------------------------------------
LinkTypeOK ==
    /\ serv_conn \in [Slots -> ConnStates]
    /\ idle_cnt \in [Slots -> 0 .. MAX_RECONNECT_CNT]
    /\ reconnect_cnt \in [Slots -> 0 .. MAX_RECONNECT_CNT]
    /\ up \in [Slots -> BOOLEAN]
    /\ failures \in [Slots -> 0 .. 5]

\* "will reconnect in 4s, 8s, 16s, 32s, 64s, 4s 8s ...": a slot waits the delay
\* that the number of failures in a row calls for, counted from the last time it
\* was open, and no longer than that, however closes, confirms and timers fall.
Schedule == <<4, 8, 16, 32, 64>>
Backoff ==
    \A i \in Slots : serv_conn[i] = NULL =>
        /\ failures[i] # 0
        /\ reconnect_cnt[i] = Schedule[failures[i]]
        /\ idle_cnt[i] < reconnect_cnt[i]

\* A slot without connection is tried again.
Retried == \A i \in Slots : serv_conn[i] = NULL ~> serv_conn[i] # NULL

\* Once its server stays up, a slot gets a connection and keeps it, whatever
\* happened before, unless a connect fails at once.
Recovers ==
    \A i \in Slots : <>[]up[i] => <>[](serv_conn[i] = "open") \/ <>(serv_conn[i] = "no socket")

\* "will reconnect ...": a slot that has no usable connection gets an attempt.
WillReconnect ==
    \A i \in Slots : serv_conn[i] \in {NULL, "no socket"} ~> serv_conn[i] = "connecting"
=============================================================================
