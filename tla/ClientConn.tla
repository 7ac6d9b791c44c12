----------------------------- MODULE ClientConn -----------------------------
(* The client library's connection to the message server                     *)
(* (ptp_net/ClientConn.cpp): the maps of connections by handle and by        *)
(* account, the state reported to the application, and the timer that closes *)
(* silent connections and reconnects.  Everything runs on the thread of the  *)
(* event loop; the timer callback is taken in three steps that nothing       *)
(* interrupts.                                                               *)
EXTENDS Naturals, FiniteSets

CONSTANTS Accounts,
          Handles,             \* descriptors
          None,                \* no entry
          MAX_RECONNECT_CNT,   \* 32
          CONNECT_TICKS,       \* 30: ticks of the timer spent connecting
          TIMEOUT_TICKS,       \* MOBILE_CLIENT_TIMEOUT, in ticks
          MaxInits             \* calls of init_msg_conn by the application

ASSUME BoundsPositive ==
  /\ MAX_RECONNECT_CNT \in Nat \ {0}
  /\ CONNECT_TICKS \in Nat /\ TIMEOUT_TICKS \in Nat /\ MaxInits \in Nat

VARIABLES
  connectionState,
  g_msg_conn_map,          \* by handle: the live connections
  g_account_msg_conn_map,  \* by account: a handle of g_msg_conn_map
  current_account_id,
  connecting_cnt, idle_cnt, reconnect_cnt,
  at,      \* where the loop's thread is: "loop", in the timer, or "hung"
  inits,   \* calls of init_msg_conn by the application, so far
  waited   \* ticks since connectionState became "Closed", counted to MAX_RECONNECT_CNT + 1

mapVars == <<g_msg_conn_map, g_account_msg_conn_map>>
cntVars == <<connecting_cnt, idle_cnt, reconnect_cnt>>
vars == <<connectionState, mapVars, current_account_id, cntVars, at, inits, waited>>

Conns == [account : Accounts, open : BOOLEAN, quiet : 0..(TIMEOUT_TICKS + 1)]
ASSUME NoneFresh == None \notin Accounts \cup Handles \cup Conns

Live == {h \in Handles : g_msg_conn_map[h] # None}

TypeOK ==
  /\ connectionState \in {"Unset", "Connecting", "Connected", "Closed"}
  /\ g_msg_conn_map \in [Handles -> Conns \cup {None}]
  /\ g_account_msg_conn_map \in [Accounts -> Handles \cup {None}]
  /\ current_account_id \in Accounts
  /\ connecting_cnt \in 0..CONNECT_TICKS
  /\ idle_cnt \in Nat
  /\ reconnect_cnt \in 0..MAX_RECONNECT_CNT
  /\ at \in {"loop", "timer", "count", "retry", "hung"}
  /\ inits \in 0..MaxInits
  /\ waited \in 0..(MAX_RECONNECT_CNT + 1)

-----------------------------------------------------------------------------
(* CClientConn::Connect on the maps given; the handle is new, or netlib_     *)
(* connect fails at once and the connection is forgotten, "Connecting".      *)

\* Mutant: no entry by account.
ConnectByHandleOnly(a) ==
  /\ connectionState' = "Connecting"
  /\ \/ UNCHANGED mapVars
     \/ \E h \in Handles \ Live :
          /\ g_msg_conn_map' = [g_msg_conn_map EXCEPT
                                  ![h] = [account |-> a, open |-> FALSE, quiet |-> 0]]
          /\ UNCHANGED g_account_msg_conn_map

Connect(a) ==
  /\ connectionState' = "Connecting"
  /\ \/ UNCHANGED mapVars
     \/ \E h \in Handles \ Live :
          /\ g_msg_conn_map' = [g_msg_conn_map EXCEPT
                                  ![h] = [account |-> a, open |-> FALSE, quiet |-> 0]]
          /\ g_account_msg_conn_map' =
               [g_account_msg_conn_map EXCEPT ![a] = IF @ = None THEN h ELSE @]

Init ==
  /\ connectionState = "Unset"
  /\ g_msg_conn_map = [h \in Handles |-> None]
  /\ g_account_msg_conn_map = [a \in Accounts |-> None]
  /\ current_account_id \in Accounts
  /\ connecting_cnt = 0 /\ idle_cnt = 0 /\ reconnect_cnt = 0
  /\ at = "loop" /\ inits = 0 /\ waited = 0

Doubled(n) == IF n = 0 THEN 1 ELSE 2 * n

\* Mutant: the entry by account stays.
CloseKeepsAccount(h) ==
  /\ connectionState' = "Closed"
  /\ reconnect_cnt' = IF Doubled(reconnect_cnt) > MAX_RECONNECT_CNT
                        THEN 1 ELSE Doubled(reconnect_cnt)
  /\ idle_cnt' = IF Doubled(reconnect_cnt) > MAX_RECONNECT_CNT THEN 0 ELSE idle_cnt
  /\ g_msg_conn_map' = [g_msg_conn_map EXCEPT ![h] = None]
  /\ UNCHANGED g_account_msg_conn_map
  /\ waited' = 0

\* Mutant: starts over at 0, which means connected.
CloseWrapsToZero(h) ==
  /\ connectionState' = "Closed"
  /\ reconnect_cnt' = IF Doubled(reconnect_cnt) > MAX_RECONNECT_CNT
                        THEN 0 ELSE Doubled(reconnect_cnt)
  /\ idle_cnt' = IF Doubled(reconnect_cnt) > MAX_RECONNECT_CNT THEN 0 ELSE idle_cnt
  /\ g_msg_conn_map' = [g_msg_conn_map EXCEPT ![h] = None]
  /\ g_account_msg_conn_map' =
       [g_account_msg_conn_map EXCEPT ![g_msg_conn_map[h].account] = None]
  /\ waited' = 0

\* CClientConn::Close
Close(h) ==
  /\ connectionState' = "Closed"
  /\ reconnect_cnt' = IF Doubled(reconnect_cnt) > MAX_RECONNECT_CNT
                        THEN 1 ELSE Doubled(reconnect_cnt)
  /\ idle_cnt' = IF Doubled(reconnect_cnt) > MAX_RECONNECT_CNT THEN 0 ELSE idle_cnt
  /\ g_msg_conn_map' = [g_msg_conn_map EXCEPT ![h] = None]
  /\ g_account_msg_conn_map' =
       [g_account_msg_conn_map EXCEPT ![g_msg_conn_map[h].account] = None]
  /\ waited' = 0

-----------------------------------------------------------------------------
(* The application, in its callbacks.                                        *)

SetCurrentAccountId(a) ==
  /\ at = "loop" /\ inits > 0
  /\ current_account_id # a
  /\ current_account_id' = a
  /\ UNCHANGED <<connectionState, mapVars, cntVars, at, inits, waited>>

InitMsgConn(a) ==
  /\ at = "loop" /\ inits < MaxInits
  /\ Connect(a)
  /\ inits' = inits + 1
  /\ UNCHANGED <<current_account_id, cntVars, at, waited>>

-----------------------------------------------------------------------------
(* Events of the network, by imconn_callback.                                *)

OnConfirm(h) ==
  /\ at = "loop" /\ h \in Live /\ ~g_msg_conn_map[h].open
  /\ g_msg_conn_map' = [g_msg_conn_map EXCEPT ![h].open = TRUE]
  /\ reconnect_cnt' = 0 /\ idle_cnt' = 0 /\ connecting_cnt' = 0
  /\ connectionState' = "Connected"
  /\ UNCHANGED <<g_account_msg_conn_map, current_account_id, at, inits, waited>>

OnRead(h) ==
  /\ at = "loop" /\ h \in Live /\ g_msg_conn_map[h].open
  /\ g_msg_conn_map[h].quiet > 0
  /\ g_msg_conn_map' = [g_msg_conn_map EXCEPT ![h].quiet = 0]
  /\ UNCHANGED <<connectionState, g_account_msg_conn_map, current_account_id,
                 cntVars, at, inits, waited>>

\* The connection is refused, or the peer closes it.
OnClose(h) ==
  /\ at = "loop" /\ h \in Live
  /\ Close(h)
  /\ UNCHANGED <<current_account_id, connecting_cnt, at, inits>>

-----------------------------------------------------------------------------
(* msg_conn_timer_callback, once init_msg_conn has registered it.            *)

\* Its loops look at the first entry of the map, and do not advance: they end
\* only at the account's own entry (and close_msg_conn if it is open).
NotFirst(a) == \E b \in Accounts \ {a} : g_account_msg_conn_map[b] # None
NoEntry == \A a \in Accounts : g_account_msg_conn_map[a] = None
Current == g_account_msg_conn_map[current_account_id]

Quieter(m) ==
  [h \in Handles |->
     IF m[h] = None THEN None
     ELSE [m[h] EXCEPT !.quiet = IF @ > TIMEOUT_TICKS THEN @ ELSE @ + 1]]

\* A second passes.
Tick ==
  /\ at = "loop" /\ inits > 0
  /\ at' = "timer"
  /\ g_msg_conn_map' = Quieter(g_msg_conn_map)
  /\ waited' = IF connectionState = "Closed" /\ waited <= MAX_RECONNECT_CNT
                 THEN waited + 1 ELSE waited
  /\ UNCHANGED <<connectionState, g_account_msg_conn_map, current_account_id,
                 cntVars, inits>>

TimedOut(h) == g_msg_conn_map[h].open /\ g_msg_conn_map[h].quiet > TIMEOUT_TICKS

OnTimer ==
  /\ at = "timer"
  /\ \/ /\ connectionState # "Connected" \/ NoEntry
        /\ at' = "count"
        /\ UNCHANGED <<connectionState, mapVars, cntVars, waited>>
     \/ /\ connectionState = "Connected" /\ NotFirst(current_account_id)
        /\ at' = "hung"
        /\ UNCHANGED <<connectionState, mapVars, cntVars, waited>>
     \/ /\ connectionState = "Connected" /\ Current # None
        /\ at' = "count"
        /\ \/ TimedOut(Current) /\ Close(Current)
           \/ ~TimedOut(Current)
              /\ UNCHANGED <<connectionState, mapVars, idle_cnt, reconnect_cnt, waited>>
        /\ UNCHANGED connecting_cnt
  /\ UNCHANGED <<current_account_id, inits>>

\* Mutant: waits for an entry.
CloseMsgConnWaits(a) ==
  \/ /\ NoEntry
     /\ at' = "hung"
     /\ UNCHANGED <<connectionState, mapVars, idle_cnt, reconnect_cnt, waited>>
  \/ /\ g_account_msg_conn_map[a] # None
     /\ g_msg_conn_map[g_account_msg_conn_map[a]].open
     /\ at' = "retry"
     /\ Close(g_account_msg_conn_map[a])
  \/ /\ \/ NotFirst(a)
        \/ /\ g_account_msg_conn_map[a] # None
           /\ ~g_msg_conn_map[g_account_msg_conn_map[a]].open
     /\ at' = "hung"
     /\ UNCHANGED <<connectionState, mapVars, idle_cnt, reconnect_cnt, waited>>

CloseMsgConn(a) ==
  \/ /\ NoEntry
     /\ at' = "retry"
     /\ UNCHANGED <<connectionState, mapVars, idle_cnt, reconnect_cnt, waited>>
  \/ /\ g_account_msg_conn_map[a] # None
     /\ g_msg_conn_map[g_account_msg_conn_map[a]].open
     /\ at' = "retry"
     /\ Close(g_account_msg_conn_map[a])
  \/ /\ \/ NotFirst(a)
        \/ /\ g_account_msg_conn_map[a] # None
           /\ ~g_msg_conn_map[g_account_msg_conn_map[a]].open
     /\ at' = "hung"
     /\ UNCHANGED <<connectionState, mapVars, idle_cnt, reconnect_cnt, waited>>

Count ==
  /\ at = "count"
  /\ \/ /\ reconnect_cnt = 0 \/ connectionState = "Connected"
        /\ at' = "retry"
        /\ UNCHANGED <<connectionState, mapVars, cntVars, waited>>
     \/ /\ reconnect_cnt > 0 /\ connectionState = "Closed"
        /\ idle_cnt' = idle_cnt + 1
        /\ at' = "retry"
        /\ UNCHANGED <<connectionState, mapVars, connecting_cnt, reconnect_cnt, waited>>
     \/ /\ reconnect_cnt > 0 /\ connectionState = "Connecting"
        /\ connecting_cnt < CONNECT_TICKS
        /\ connecting_cnt' = connecting_cnt + 1
        /\ at' = "retry"
        /\ UNCHANGED <<connectionState, mapVars, idle_cnt, reconnect_cnt, waited>>
     \/ /\ reconnect_cnt > 0 /\ connectionState = "Connecting"
        /\ connecting_cnt = CONNECT_TICKS
        /\ connecting_cnt' = 0
        /\ CloseMsgConn(current_account_id)
  /\ UNCHANGED <<current_account_id, inits>>

\* Mutant: one tick late.
DueLate ==
  /\ reconnect_cnt > 0
  /\ connectionState = "Closed" /\ idle_cnt > reconnect_cnt

Due ==
  /\ reconnect_cnt > 0
  /\ connectionState = "Closed" /\ idle_cnt >= reconnect_cnt

Retry ==
  /\ at = "retry"
  /\ at' = "loop"
  /\ \/ Due /\ Connect(current_account_id)
     \/ ~Due /\ UNCHANGED <<connectionState, mapVars>>
  /\ UNCHANGED <<current_account_id, cntVars, inits, waited>>

\* The loop of a callback goes round for ever.
Spin == at = "hung" /\ UNCHANGED vars

Next ==
  \/ \E a \in Accounts : SetCurrentAccountId(a) \/ InitMsgConn(a)
  \/ \E h \in Handles : OnConfirm(h) \/ OnRead(h) \/ OnClose(h)
  \/ Tick \/ OnTimer \/ Count \/ Retry
  \/ Spin

Answer(h) ==
  /\ h \in Live /\ ~g_msg_conn_map[h].open
  /\ OnConfirm(h) \/ OnClose(h)

(* The loop calls the timer every second.  The network answers every attempt *)
(* to connect, and a server that is asked again and again accepts at last.   *)
Fairness ==
  /\ WF_vars(Tick) /\ WF_vars(OnTimer) /\ WF_vars(Count) /\ WF_vars(Retry)
  /\ \A h \in Handles : WF_vars(Answer(h))
  /\ SF_vars(\E h \in Handles : OnConfirm(h))

Spec == Init /\ [][Next]_vars /\ Fairness

-----------------------------------------------------------------------------
\* The application uses the library as the tests do: one call, one account.
OneAccount ==
  /\ inits <= 1
  /\ \A h \in Live : g_msg_conn_map[h].account = current_account_id

(* get_conn returns live connections of the account asked for, however the   *)
(* application mixes accounts and however connections come and go.           *)
AccountsLead ==
  \A a \in Accounts :
    g_account_msg_conn_map[a] # None
      => /\ g_account_msg_conn_map[a] \in Live
         /\ g_msg_conn_map[g_account_msg_conn_map[a]].account = a

(* With one account there is never more than one connection, get_conn finds  *)
(* it, and the state reported to the application is its state; "Connecting"  *)
(* without a connection is an attempt netlib_connect refused.                *)
StateAgrees ==
  OneAccount =>
    /\ Cardinality(Live) <= 1
    /\ \A h \in Live : Current = h
    /\ connectionState = "Connected" => \E h \in Live : g_msg_conn_map[h].open
    /\ connectionState = "Connecting" => \A h \in Live : ~g_msg_conn_map[h].open
    /\ connectionState = "Closed" => Live = {}

(* With one account the loop's thread hangs only in close_msg_conn, called   *)
(* because connecting took too long: it waits for the connection to be open. *)
HangsOnlyConnecting ==
  (OneAccount /\ at = "hung") =>
    /\ connectionState = "Connecting" /\ reconnect_cnt > 0
    /\ \E h \in Live : ~g_msg_conn_map[h].open

(* A lost connection is retried after 1, 1, 2, 4 ... ticks, half of what     *)
(* Close announces from the third on: idle_cnt still holds the last wait.    *)
RetriesInTime ==
  (OneAccount /\ connectionState = "Closed") =>
    waited <= IF reconnect_cnt <= 1 THEN 1 ELSE reconnect_cnt \div 2

(* A client that lost its connection is connected again, unless its thread   *)
(* hangs or an attempt fails at once, after which no timer tries again.      *)
Reconnects ==
  (inits = 1 /\ connectionState = "Closed")
    ~> \/ connectionState = "Connected"
       \/ at = "hung"
       \/ connectionState = "Connecting" /\ Live = {}
       \/ inits > 1
=============================================================================
