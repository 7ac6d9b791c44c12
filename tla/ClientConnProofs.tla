-------------------------- MODULE ClientConnProofs --------------------------
(***************************************************************************)
(* Proofs about ClientConn for any accounts, descriptors and limits.       *)
(***************************************************************************)
EXTENDS ClientConn, FiniteSetTheorems, TLAPS

\* While the application has called init_msg_conn at most once there is at most one
\* connection, its account leads to it, and the state reported is its state.  This
\* does not depend on the account that is current.
Single ==
    /\ \A h, k \in Live : h = k
    /\ \A h \in Live : g_account_msg_conn_map[g_msg_conn_map[h].account] = h
    /\ connectionState = "Connected" => \E h \in Live : g_msg_conn_map[h].open
    /\ connectionState = "Connecting" => \A h \in Live : ~g_msg_conn_map[h].open
    /\ connectionState \in {"Closed", "Unset"} => Live = {}
    /\ inits = 0 => connectionState = "Unset"

\* The second that Tick let pass and Count has not counted yet.
Uncounted == IF at \in {"timer", "count"} THEN 1 ELSE 0

\* How the counters follow the clock: an attempt is made when idle_cnt has reached
\* reconnect_cnt, so that a Close finds half of the wait it announces behind it.
Paced ==
    /\ reconnect_cnt > 1 => \E n \in Nat : reconnect_cnt = 2 * n
    /\ connectionState \in {"Connected", "Unset"} => reconnect_cnt = 0
    /\ connectionState = "Connecting" => idle_cnt >= reconnect_cnt
    /\ connectionState = "Closed" =>
         /\ reconnect_cnt >= 1
         /\ idle_cnt + Uncounted >= waited + (reconnect_cnt \div 2)
         /\ at = "loop" => waited = 0 \/ idle_cnt < reconnect_cnt
         /\ at \in {"timer", "count"} => waited <= 1 \/ idle_cnt < reconnect_cnt
         /\ at = "retry" => waited <= 1 \/ idle_cnt <= reconnect_cnt

Inv == TypeOK /\ AccountsLead /\ HangsOnlyConnecting /\ (inits <= 1 => Single /\ Paced)

\* The maps keep their types.
MapTypes ==
    /\ g_msg_conn_map \in [Handles -> Conns \cup {None}]
    /\ g_account_msg_conn_map \in [Accounts -> Handles \cup {None}]

\* No connection comes, goes or changes its account.
SameConns ==
    /\ UNCHANGED g_account_msg_conn_map
    /\ MapTypes'
    /\ \A h \in Handles :
         /\ g_msg_conn_map'[h] = None <=> g_msg_conn_map[h] = None
         /\ g_msg_conn_map[h] # None =>
              g_msg_conn_map'[h].account = g_msg_conn_map[h].account

-----------------------------------------------------------------------------
(* What the operations do to the maps.                                       *)

\* A live connection is a record.
LEMMA LiveConn ==
    ASSUME MapTypes, NEW h \in Live
    PROVE  /\ h \in Handles /\ h # None
           /\ g_msg_conn_map[h] \in Conns /\ g_msg_conn_map[h].account \in Accounts
  BY NoneFresh, Zenon DEF MapTypes, Live, Conns

\* Connections that stay the same keep the accounts right.
LEMMA SameKeepsAccounts ==
    ASSUME MapTypes, AccountsLead, SameConns
    PROVE  AccountsLead' /\ Live' = Live
<1>1. Live' = Live
  BY Zenon DEF SameConns, Live
<1>2. AccountsLead'
  BY <1>1, NoneFresh, Zenon DEF AccountsLead, SameConns, Live, MapTypes
<1>. QED
  BY <1>1, <1>2, Zenon

\* Connect adds at most one connection, not open, and leads its account to it.
LEMMA ConnectMaps ==
    ASSUME MapTypes, AccountsLead, NEW a \in Accounts, Connect(a)
    PROVE  /\ MapTypes' /\ AccountsLead'
           /\ Live = {} => /\ \A h, k \in Live' : h = k
                           /\ \A h \in Live' :
                                /\ g_account_msg_conn_map'[g_msg_conn_map'[h].account] = h
                                /\ ~g_msg_conn_map'[h].open
<1>1. CASE UNCHANGED mapVars
  BY <1>1, Zenon DEF MapTypes, AccountsLead, Live, mapVars
<1>2. ASSUME NEW h \in Handles \ Live,
             g_msg_conn_map' = [g_msg_conn_map EXCEPT
                                  ![h] = [account |-> a, open |-> FALSE, quiet |-> 0]],
             g_account_msg_conn_map' =
               [g_account_msg_conn_map EXCEPT ![a] = IF @ = None THEN h ELSE @]
      PROVE  /\ MapTypes' /\ AccountsLead'
             /\ Live = {} => /\ \A i, k \in Live' : i = k
                             /\ \A i \in Live' :
                                  /\ g_account_msg_conn_map'[g_msg_conn_map'[i].account] = i
                                  /\ ~g_msg_conn_map'[i].open
  <2>1. PICK r \in Conns : r = [account |-> a, open |-> FALSE, quiet |-> 0]
                           /\ r.account = a /\ ~r.open
    <3>1. ASSUME NEW b \in BOOLEAN
          PROVE  [account |-> a, open |-> b, quiet |-> 0] \in Conns
      BY BoundsPositive DEF Conns
    <3>2. [account |-> a, open |-> FALSE, quiet |-> 0] \in Conns
      BY <3>1, Zenon
    <3>. QED
      BY <3>2, Zenon
  <2>2. r # None /\ h # None
    BY NoneFresh, Zenon
  <2>3. MapTypes'
    BY <1>2, <2>1, Zenon DEF MapTypes
  <2>4. g_msg_conn_map[h] = None
    BY Zenon DEF Live
  <2>5. Live' = Live \cup {h} /\ g_msg_conn_map'[h] = r
    BY <1>2, <2>1, <2>2, Zenon DEF MapTypes, Live
  <2>6. \A i \in Live : g_msg_conn_map'[i] = g_msg_conn_map[i] /\ i # h
    BY <1>2, <2>4, Zenon DEF MapTypes, Live
  <2>7. \A b \in Accounts : g_account_msg_conn_map'[b] =
            IF b = a /\ g_account_msg_conn_map[b] = None THEN h ELSE g_account_msg_conn_map[b]
    BY <1>2, Zenon DEF MapTypes
  <2>8. AccountsLead'
    <3>. SUFFICES ASSUME NEW b \in Accounts, g_account_msg_conn_map'[b] # None
                  PROVE  /\ g_account_msg_conn_map'[b] \in Live'
                         /\ g_msg_conn_map'[g_account_msg_conn_map'[b]].account = b
      BY Zenon DEF AccountsLead
    <3>1. CASE b = a /\ g_account_msg_conn_map[b] = None
      BY <2>1, <2>5, <2>7, <3>1, Zenon
    <3>2. CASE ~(b = a /\ g_account_msg_conn_map[b] = None)
      <4>1. g_account_msg_conn_map'[b] = g_account_msg_conn_map[b]
        BY <2>7, <3>2, Zenon
      <4>. QED
        BY <2>5, <2>6, <4>1, Zenon DEF AccountsLead
    <3>. QED
      BY <3>1, <3>2, Zenon
  <2>9. ASSUME Live = {}
        PROVE  /\ \A i, k \in Live' : i = k
               /\ \A i \in Live' :
                    /\ g_account_msg_conn_map'[g_msg_conn_map'[i].account] = i
                    /\ ~g_msg_conn_map'[i].open
    <3>1. Live' = {h}
      BY <2>5, <2>9, Zenon
    <3>2. g_account_msg_conn_map[a] = None
      BY <2>9, Zenon DEF AccountsLead
    <3>3. g_account_msg_conn_map'[a] = h
      BY <2>7, <3>2, Zenon
    <3>. QED
      BY <2>1, <2>5, <3>1, <3>3, Zenon
  <2>. QED
    BY <2>3, <2>8, <2>9, Zenon
<1>. QED
  BY <1>1, <1>2, Zenon DEF Connect

\* Close removes the connection from both maps.
LEMMA CloseMaps ==
    ASSUME MapTypes, AccountsLead, NEW h \in Live, Close(h)
    PROVE  MapTypes' /\ AccountsLead' /\ Live' = Live \ {h}
<1>1. PICK a \in Accounts : a = g_msg_conn_map[h].account
  BY LiveConn, Zenon
<1>2. MapTypes'
  BY <1>1, Zenon DEF Close, MapTypes, Live
<1>3. Live' = Live \ {h}
  BY Zenon DEF Close, MapTypes, Live
<1>4. \A k \in Live \ {h} : g_msg_conn_map'[k] = g_msg_conn_map[k]
  BY Zenon DEF Close, MapTypes, Live
<1>5. /\ g_account_msg_conn_map'[a] = None
      /\ \A b \in Accounts \ {a} : g_account_msg_conn_map'[b] = g_account_msg_conn_map[b]
  BY <1>1, Zenon DEF Close, MapTypes
<1>6. AccountsLead'
  <2>. SUFFICES ASSUME NEW b \in Accounts, g_account_msg_conn_map'[b] # None
                PROVE  /\ g_account_msg_conn_map'[b] \in Live'
                       /\ g_msg_conn_map'[g_account_msg_conn_map'[b]].account = b
    BY Zenon DEF AccountsLead
  <2>1. b # a /\ g_account_msg_conn_map'[b] = g_account_msg_conn_map[b]
    BY <1>5, Zenon
  <2>2. /\ g_account_msg_conn_map[b] \in Live
        /\ g_msg_conn_map[g_account_msg_conn_map[b]].account = b
    BY <2>1, Zenon DEF AccountsLead
  <2>3. g_account_msg_conn_map[b] # h
    BY <1>1, <2>1, <2>2, Zenon
  <2>. QED
    BY <1>3, <1>4, <2>1, <2>2, <2>3, Zenon
<1>. QED
  BY <1>2, <1>3, <1>6, Zenon

\* OnConfirm, OnRead and the passing of a second change no more than open and quiet.
LEMMA OpenKept ==
    ASSUME MapTypes, NEW h \in Live, NEW m \in Conns,
           m.account = g_msg_conn_map[h].account,
           g_msg_conn_map' = [g_msg_conn_map EXCEPT ![h] = m],
           UNCHANGED g_account_msg_conn_map
    PROVE  SameConns /\ g_msg_conn_map'[h] = m
           /\ \A k \in Handles \ {h} : g_msg_conn_map'[k] = g_msg_conn_map[k]
<1>1. h \in Handles /\ g_msg_conn_map[h] # None /\ m # None
  BY NoneFresh, Zenon DEF Live
<1>2. /\ g_msg_conn_map'[h] = m
      /\ \A k \in Handles \ {h} : g_msg_conn_map'[k] = g_msg_conn_map[k]
      /\ MapTypes'
  BY <1>1, Zenon DEF MapTypes
<1>. QED
  BY <1>1, <1>2, Zenon DEF SameConns

\* OnConfirm opens the connection of its handle and moves no other.
LEMMA OnConfirmMaps ==
    ASSUME MapTypes, NEW h \in Handles, OnConfirm(h)
    PROVE  h \in Live /\ SameConns /\ g_msg_conn_map'[h].open
<1>1. h \in Live /\ g_msg_conn_map[h] \in Conns
  BY LiveConn, Zenon DEF OnConfirm
<1>2. ASSUME NEW b \in BOOLEAN
      PROVE  /\ [g_msg_conn_map[h] EXCEPT !.open = b] \in Conns
             /\ [g_msg_conn_map[h] EXCEPT !.open = b].account = g_msg_conn_map[h].account
             /\ [g_msg_conn_map[h] EXCEPT !.open = b].open = b
  BY <1>1, Zenon DEF Conns
<1>3. PICK m \in Conns : /\ m = [g_msg_conn_map[h] EXCEPT !.open = TRUE]
                         /\ m.account = g_msg_conn_map[h].account /\ m.open
  BY <1>2, Zenon
<1>4. g_msg_conn_map' = [g_msg_conn_map EXCEPT ![h] = m] /\ UNCHANGED g_account_msg_conn_map
  BY <1>3, Zenon DEF OnConfirm
<1>. QED
  BY <1>1, <1>3, <1>4, OpenKept, Zenon

SameOpen == \A k \in Live : g_msg_conn_map'[k].open = g_msg_conn_map[k].open

\* OnRead changes who owns no connection and opens none.
LEMMA OnReadMaps ==
    ASSUME MapTypes, NEW h \in Handles, OnRead(h)
    PROVE  SameConns /\ SameOpen
<1>1. h \in Live /\ g_msg_conn_map[h] \in Conns
  BY LiveConn, Zenon DEF OnRead
<1>2. PICK m \in Conns : /\ m = [g_msg_conn_map[h] EXCEPT !.quiet = 0]
                         /\ m.account = g_msg_conn_map[h].account
                         /\ m.open = g_msg_conn_map[h].open
  <2>1. /\ [g_msg_conn_map[h] EXCEPT !.quiet = 0] \in Conns
        /\ [g_msg_conn_map[h] EXCEPT !.quiet = 0].account = g_msg_conn_map[h].account
        /\ [g_msg_conn_map[h] EXCEPT !.quiet = 0].open = g_msg_conn_map[h].open
    BY <1>1, BoundsPositive DEF Conns
  <2>. QED
    BY <2>1, Zenon
<1>3. g_msg_conn_map' = [g_msg_conn_map EXCEPT ![h] = m] /\ UNCHANGED g_account_msg_conn_map
  BY <1>2, Zenon DEF OnRead
<1>4. SameConns /\ g_msg_conn_map'[h] = m
      /\ \A k \in Handles \ {h} : g_msg_conn_map'[k] = g_msg_conn_map[k]
  BY <1>1, <1>2, <1>3, OpenKept, Zenon
<1>. QED
  BY <1>2, <1>4, Zenon DEF SameOpen, Live

\* A tick of the clock changes who owns no connection and opens none.
LEMMA TickMaps ==
    ASSUME MapTypes, Tick
    PROVE  SameConns /\ SameOpen
<1>1. ASSUME NEW m \in Conns
      PROVE  /\ [m EXCEPT !.quiet = IF @ > TIMEOUT_TICKS THEN @ ELSE @ + 1] \in Conns
             /\ [m EXCEPT !.quiet = IF @ > TIMEOUT_TICKS THEN @ ELSE @ + 1].account = m.account
             /\ [m EXCEPT !.quiet = IF @ > TIMEOUT_TICKS THEN @ ELSE @ + 1].open = m.open
  BY BoundsPositive DEF Conns
<1>2. g_msg_conn_map' = Quieter(g_msg_conn_map) /\ UNCHANGED g_account_msg_conn_map
  BY Zenon DEF Tick
<1>3. ASSUME NEW k \in Handles, g_msg_conn_map[k] # None
      PROVE  /\ g_msg_conn_map'[k] \in Conns
             /\ g_msg_conn_map'[k].account = g_msg_conn_map[k].account
             /\ g_msg_conn_map'[k].open = g_msg_conn_map[k].open
  <2>1. g_msg_conn_map[k] \in Conns
    BY <1>3, Zenon DEF MapTypes
  <2>2. g_msg_conn_map'[k] =
          [g_msg_conn_map[k] EXCEPT !.quiet = IF @ > TIMEOUT_TICKS THEN @ ELSE @ + 1]
    BY <1>2, <1>3, Zenon DEF Quieter
  <2>. QED
    BY <1>1, <2>1, <2>2, Zenon
<1>4. ASSUME NEW k \in Handles, g_msg_conn_map[k] = None PROVE g_msg_conn_map'[k] = None
  BY <1>2, <1>4, Zenon DEF Quieter
<1>5. MapTypes'
  <2>1. g_msg_conn_map' = [k \in Handles |-> g_msg_conn_map'[k]]
    BY <1>2, Zenon DEF Quieter
  <2>. QED
    BY <1>2, <1>3, <1>4, <2>1, Zenon DEF MapTypes
<1>. QED
  BY <1>2, <1>3, <1>4, <1>5, NoneFresh, Zenon DEF SameConns, SameOpen, Live

\* What Close does to the counters.
LEMMA CloseCounts ==
    ASSUME TypeOK, NEW h, Close(h)
    PROVE  /\ connectionState' = "Closed" /\ waited' = 0
           /\ reconnect_cnt' \in 1 .. MAX_RECONNECT_CNT /\ idle_cnt' \in Nat
           /\ \/ reconnect_cnt' = 1
              \/ /\ reconnect_cnt > 0 /\ reconnect_cnt' = 2 * reconnect_cnt
                 /\ idle_cnt' = idle_cnt
  BY BoundsPositive DEF TypeOK, Close, Doubled

-----------------------------------------------------------------------------
(* The steps, by what they do.  Every step keeps the types, and leads the    *)
(* accounts to live connections.                                             *)

\* The connection that CloseMsgConn or OnTimer closes is live.
LEMMA EntryLive ==
    ASSUME AccountsLead, NEW a \in Accounts, g_account_msg_conn_map[a] # None
    PROVE  g_account_msg_conn_map[a] \in Live
  BY Zenon DEF AccountsLead

\* A step closes a live connection, connects the current account or another, leaves
\* the connections alone, or opens one.
Closes(h) == h \in Live /\ Close(h)
Untouched == UNCHANGED <<connectionState, mapVars, idle_cnt, reconnect_cnt, waited>>

\* CMsgConn::OnTimer does nothing, hangs on the lock, or closes one connection;
\* the second only when the account of a connected client is not the first one.
LEMMA OnTimerEffect ==
    ASSUME MapTypes, AccountsLead, OnTimer, current_account_id \in Accounts
    PROVE  /\ UNCHANGED <<current_account_id, connecting_cnt, inits>>
           /\ \/ Untouched /\ at' = "count"
              \/ /\ Untouched /\ at' = "hung"
                 /\ connectionState = "Connected" /\ NotFirst(current_account_id)
              \/ /\ connectionState = "Connected" /\ at' = "count"
                 /\ \E h \in Handles : Closes(h)
<1>1. CASE UNCHANGED <<connectionState, mapVars, cntVars, waited>>
  BY <1>1, Zenon DEF OnTimer, Untouched, cntVars
<1>2. CASE /\ connectionState = "Connected" /\ Current # None /\ at' = "count"
           /\ UNCHANGED connecting_cnt /\ TimedOut(Current) /\ Close(Current)
  <2>1. Current \in Live /\ Current \in Handles
    BY <1>2, EntryLive, Zenon DEF Current, Live
  <2>. QED
    BY <1>2, <2>1, Zenon DEF OnTimer, Closes
<1>. QED
  BY <1>1, <1>2, Zenon DEF OnTimer, Untouched, cntVars

\* The counting half of the timer leaves a connected or never connected client
\* alone, counts a second, or finds the delay over.
LEMMA CountEffect ==
    ASSUME MapTypes, AccountsLead, Count, current_account_id \in Accounts
    PROVE  /\ at = "count" /\ UNCHANGED <<current_account_id, inits>>
           /\ \/ /\ Untouched /\ at' = "retry" /\ UNCHANGED connecting_cnt
                 /\ reconnect_cnt = 0 \/ connectionState = "Connected"
              \/ /\ reconnect_cnt > 0 /\ connectionState = "Closed" /\ at' = "retry"
                 /\ idle_cnt' = idle_cnt + 1
                 /\ UNCHANGED <<connectionState, mapVars, connecting_cnt, reconnect_cnt, waited>>
              \/ /\ reconnect_cnt > 0 /\ connectionState = "Connecting" /\ at' = "retry"
                 /\ connecting_cnt' \in {0, connecting_cnt + 1}
                 /\ connecting_cnt' = 0 \/ connecting_cnt < CONNECT_TICKS
                 /\ Untouched
              \/ /\ reconnect_cnt > 0 /\ connectionState = "Connecting" /\ at' = "retry"
                 /\ connecting_cnt' = 0 /\ \E h \in Handles : Closes(h)
              \/ /\ reconnect_cnt > 0 /\ connectionState = "Connecting" /\ at' = "hung"
                 /\ connecting_cnt' = 0 /\ Untouched
                 /\ \/ NotFirst(current_account_id)
                    \/ \E h \in Live : ~g_msg_conn_map[h].open
<1>1. CASE CloseMsgConn(current_account_id) /\ connecting_cnt' = 0
           /\ reconnect_cnt > 0 /\ connectionState = "Connecting"
  <2>1. ASSUME Current # None PROVE Current \in Live /\ Current \in Handles
    BY <2>1, EntryLive, Zenon DEF Current, Live
  <2>. QED
    BY <1>1, <2>1, Zenon DEF Count, CloseMsgConn, Current, Closes, Untouched
<1>. QED
  BY <1>1, Zenon DEF Count, Untouched, cntVars

\* Every step keeps the types and the order of the accounts' connections.
LEMMA TypesStep ==
    ASSUME Inv, [Next]_vars
    PROVE  TypeOK' /\ AccountsLead'
<1>0. TypeOK /\ AccountsLead /\ MapTypes /\ current_account_id \in Accounts
  BY Zenon DEF Inv, TypeOK, MapTypes
<1>1. ASSUME NEW a \in Accounts, SetCurrentAccountId(a) PROVE TypeOK' /\ AccountsLead'
  BY <1>0, <1>1, Zenon DEF TypeOK, AccountsLead, Live, SetCurrentAccountId, mapVars, cntVars
<1>2. ASSUME NEW a \in Accounts, InitMsgConn(a) PROVE TypeOK' /\ AccountsLead'
  <2>1. MapTypes' /\ AccountsLead'
    BY <1>0, <1>2, ConnectMaps, Zenon DEF InitMsgConn
  <2>. QED
    BY <1>0, <1>2, <2>1, BoundsPositive DEF TypeOK, MapTypes, InitMsgConn, Connect, cntVars
<1>3. ASSUME NEW h \in Handles, OnConfirm(h) PROVE TypeOK' /\ AccountsLead'
  <2>1. MapTypes' /\ AccountsLead'
    BY <1>0, <1>3, OnConfirmMaps, SameKeepsAccounts, Zenon DEF SameConns
  <2>. QED
    BY <1>0, <1>3, <2>1, BoundsPositive DEF TypeOK, MapTypes, OnConfirm
<1>4. ASSUME NEW h \in Handles, OnRead(h) PROVE TypeOK' /\ AccountsLead'
  <2>1. MapTypes' /\ AccountsLead'
    BY <1>0, <1>4, OnReadMaps, SameKeepsAccounts, Zenon DEF SameConns
  <2>. QED
    BY <1>0, <1>4, <2>1, Zenon DEF TypeOK, MapTypes, OnRead, cntVars
<1>5. ASSUME NEW h \in Handles, Closes(h), UNCHANGED <<current_account_id, inits>>,
             connecting_cnt' \in 0 .. CONNECT_TICKS, at' \in {"loop", "count", "retry"}
      PROVE  TypeOK' /\ AccountsLead'
  <2>1. MapTypes' /\ AccountsLead'
    BY <1>0, <1>5, CloseMaps, Zenon DEF Closes
  <2>2. /\ connectionState' = "Closed" /\ waited' = 0
        /\ reconnect_cnt' \in 1 .. MAX_RECONNECT_CNT /\ idle_cnt' \in Nat
    BY <1>0, <1>5, CloseCounts, Zenon DEF Closes
  <2>. QED
    BY <1>0, <1>5, <2>1, <2>2, BoundsPositive DEF TypeOK, MapTypes
<1>6. ASSUME NEW h \in Handles, OnClose(h) PROVE TypeOK' /\ AccountsLead'
  BY <1>0, <1>5, <1>6, Zenon DEF OnClose, Closes, TypeOK
<1>7. ASSUME Tick PROVE TypeOK' /\ AccountsLead'
  <2>1. MapTypes' /\ AccountsLead'
    BY <1>0, <1>7, TickMaps, SameKeepsAccounts, Zenon DEF SameConns
  <2>. QED
    BY <1>0, <1>7, <2>1, BoundsPositive DEF TypeOK, MapTypes, Tick, cntVars
<1>8. ASSUME OnTimer PROVE TypeOK' /\ AccountsLead'
  <2>1. CASE Untouched /\ UNCHANGED <<current_account_id, connecting_cnt, inits>>
             /\ at' \in {"count", "hung"}
    BY <1>0, <2>1, Zenon DEF TypeOK, AccountsLead, Live, Untouched, mapVars
  <2>. QED
    BY <1>0, <1>5, <1>8, <2>1, OnTimerEffect, Zenon DEF TypeOK
<1>9. ASSUME Count PROVE TypeOK' /\ AccountsLead'
  <2>1. CASE UNCHANGED <<connectionState, mapVars, reconnect_cnt, waited, current_account_id, inits>>
             /\ connecting_cnt' \in 0 .. CONNECT_TICKS /\ idle_cnt' \in Nat
             /\ at' \in {"retry", "hung"}
    BY <1>0, <2>1, Zenon DEF TypeOK, AccountsLead, Live, mapVars
  <2>. QED
    BY <1>0, <1>5, <1>9, <2>1, CountEffect, BoundsPositive, SMTT(40) DEF TypeOK, Untouched
<1>10. ASSUME Retry PROVE TypeOK' /\ AccountsLead'
  <2>1. CASE Connect(current_account_id)
    <3>1. MapTypes' /\ AccountsLead'
      BY <1>0, <2>1, ConnectMaps, Zenon
    <3>. QED
      BY <1>0, <1>10, <2>1, <3>1, Zenon DEF TypeOK, MapTypes, Retry, Connect, cntVars
  <2>2. CASE UNCHANGED <<connectionState, mapVars>>
    BY <1>0, <1>10, <2>2, Zenon DEF TypeOK, AccountsLead, Live, Retry, cntVars, mapVars
  <2>. QED
    BY <1>10, <2>1, <2>2, Zenon DEF Retry
<1>11. ASSUME Spin \/ UNCHANGED vars PROVE TypeOK' /\ AccountsLead'
  BY <1>0, <1>11, Zenon DEF TypeOK, AccountsLead, Live, Spin, vars, mapVars, cntVars
<1>. QED
  BY <1>1, <1>2, <1>3, <1>4, <1>6, <1>7, <1>8, <1>9, <1>10, <1>11, Zenon DEF Next

-----------------------------------------------------------------------------
(* Hanging.                                                                  *)

\* Another account's entry means a connection that is not the current account's.
LEMMA NotFirstNotOne ==
    ASSUME AccountsLead, NotFirst(current_account_id)
    PROVE  \E h \in Live : g_msg_conn_map[h].account # current_account_id
  BY Zenon DEF AccountsLead, NotFirst

\* Only a client that was already connected gets stuck in its own lock.
LEMMA HangsStep ==
    ASSUME Inv, [Next]_vars
    PROVE  HangsOnlyConnecting'
<1>0. /\ AccountsLead /\ HangsOnlyConnecting /\ MapTypes
      /\ current_account_id \in Accounts
  BY Zenon DEF Inv, TypeOK, MapTypes
<1>1. CASE at' # "hung"
  BY <1>1, Zenon DEF HangsOnlyConnecting
<1>2. CASE at' = "hung" /\ UNCHANGED vars
  BY <1>0, <1>2, Zenon DEF HangsOnlyConnecting, OneAccount, Live, vars, mapVars, cntVars
<1>3. CASE at' = "hung" /\ (OnTimer \/ Count)
  <2>1. Untouched /\ UNCHANGED <<current_account_id, inits>>
        /\ \/ NotFirst(current_account_id)
           \/ /\ connectionState = "Connecting" /\ reconnect_cnt > 0
              /\ \E h \in Live : ~g_msg_conn_map[h].open
    BY <1>0, <1>3, OnTimerEffect, CountEffect, Zenon
  <2>2. CASE NotFirst(current_account_id)
    BY <1>0, <2>1, <2>2, NotFirstNotOne, Zenon
       DEF HangsOnlyConnecting, OneAccount, Live, Untouched, mapVars
  <2>. QED
    BY <2>1, <2>2, Zenon DEF HangsOnlyConnecting, Live, Untouched, mapVars
<1>4. CASE at' = "hung" /\ Next /\ ~(OnTimer \/ Count) /\ ~UNCHANGED vars
  BY <1>4, Zenon DEF Next, SetCurrentAccountId, InitMsgConn, OnConfirm, OnRead, OnClose, Tick, Retry, Spin
<1>. QED
  BY <1>1, <1>2, <1>3, <1>4, Zenon

-----------------------------------------------------------------------------
(* One connection.                                                           *)

\* The first Connect makes the only connection, not yet open.
LEMMA SingleConnect ==
    ASSUME MapTypes, AccountsLead, Live = {}, NEW a \in Accounts, Connect(a), inits' # 0
    PROVE  Single'
<1>1. /\ \A h, k \in Live' : h = k
      /\ \A h \in Live' : /\ g_account_msg_conn_map'[g_msg_conn_map'[h].account] = h
                          /\ ~g_msg_conn_map'[h].open
  BY ConnectMaps, Zenon
<1>2. connectionState' = "Connecting"
  BY Zenon DEF Connect
<1>. QED
  BY <1>1, <1>2, Zenon DEF Single

\* Closing the only connection leaves none.
LEMMA SingleClose ==
    ASSUME TypeOK, MapTypes, AccountsLead, Single,
           NEW h \in Handles, Closes(h), UNCHANGED inits
    PROVE  Single' /\ connectionState \in {"Connected", "Connecting"}
<1>1. Live' = {} /\ h \in Live
  BY CloseMaps, Zenon DEF Closes, Single
<1>2. connectionState' = "Closed"
  BY Zenon DEF Closes, Close
<1>3. inits # 0
  BY <1>1, Zenon DEF Single
<1>4. Single'
  BY <1>1, <1>2, <1>3, Zenon DEF Single
<1>. QED
  BY <1>1, <1>4, Zenon DEF Single, TypeOK

\* Steps that add and remove no connection keep Single, given what becomes of open.
LEMMA SingleSame ==
    ASSUME MapTypes, AccountsLead, Single, SameConns, UNCHANGED inits,
           \/ SameOpen /\ UNCHANGED connectionState
           \/ /\ connectionState' = "Connected" /\ inits # 0
              /\ \E h \in Live : g_msg_conn_map'[h].open
    PROVE  Single'
<1>1. Live' = Live
  BY SameKeepsAccounts, Zenon
<1>2. \A h \in Live : /\ g_msg_conn_map'[h].account = g_msg_conn_map[h].account
                      /\ g_account_msg_conn_map'[g_msg_conn_map'[h].account] = h
  BY Zenon DEF SameConns, Single, Live
<1>3. CASE SameOpen /\ UNCHANGED connectionState
  BY <1>1, <1>2, <1>3, Zenon DEF Single, SameOpen
<1>4. CASE /\ connectionState' = "Connected" /\ inits # 0
           /\ \E h \in Live : g_msg_conn_map'[h].open
  BY <1>1, <1>2, <1>4, Zenon DEF Single
<1>. QED
  BY <1>3, <1>4, Zenon

\* A step that leaves the maps and the state alone keeps the only connection.
LEMMA SingleKept ==
    ASSUME Single, UNCHANGED <<connectionState, mapVars, inits>>
    PROVE  Single'
  BY Zenon DEF Single, Live, mapVars

\* A client initialised once has one connection, and connectionState is its state.
LEMMA SingleStep ==
    ASSUME Inv, [Next]_vars, inits' <= 1
    PROVE  Single'
<1>0. /\ TypeOK /\ AccountsLead /\ MapTypes /\ current_account_id \in Accounts /\ inits \in Nat
  BY DEF Inv, TypeOK, MapTypes
<1>a. UNCHANGED inits \/ \E a \in Accounts : InitMsgConn(a)
  BY Zenon DEF Next, SetCurrentAccountId, OnConfirm, OnRead, OnClose, Tick, OnTimer, Count, Retry,
         Spin, vars
<1>b. inits' = inits => Single
  BY Zenon DEF Inv
<1>1. ASSUME NEW a \in Accounts, InitMsgConn(a) PROVE Single'
  <2>1. inits = 0 /\ inits' = 1
    BY <1>0, <1>1 DEF InitMsgConn
  <2>2. Live = {}
    BY <2>1, SMTT(40) DEF Inv, Single
  <2>. QED
    BY <1>0, <1>1, <2>1, <2>2, SingleConnect DEF InitMsgConn
<1>2. ASSUME NEW h \in Handles, OnConfirm(h) PROVE Single'
  <2>1. h \in Live /\ SameConns /\ g_msg_conn_map'[h].open /\ UNCHANGED inits
        /\ connectionState' = "Connected"
    BY <1>0, <1>2, OnConfirmMaps, Zenon DEF OnConfirm
  <2>2. Single /\ inits # 0
    BY <1>b, <2>1, Zenon DEF Single
  <2>. QED
    BY <1>0, <2>1, <2>2, SingleSame, Zenon
<1>3. ASSUME NEW h \in Handles, OnRead(h) PROVE Single'
  BY <1>0, <1>b, <1>3, OnReadMaps, SingleSame, Zenon DEF OnRead
<1>4. ASSUME Tick PROVE Single'
  BY <1>0, <1>b, <1>4, TickMaps, SingleSame, Zenon DEF Tick
<1>5. ASSUME NEW h \in Handles, Closes(h), UNCHANGED inits PROVE Single'
  BY <1>0, <1>b, <1>5, SingleClose, Zenon
<1>6. ASSUME UNCHANGED <<connectionState, mapVars, inits>> PROVE Single'
  BY <1>b, <1>6, SingleKept, Zenon
<1>7. ASSUME OnTimer \/ Count PROVE Single'
  BY <1>0, <1>5, <1>6, <1>7, OnTimerEffect, CountEffect, Zenon DEF Untouched
<1>8. ASSUME Retry PROVE Single'
  <2>1. CASE Due /\ Connect(current_account_id)
    <3>1. Single /\ connectionState = "Closed" /\ UNCHANGED inits
      BY <1>b, <1>8, <2>1, Zenon DEF Retry, Due
    <3>2. Live = {} /\ inits # 0
      BY <3>1, Zenon DEF Single
    <3>. QED
      BY <1>0, <2>1, <3>1, <3>2, SingleConnect, Zenon
  <2>. QED
    BY <1>6, <1>8, <2>1, Zenon DEF Retry
<1>9. ASSUME NEW h \in Handles, OnClose(h) PROVE Single'
  BY <1>5, <1>9, Zenon DEF OnClose, Closes
<1>10. ASSUME UNCHANGED vars \/ Spin \/ \E a \in Accounts : SetCurrentAccountId(a) PROVE Single'
  BY <1>6, <1>10, Zenon DEF Spin, vars, SetCurrentAccountId
<1>. QED
  BY <1>1, <1>2, <1>3, <1>4, <1>7, <1>8, <1>9, <1>10, Zenon DEF Next

-----------------------------------------------------------------------------
(* The pace of the retries.                                                  *)

\* A wait that Close doubles is even, and half of it is the wait before.
LEMMA DoubleHalf ==
    ASSUME NEW n \in Nat
    PROVE  (2 * n) \div 2 = n
  OBVIOUS

\* Counters and place keep Paced as long as the state stays what it is.
LEMMA PacedKept ==
    ASSUME Paced, connectionState' = connectionState, connectionState # "Closed",
           UNCHANGED <<idle_cnt, reconnect_cnt>>
    PROVE  Paced'
  BY Zenon DEF Paced

\* Close finds at least reconnect_cnt seconds counted.
LEMMA PacedClose ==
    ASSUME TypeOK, Paced, connectionState \in {"Connected", "Connecting"},
           NEW h \in Handles, Close(h), at' \in {"loop", "count", "retry"}
    PROVE  Paced'
<1>1. /\ reconnect_cnt \in 0 .. MAX_RECONNECT_CNT /\ idle_cnt \in Nat
      /\ idle_cnt >= reconnect_cnt
  BY DEF TypeOK, Paced
<1>2. connectionState' = "Closed" /\ waited' = 0
  BY Zenon DEF Close
<1>3. waited' <= 1
  BY <1>2
<1>4. CASE Doubled(reconnect_cnt) > MAX_RECONNECT_CNT \/ reconnect_cnt = 0
  <2>1. reconnect_cnt' = 1 /\ idle_cnt' \in Nat
    BY <1>1, <1>4, BoundsPositive, Zenon DEF Close, Doubled
  <2>2. ~(reconnect_cnt' > 1) /\ reconnect_cnt' >= 1 /\ reconnect_cnt' \div 2 = 0
    BY <2>1
  <2>3. idle_cnt' + Uncounted' >= waited' + 0
    <3>1. PICK i \in Nat : idle_cnt' = i
      BY <2>1, Zenon
    <3>. QED
      BY <1>2, <3>1 DEF Uncounted
  <2>. QED
    BY <1>2, <1>3, <2>2, <2>3, Zenon DEF Paced
<1>5. CASE ~(Doubled(reconnect_cnt) > MAX_RECONNECT_CNT) /\ reconnect_cnt # 0
  <2>1. reconnect_cnt' = 2 * reconnect_cnt /\ idle_cnt' = idle_cnt
    BY <1>1, <1>5, Zenon DEF Close, Doubled
  <2>2. reconnect_cnt' \div 2 = reconnect_cnt
    BY <1>1, <2>1, DoubleHalf
  <2>3. \E n \in Nat : reconnect_cnt' = 2 * n
    BY <1>1, <2>1
  <2>4. reconnect_cnt' >= 1 /\ idle_cnt' + Uncounted' >= waited' + reconnect_cnt
    BY <1>1, <1>2, <1>5, <2>1 DEF Uncounted
  <2>. QED
    BY <1>2, <1>3, <2>2, <2>3, <2>4, Zenon DEF Paced
<1>. QED
  BY <1>4, <1>5, Zenon

\* A second of a wait that Close started, from Tick to Retry.
LEMMA PacedWait ==
    ASSUME TypeOK, Paced, connectionState = "Closed", connectionState' = "Closed",
           UNCHANGED reconnect_cnt,
           \/ UNCHANGED <<at, idle_cnt, waited>>
           \/ /\ at = "loop" /\ at' = "timer" /\ UNCHANGED idle_cnt
              /\ waited' \in {waited, waited + 1}
           \/ at = "timer" /\ at' = "count" /\ UNCHANGED <<idle_cnt, waited>>
           \/ at = "count" /\ at' = "retry" /\ idle_cnt' = idle_cnt + 1 /\ UNCHANGED waited
           \/ /\ at = "retry" /\ at' = "loop" /\ UNCHANGED <<idle_cnt, waited>>
              /\ idle_cnt < reconnect_cnt
    PROVE  Paced'
<1>1. /\ reconnect_cnt \in Nat /\ idle_cnt \in Nat /\ waited \in Nat
  BY BoundsPositive DEF TypeOK
<1>2. PICK half \in Int : half = reconnect_cnt \div 2
  BY <1>1
<1>3. /\ reconnect_cnt > 1 => \E n \in Nat : reconnect_cnt = 2 * n
      /\ reconnect_cnt >= 1
      /\ idle_cnt + Uncounted >= waited + half
      /\ at = "loop" => waited = 0 \/ idle_cnt < reconnect_cnt
      /\ at \in {"timer", "count"} => waited <= 1 \/ idle_cnt < reconnect_cnt
      /\ at = "retry" => waited <= 1 \/ idle_cnt <= reconnect_cnt
  BY <1>2, Zenon DEF Paced
<1>4. /\ idle_cnt' + Uncounted' >= waited' + half
      /\ at' = "loop" => waited' = 0 \/ idle_cnt' < reconnect_cnt
      /\ at' \in {"timer", "count"} => waited' <= 1 \/ idle_cnt' < reconnect_cnt
      /\ at' = "retry" => waited' <= 1 \/ idle_cnt' <= reconnect_cnt
  BY <1>1, <1>2, <1>3 DEF Uncounted
<1>. QED
  BY <1>2, <1>3, <1>4, Zenon DEF Paced

\* A client initialised once counts every closed second and keeps to the delays.
LEMMA PacedStep ==
    ASSUME Inv, [Next]_vars, inits' <= 1
    PROVE  Paced'
<1>0. /\ TypeOK /\ AccountsLead /\ MapTypes /\ current_account_id \in Accounts /\ inits \in Nat
  BY DEF Inv, TypeOK, MapTypes
<1>a. UNCHANGED inits \/ \E a \in Accounts : InitMsgConn(a)
  BY Zenon DEF Next, SetCurrentAccountId, OnConfirm, OnRead, OnClose, Tick, OnTimer, Count, Retry,
         Spin, vars
<1>b. Single /\ Paced
  BY <1>0, <1>a DEF Inv, InitMsgConn
<1>c. ASSUME UNCHANGED <<connectionState, idle_cnt, reconnect_cnt, waited, at>> PROVE Paced'
  BY <1>b, <1>c, Zenon DEF Paced, Uncounted
<1>1. ASSUME NEW a \in Accounts, InitMsgConn(a) PROVE Paced'
  <2>1. inits = 0 /\ connectionState = "Unset"
    BY <1>0, <1>b, <1>1 DEF InitMsgConn, Single
  <2>. QED
    BY <1>0, <1>b, <1>1, <2>1, SMTT(40) DEF InitMsgConn, Connect, Paced, cntVars, TypeOK
<1>2. ASSUME NEW h \in Handles, OnConfirm(h) PROVE Paced'
  BY <1>2 DEF OnConfirm, Paced
<1>3. ASSUME NEW h \in Handles, OnRead(h) PROVE Paced'
  BY <1>c, <1>3, Zenon DEF OnRead, cntVars
<1>4. ASSUME Tick PROVE Paced'
  <2>1. CASE connectionState = "Closed"
    BY <1>0, <1>b, <1>4, <2>1, PacedWait, Zenon DEF Tick, cntVars
  <2>. QED
    BY <1>b, <1>4, <2>1, PacedKept, Zenon DEF Tick, cntVars
<1>5. ASSUME NEW h \in Handles, Closes(h), UNCHANGED inits, at' \in {"loop", "count", "retry"}
      PROVE  Paced'
  BY <1>0, <1>b, <1>5, SingleClose, PacedClose, Zenon DEF Closes
<1>6. ASSUME OnTimer PROVE Paced'
  <2>1. at = "timer" /\ UNCHANGED inits
    BY <1>6, Zenon DEF OnTimer
  <2>2. CASE Untouched /\ connectionState = "Closed" /\ at' = "count"
    BY <1>0, <1>b, <2>1, <2>2, PacedWait, Zenon DEF Untouched
  <2>3. CASE Untouched /\ connectionState # "Closed"
    BY <1>b, <2>3, PacedKept, Zenon DEF Untouched
  <2>. QED
    BY <1>0, <1>5, <1>6, <2>1, <2>2, <2>3, OnTimerEffect, Zenon
<1>7. ASSUME Count PROVE Paced'
  <2>1. at = "count" /\ UNCHANGED inits
    BY <1>7, Zenon DEF Count
  <2>2. CASE /\ connectionState = "Closed" /\ at' = "retry" /\ idle_cnt' = idle_cnt + 1
             /\ UNCHANGED <<connectionState, reconnect_cnt, waited>>
    BY <1>0, <1>b, <2>1, <2>2, PacedWait, Zenon
  <2>3. CASE Untouched /\ connectionState # "Closed"
    BY <1>b, <2>3, PacedKept, Zenon DEF Untouched
  <2>4. connectionState = "Closed" => reconnect_cnt # 0
    BY <1>b DEF Paced
  <2>. QED
    BY <1>0, <1>5, <1>7, <2>1, <2>2, <2>3, <2>4, CountEffect, Zenon
<1>8. ASSUME Retry PROVE Paced'
  <2>1. at = "retry" /\ at' = "loop" /\ UNCHANGED <<idle_cnt, reconnect_cnt, waited>>
    BY <1>8, Zenon DEF Retry, cntVars
  <2>2. CASE Due /\ connectionState' = "Connecting"
    BY <1>b, <2>1, <2>2, Zenon DEF Due, Paced
  <2>3. CASE ~Due /\ UNCHANGED connectionState /\ connectionState = "Closed"
    <3>1. idle_cnt < reconnect_cnt
      BY <1>0, <1>b, <2>3 DEF Due, Paced, TypeOK
    <3>. QED
      BY <1>0, <1>b, <2>1, <2>3, <3>1, PacedWait, Zenon
  <2>4. CASE UNCHANGED connectionState /\ connectionState # "Closed"
    BY <1>b, <2>1, <2>4, PacedKept, Zenon
  <2>. QED
    BY <1>8, <2>2, <2>3, <2>4, Zenon DEF Retry, Connect
<1>9. ASSUME NEW h \in Handles, OnClose(h) PROVE Paced'
  BY <1>5, <1>9, Zenon DEF OnClose, Closes
<1>10. ASSUME UNCHANGED vars \/ Spin \/ \E a \in Accounts : SetCurrentAccountId(a) PROVE Paced'
  BY <1>c, <1>10, Zenon DEF Spin, vars, SetCurrentAccountId, cntVars
<1>. QED
  BY <1>1, <1>2, <1>3, <1>4, <1>6, <1>7, <1>8, <1>9, <1>10, Zenon DEF Next

-----------------------------------------------------------------------------
(* The theorems.                                                             *)

\* A client that was never initialised has no connection and no delay.
LEMMA InitInv ==
    ASSUME Init
    PROVE  Inv
<1>1. Live = {}
  BY Zenon DEF Init, Live
<1>2. TypeOK
  BY BoundsPositive DEF Init, TypeOK
<1>3. AccountsLead /\ HangsOnlyConnecting
  BY Zenon DEF Init, AccountsLead, HangsOnlyConnecting
<1>4. Single
  BY <1>1, Zenon DEF Init, Single
<1>5. Paced
  BY DEF Init, Paced
<1>. QED
  BY <1>2, <1>3, <1>4, <1>5, Zenon DEF Inv

\* The inductive invariant of ClientConn: types, account order, the states it can
\* hang in, and for one InitMsgConn the single connection and the paced retries.
THEOREM Invariance == Spec => []Inv
<1>1. Init => Inv
  BY InitInv, Zenon
<1>2. Inv /\ [Next]_vars => Inv'
  BY TypesStep, HangsStep, SingleStep, PacedStep, Zenon DEF Inv
<1>. QED
  BY <1>1, <1>2, PTL DEF Spec

\* The maps of CClientConn hold connections of accounts, and the counters of the
\* timer callback stay within their limits.
THEOREM ClientTypeCorrect == Spec => []TypeOK
<1>1. Inv => TypeOK
  BY Zenon DEF Inv
<1>. QED
  BY <1>1, Invariance, PTL

\* get_conn returns a live connection of the account asked for, however the
\* application mixes accounts and however connections come and go.
THEOREM AccountsCorrect == Spec => []AccountsLead
<1>1. Inv => AccountsLead
  BY Zenon DEF Inv
<1>. QED
  BY <1>1, Invariance, PTL

\* With one account there is at most one connection, get_conn finds it, the state
\* that is reported is its state, and the loop hangs only in close_msg_conn of a
\* connection that took too long to open.
THEOREM StateCorrect == Spec => [](StateAgrees /\ HangsOnlyConnecting)
<1>1. ASSUME Inv PROVE StateAgrees
  <2>. SUFFICES ASSUME OneAccount
                PROVE  /\ Cardinality(Live) <= 1
                       /\ \A h \in Live : Current = h
                       /\ connectionState = "Connected" =>
                            \E h \in Live : g_msg_conn_map[h].open
                       /\ connectionState = "Connecting" =>
                            \A h \in Live : ~g_msg_conn_map[h].open
                       /\ connectionState = "Closed" => Live = {}
    BY Zenon DEF StateAgrees
  <2>1. Single
    BY <1>1, Zenon DEF OneAccount, Inv
  <2>2. Cardinality(Live) <= 1
    <3>1. CASE Live = {}
      BY <3>1, FS_EmptySet
    <3>2. CASE Live # {}
      <4>1. PICK h \in Live : TRUE
        BY <3>2, Zenon
      <4>2. Live = {h}
        BY <2>1, <4>1, Zenon DEF Single
      <4>. QED
        BY <4>2, FS_Singleton
    <3>. QED
      BY <3>1, <3>2, Zenon
  <2>. QED
    BY <2>1, <2>2, Zenon DEF Single, OneAccount, Current
<1>2. Inv => HangsOnlyConnecting
  BY Zenon DEF Inv
<1>. QED
  BY <1>1, <1>2, Invariance, PTL

\* With one account a lost connection is retried after 1, 1, 2, 4 ... seconds: the
\* wait never exceeds half of the reconnect_cnt that Close announces.
THEOREM RetriesCorrect == Spec => []RetriesInTime
<1>1. ASSUME Inv PROVE RetriesInTime
  <2>. SUFFICES ASSUME OneAccount, connectionState = "Closed"
                PROVE  waited <= IF reconnect_cnt <= 1 THEN 1 ELSE reconnect_cnt \div 2
    BY Zenon DEF RetriesInTime
  <2>1. /\ Paced /\ reconnect_cnt \in Nat /\ idle_cnt \in Nat /\ waited \in Nat
        /\ at \in {"loop", "timer", "count", "retry"}
    BY <1>1, BoundsPositive DEF Inv, OneAccount, HangsOnlyConnecting, TypeOK
  <2>2. PICK half \in Int : half = reconnect_cnt \div 2
    BY <2>1
  <2>3. /\ reconnect_cnt > 1 => \E n \in Nat : reconnect_cnt = 2 * n
        /\ reconnect_cnt >= 1
        /\ idle_cnt + Uncounted >= waited + half
        /\ at = "loop" => waited = 0 \/ idle_cnt < reconnect_cnt
        /\ at \in {"timer", "count"} => waited <= 1 \/ idle_cnt < reconnect_cnt
        /\ at = "retry" => waited <= 1 \/ idle_cnt <= reconnect_cnt
    BY <2>1, <2>2, Zenon DEF Paced
  <2>4. CASE reconnect_cnt = 1
    <3>1. half = 0
      BY <2>2, <2>4
    <3>. QED
      BY <2>1, <2>3, <2>4, <3>1 DEF Uncounted
  <2>5. CASE reconnect_cnt > 1
    <3>1. PICK n \in Nat : reconnect_cnt = 2 * n
      BY <2>3, <2>5, Zenon
    <3>2. half = n
      BY <2>2, <3>1, DoubleHalf, Zenon
    <3>. QED
      BY <2>1, <2>2, <2>3, <2>5, <3>1, <3>2 DEF Uncounted
  <2>. QED
    BY <2>1, <2>3, <2>4, <2>5
<1>. QED
  BY <1>1, Invariance, PTL
=============================================================================
