-------------------------- MODULE EventLoopProofs --------------------------
(***************************************************************************)
(* Proofs about EventLoop for any descriptors and any sockets: a socket is *)
(* freed exactly when nothing holds it, descriptors lead to their sockets  *)
(* and connections, and no event reaches the wrong connection.  At the end *)
(* about ServLink, the connections that the loop's timer makes again.      *)
(***************************************************************************)
EXTENDS EventLoop, ServLink, TLAPS

\* The loop is handling an event.
Handling == pc \in {"in", "out", "hup", "release"}

\* A descriptor leads to a socket that lives and has it.  The listener is never
\* closed, and has no connection.
Linked ==
    /\ \A f \in Fds : g_socket_map[f] # None =>
          socket[g_socket_map[f]] # None /\ socket[g_socket_map[f]].fd = f
    /\ \A f \in Fds \ {listener} : g_socket_map[f] = conn_map[f]
    /\ g_socket_map[listener] # None /\ conn_map[listener] = None

\* The socket of the event being handled keeps its descriptor, which nobody else
\* gets before the event is done.
Current ==
    /\ cur.from = None <=> ~ Handling
    /\ cur.from # None => socket[cur.from].fd = cur.fd
    /\ pc = "in" => g_socket_map[cur.fd] = cur.from
    /\ Handling => g_socket_map[cur.fd] \in {None, cur.from}

\* The types these facts need.
SocketTypes ==
    /\ socket \in [Sockets -> CBaseSocket \cup {None}]
    /\ g_socket_map \in [Fds -> Sockets \cup {None}]
    /\ conn_map \in [Fds -> Sockets \cup {None}]
    /\ batch \in SUBSET [fd : Fds, events : SUBSET Events]
    /\ cur \in [fd : Fds, from : Sockets \cup {None}, events : SUBSET Events]
    /\ pc \in {"wait", "next", "in", "out", "hup", "release", "timer"}

NetTypes ==
    /\ peer \in [Fds -> {"none", "connecting", "open", "gone", "reset"}]
    /\ data \in SUBSET Fds /\ woken \in SUBSET Fds /\ late \in SUBSET Fds
    /\ backlog \in 0 .. MaxBacklog

\* What CountsRight says, without arithmetic: a socket lives while the map or the
\* loop holds it, and counts two when both do.
InMap(s) == \E f \in Fds : g_socket_map[f] = s
Held ==
    \A s \in Sockets :
      /\ socket[s] = None <=> ~ InMap(s) /\ cur.from # s
      /\ socket[s] # None => (socket[s].ref = 2 <=> InMap(s) /\ cur.from = s)

\* The inductive invariant.
SocketInv == SocketTypes /\ Held /\ Linked /\ Current /\ RightConnection

\* The sockets m differ from the sockets there are in their states only.
Restated(m) ==
    /\ m \in [Sockets -> CBaseSocket \cup {None}]
    /\ \A s \in Sockets :
         /\ m[s] = None <=> socket[s] = None
         /\ m[s] # None => m[s].fd = socket[s].fd /\ m[s].ref = socket[s].ref

-----------------------------------------------------------------------------
(* The count of a socket is the number of its holders.                       *)
LEMMA CountMeans ==
    ASSUME SocketTypes, Held
    PROVE  CountsRight
<1>1. \A s \in Sockets : socket[s] # None => socket[s].ref \in 1 .. 2
  BY Zenon DEF SocketTypes, CBaseSocket
<1>2. \A s \in Sockets : Holders(s) =
          (IF InMap(s) THEN 1 ELSE 0) + (IF cur.from = s THEN 1 ELSE 0)
  BY Zenon DEF Holders, InMap
<1>3. ASSUME NEW s \in Sockets
      PROVE  Holders(s) = IF socket[s] = None THEN 0 ELSE socket[s].ref
  <2>0. /\ socket[s] = None <=> ~ InMap(s) /\ cur.from # s
        /\ socket[s] # None => (socket[s].ref = 2 <=> InMap(s) /\ cur.from = s)
    BY Zenon DEF Held
  <2>1. CASE InMap(s) /\ cur.from = s
    BY <1>1, <1>2, <2>0, <2>1
  <2>2. CASE InMap(s) /\ cur.from # s
    BY <1>1, <1>2, <2>0, <2>2
  <2>3. CASE ~ InMap(s) /\ cur.from = s
    BY <1>1, <1>2, <2>0, <2>3
  <2>4. CASE ~ InMap(s) /\ cur.from # s
    BY <1>1, <1>2, <2>0, <2>4
  <2>. QED
    BY <2>1, <2>2, <2>3, <2>4, Zenon
<1>. QED
  BY <1>3, Zenon DEF CountsRight

(* Init has one socket, the listener's.                                      *)
LEMMA SocketInit ==
    ASSUME Init
    PROVE  SocketInv
<1>. USE LoopAssumption
<1>1. PICK s \in Sockets :
        /\ socket = [t \in Sockets |->
            IF t = s THEN [fd |-> listener, state |-> "LISTENING", ref |-> 1] ELSE None]
        /\ g_socket_map = [f \in Fds |-> IF f = listener THEN s ELSE None]
  BY Zenon DEF Init
<1>2. [fd |-> listener, state |-> "LISTENING", ref |-> 1] \in CBaseSocket
  BY DEF CBaseSocket
<1>3. SocketTypes
  BY <1>1, <1>2, Zenon DEF Init, SocketTypes, NoEvent
<1>4. Held
  BY <1>1, <1>2 DEF Init, Held, InMap, NoEvent
<1>5. Linked
  BY <1>1, <1>2, Zenon DEF Init, Linked
<1>6. Current /\ RightConnection
  BY Zenon DEF Init, Current, Handling, NoEvent, RightConnection
<1>. QED
  BY <1>3, <1>4, <1>5, <1>6, Zenon DEF SocketInv

(* A step that leaves sockets, maps and the event alone.                     *)
LEMMA OtherStep ==
    ASSUME SocketInv, UNCHANGED <<sockVars, cur, reached>>,
           batch' \in SUBSET [fd : Fds, events : SUBSET Events],
           \/ pc' = pc
           \/ pc \in {"in", "out", "hup"} /\ pc' \in {"out", "hup", "release"}
           \/ pc \in {"wait", "next", "timer"} /\ pc' \in {"wait", "next", "timer"}
    PROVE  SocketInv'
<1>1. pc' \in {"wait", "next", "in", "out", "hup", "release", "timer"}
  BY Zenon DEF SocketInv, SocketTypes
<1>2. SocketTypes'
  BY <1>1, Zenon DEF SocketInv, SocketTypes, sockVars
<1>3. Held' /\ Linked' /\ RightConnection'
  BY DEF SocketInv, Held, InMap, Linked, RightConnection, sockVars
<1>4. Current'
  BY Zenon DEF SocketInv, Current, Handling, sockVars
<1>. QED
  BY <1>2, <1>3, <1>4, Zenon DEF SocketInv

(* A new socket on an unused descriptor.  While an event is being handled    *)
(* this happens in accept only, and the descriptor of the event is in use.   *)
LEMMA OpenStep ==
    ASSUME SocketInv, NEW f \in Unused, NEW state \in {"CONNECTED", "CONNECTING"},
           Open(f, state), pc \in {"in", "timer"}, UNCHANGED <<batch, cur, pc, reached>>
    PROVE  SocketInv'
<1>. USE LoopAssumption
<1>1. PICK s \in Sockets :
        /\ socket[s] = None
        /\ socket' = [socket EXCEPT ![s] = [fd |-> f, state |-> state, ref |-> 1]]
        /\ g_socket_map' = [g_socket_map EXCEPT ![f] = s]
        /\ conn_map' = [conn_map EXCEPT ![f] = s]
  BY Zenon DEF Open
<1>2. [fd |-> f, state |-> state, ref |-> 1] \in CBaseSocket
  BY DEF CBaseSocket, Unused
<1>3. f \in Fds /\ g_socket_map[f] = None /\ f # listener
  BY Zenon DEF Unused, SocketInv, Linked
<1>4. SocketTypes'
  BY <1>1, <1>2, <1>3, Zenon DEF SocketInv, SocketTypes
<1>5. /\ socket'[s] = [fd |-> f, state |-> state, ref |-> 1]
      /\ \A t \in Sockets \ {s} : socket'[t] = socket[t]
      /\ g_socket_map'[f] = s /\ conn_map'[f] = s
      /\ \A g \in Fds \ {f} : g_socket_map'[g] = g_socket_map[g] /\ conn_map'[g] = conn_map[g]
  BY <1>1, <1>3, Zenon DEF SocketInv, SocketTypes
<1>6. ~ InMap(s) /\ cur.from # s
  BY <1>1, Zenon DEF SocketInv, Held
<1>7. Held'
  <2>1. \A t \in Sockets \ {s} : InMap(t)' <=> InMap(t)
    BY <1>3, <1>5, Zenon DEF InMap
  <2>2. InMap(s)'
    BY <1>3, <1>5, Zenon DEF InMap
  <2>3. \A t \in Sockets \ {s} :
          /\ socket'[t] = None <=> ~ InMap(t)' /\ cur'.from # t
          /\ socket'[t] # None => (socket'[t].ref = 2 <=> InMap(t)' /\ cur'.from = t)
    BY <1>5, <2>1 DEF SocketInv, Held
  <2>. QED
    BY <1>2, <1>5, <1>6, <2>2, <2>3 DEF Held
<1>8. Linked'
  BY <1>2, <1>3, <1>5, <1>6 DEF SocketInv, Linked, SocketTypes, InMap
<1>9. Current'
  BY <1>3, <1>5, <1>6, Zenon DEF SocketInv, Current, Handling, SocketTypes
<1>. QED
  BY <1>4, <1>7, <1>8, <1>9, Zenon DEF SocketInv, RightConnection

(* Releasing a reference frees the socket, or leaves it a count of one.      *)
LEMMA ReleaseMeans ==
    ASSUME NEW m \in [Sockets -> CBaseSocket \cup {None}],
           NEW s \in Sockets, m[s] # None
    PROVE  LET r == ReleaseRef(m, s) IN
           /\ r \in [Sockets -> CBaseSocket \cup {None}]
           /\ \A t \in Sockets \ {s} : r[t] = m[t]
           /\ m[s].ref = 1 => r[s] = None
           /\ m[s].ref = 2 => /\ r[s] # None /\ r[s].ref = 1 /\ r[s].fd = m[s].fd
                               /\ r[s].state = m[s].state
           /\ m[s].ref \in {1, 2}
<1>. USE LoopAssumption
<1>1. m[s] \in CBaseSocket /\ m[s].ref \in {1, 2}
  BY DEF CBaseSocket
<1>2. CASE m[s].ref = 1
  BY <1>1, <1>2 DEF ReleaseRef
<1>3. CASE m[s].ref = 2
  <2>1. ReleaseRef(m, s) = [m EXCEPT ![s] = [m[s] EXCEPT !.ref = 1]]
    BY <1>1, <1>3 DEF ReleaseRef
  <2>2. /\ [m[s] EXCEPT !.ref = 1] \in CBaseSocket
        /\ [m[s] EXCEPT !.ref = 1].ref = 1
        /\ [m[s] EXCEPT !.ref = 1].fd = m[s].fd
        /\ [m[s] EXCEPT !.ref = 1].state = m[s].state
    BY <1>1 DEF CBaseSocket
  <2>. QED
    BY <1>1, <1>3, <2>1, <2>2
<1>. QED
  BY <1>1, <1>2, <1>3, Zenon

(* Closing a connection frees its socket unless its event is being handled.  *)
LEMMA CloseStep ==
    ASSUME SocketInv, NEW m, Restated(m), NEW f \in Fds, conn_map[f] # None,
           Close(m, f), UNCHANGED <<batch, cur>>, RightConnection',
           \/ pc = "timer" /\ pc' = pc
           \/ pc \in {"in", "out", "hup"} /\ pc' \in {"out", "hup", "release"}
    PROVE  SocketInv'
<1>. USE LoopAssumption
<1>0. PICK s \in Sockets : s = g_socket_map[f]
  BY Zenon DEF SocketInv, Linked, SocketTypes
<1>1. f # listener /\ s = conn_map[f] /\ s \in Sockets /\ socket[s] # None /\ InMap(s)
  BY <1>0, Zenon DEF SocketInv, Linked, SocketTypes, InMap
<1>2. m \in [Sockets -> CBaseSocket \cup {None}] /\ m[s] # None
  BY <1>1, Zenon DEF Restated
<1>3. socket' = ReleaseRef(m, s)
  BY <1>0, Zenon DEF Close
<1>4. /\ socket' \in [Sockets -> CBaseSocket \cup {None}]
      /\ \A t \in Sockets \ {s} : socket'[t] = m[t]
      /\ m[s].ref = 1 => socket'[s] = None
      /\ m[s].ref = 2 => socket'[s] # None /\ socket'[s].ref = 1 /\ socket'[s].fd = m[s].fd
      /\ m[s].ref \in {1, 2}
  BY <1>1, <1>2, <1>3, ReleaseMeans
<1>5. /\ g_socket_map' \in [Fds -> Sockets \cup {None}]
      /\ conn_map' \in [Fds -> Sockets \cup {None}]
      /\ g_socket_map'[f] = None /\ conn_map'[f] = None
      /\ \A g \in Fds \ {f} : g_socket_map'[g] = g_socket_map[g] /\ conn_map'[g] = conn_map[g]
  BY Zenon DEF Close, SocketInv, SocketTypes
<1>6. \A g \in Fds \ {f} : g_socket_map[g] # s
  BY <1>0, <1>1 DEF SocketInv, Linked
<1>7. SocketTypes'
  BY <1>4, <1>5, Zenon DEF SocketInv, SocketTypes
<1>8. ~ InMap(s)' /\ \A t \in Sockets \ {s} : InMap(t)' <=> InMap(t)
  BY <1>0, <1>1, <1>5, <1>6, Zenon DEF InMap
<1>9. m[s].ref = 2 <=> cur.from = s
  BY <1>1, <1>2, Zenon DEF SocketInv, Held, Restated
<1>10. Held'
  <2>1. /\ socket'[s] = None <=> ~ InMap(s)' /\ cur'.from # s
        /\ socket'[s] # None => (socket'[s].ref = 2 <=> InMap(s)' /\ cur'.from = s)
    BY <1>4, <1>8, <1>9, Zenon
  <2>2. \A t \in Sockets \ {s} :
          /\ socket'[t] = None <=> ~ InMap(t)' /\ cur'.from # t
          /\ socket'[t] # None => (socket'[t].ref = 2 <=> InMap(t)' /\ cur'.from = t)
    BY <1>4, <1>8 DEF SocketInv, Held, Restated
  <2>. QED
    BY <2>1, <2>2, <1>1, Zenon DEF Held
<1>11. Linked'
  <2>1. \A g \in Fds \ {f} : g_socket_map[g] # None =>
          socket'[g_socket_map[g]] # None /\ socket'[g_socket_map[g]].fd = g
    BY <1>4, <1>6 DEF SocketInv, Linked, Restated, SocketTypes
  <2>. QED
    BY <2>1, <1>1, <1>5 DEF SocketInv, Linked
<1>12. Current'
  <2>1. cur.from # None => socket'[cur.from].fd = cur.fd
    <3>1. CASE cur.from = s
      BY <3>1, <1>1, <1>2, <1>4, <1>9 DEF SocketInv, Current, Restated
    <3>2. CASE cur.from # s
      BY <3>2, <1>4 DEF SocketInv, Current, Restated, Held, SocketTypes
    <3>. QED
      BY <3>1, <3>2, Zenon
  <2>2. g_socket_map'[cur.fd] \in {None, g_socket_map[cur.fd]}
    BY <1>5, Zenon DEF SocketInv, SocketTypes
  <2>. QED
    BY <2>1, <2>2, Zenon DEF SocketInv, Current, Handling, SocketTypes
<1>. QED
  BY <1>7, <1>10, <1>11, <1>12, Zenon DEF SocketInv

(* A change of state of the socket of the event, or none, restates.          *)
LEMMA StateChange ==
    ASSUME SocketInv, Handling
    PROVE  /\ Restated(socket)
           /\ \A state \in {"CONNECTED", "CLOSING"} :
                Restated([socket EXCEPT ![cur.from].state = state])
<1>. USE LoopAssumption
<1>1. Restated(socket)
  BY Zenon DEF Restated, SocketInv, SocketTypes
<1>2. cur.from \in Sockets /\ socket[cur.from] \in CBaseSocket
  BY Zenon DEF SocketInv, SocketTypes, Current, Held
<1>3. ASSUME NEW state \in {"CONNECTED", "CLOSING"}
      PROVE  Restated([socket EXCEPT ![cur.from].state = state])
  <2>. DEFINE r == [socket[cur.from] EXCEPT !.state = state]
  <2>1. r \in CBaseSocket /\ r.fd = socket[cur.from].fd /\ r.ref = socket[cur.from].ref
    BY <1>2, Zenon DEF CBaseSocket
  <2>2. [socket EXCEPT ![cur.from].state = state] = [socket EXCEPT ![cur.from] = r]
    BY Zenon
  <2>. HIDE DEF r
  <2>. QED
    BY <1>2, <2>1, <2>2 DEF Restated, SocketInv, SocketTypes
<1>. QED
  BY <1>1, <1>3, Zenon

(* A callback: it reaches the connection of the socket, or none, and the     *)
(* connection may close.                                                     *)
LEMMA CallbackStep ==
    ASSUME SocketInv, NEW m, Restated(m), NEW msg, Callback(m, cur.from, msg),
           UNCHANGED <<batch, cur>>,
           pc \in {"in", "out", "hup"}, pc' \in {"out", "hup", "release"}
    PROVE  SocketInv'
<1>. USE LoopAssumption
<1>. DEFINE f == m[cur.from].fd
<1>1. cur.from \in Sockets /\ f = cur.fd /\ f \in Fds
  BY Zenon DEF SocketInv, SocketTypes, Current, Handling, Restated, Held
<1>2. reached' = [event |-> cur.from, conn |-> conn_map[f]]
  BY Zenon DEF Callback
<1>3. conn_map[f] \in {None, g_socket_map[f]}
  BY <1>1, Zenon DEF SocketInv, Linked
<1>4. RightConnection'
  BY <1>1, <1>2, <1>3, Zenon DEF SocketInv, Current, Handling, RightConnection
<1>5. CASE conn_map[f] # None /\ Close(m, f)
  BY <1>1, <1>4, <1>5, CloseStep, Zenon
<1>6. CASE socket' = m /\ UNCHANGED <<g_socket_map, conn_map>>
  <2>1. SocketTypes'
    BY <1>6, Zenon DEF SocketInv, SocketTypes, Restated
  <2>2. Held'
    BY <1>6 DEF SocketInv, Held, InMap, Restated
  <2>3. Linked'
    BY <1>6 DEF SocketInv, Linked, Restated, SocketTypes
  <2>4. Current'
    BY <1>1, <1>6, Zenon DEF SocketInv, Current, Handling
  <2>. QED
    BY <1>4, <2>1, <2>2, <2>3, <2>4, Zenon DEF SocketInv
<1>. QED
  BY <1>5, <1>6, Zenon DEF Callback

(* Finding the socket of an event takes a reference.                         *)
LEMMA NextEventStep ==
    ASSUME SocketInv, NextEvent
    PROVE  SocketInv'
<1>. USE LoopAssumption
<1>1. PICK e \in batch :
        /\ batch' = batch \ {e}
        /\ LET s == g_socket_map[e.fd] IN
           \/ s = None /\ UNCHANGED <<socket, cur, pc>>
           \/ /\ s # None
              /\ socket' = [socket EXCEPT ![s].ref = @ + 1]
              /\ cur' = [fd |-> e.fd, from |-> s, events |-> e.events]
              /\ pc' = "in"
  BY Zenon DEF NextEvent
<1>2. e.fd \in Fds /\ e.events \in SUBSET Events /\ pc = "next" /\ cur.from = None
      /\ batch' \in SUBSET [fd : Fds, events : SUBSET Events]
  BY <1>1, Zenon DEF SocketInv, SocketTypes, NextEvent, Current, Handling
<1>3. CASE g_socket_map[e.fd] = None
  BY <1>1, <1>2, <1>3, OtherStep, Zenon DEF NextEvent, sockVars
<1>4. CASE g_socket_map[e.fd] # None
  <2>1. PICK s \in Sockets : s = g_socket_map[e.fd]
    BY <1>2, <1>4, Zenon DEF SocketInv, SocketTypes
  <2>2. socket[s] \in CBaseSocket /\ socket[s].fd = e.fd /\ InMap(s)
    BY <1>2, <2>1 DEF SocketInv, SocketTypes, Linked, InMap
  <2>3. socket[s].ref = 1
    BY <1>2, <2>2 DEF SocketInv, Held, CBaseSocket
  <2>. DEFINE r == [socket[s] EXCEPT !.ref = 2]
  <2>4. r \in CBaseSocket /\ r.fd = e.fd /\ r.ref = 2
    BY <2>2 DEF CBaseSocket
  <2>5. socket' = [socket EXCEPT ![s] = r]
    BY <1>1, <1>4, <2>1, <2>3
  <2>. HIDE DEF r
  <2>6. /\ socket' \in [Sockets -> CBaseSocket \cup {None}] /\ socket'[s] = r
        /\ \A t \in Sockets \ {s} : socket'[t] = socket[t]
    BY <2>4, <2>5, Zenon DEF SocketInv, SocketTypes
  <2>7. /\ cur' = [fd |-> e.fd, from |-> s, events |-> e.events] /\ pc' = "in"
        /\ UNCHANGED <<g_socket_map, conn_map, reached>>
    BY <1>1, <1>4, <2>1, Zenon DEF NextEvent
  <2>8. SocketTypes'
    BY <1>2, <2>6, <2>7, Zenon DEF SocketInv, SocketTypes
  <2>9. Held'
    BY <1>2, <2>2, <2>4, <2>6, <2>7 DEF SocketInv, Held, InMap
  <2>10. Linked'
    BY <2>1, <2>2, <2>4, <2>6, <2>7 DEF SocketInv, Linked, SocketTypes
  <2>11. Current' /\ RightConnection'
    BY <2>1, <2>4, <2>6, <2>7, Zenon DEF SocketInv, Current, Handling, RightConnection
  <2>. QED
    BY <2>8, <2>9, <2>10, <2>11, Zenon DEF SocketInv
<1>. QED
  BY <1>3, <1>4, Zenon

(* Releasing it frees a socket whose connection closed in the meantime.      *)
LEMMA EndOfEventStep ==
    ASSUME SocketInv, EndOfEvent
    PROVE  SocketInv'
<1>. USE LoopAssumption
<1>1. PICK s \in Sockets : s = cur.from
  BY Zenon DEF SocketInv, SocketTypes, Current, Handling, EndOfEvent
<1>2. socket[s] # None /\ (socket[s].ref = 2 <=> InMap(s))
  BY <1>1, Zenon DEF SocketInv, Held
<1>3. socket' = ReleaseRef(socket, s)
  BY <1>1, Zenon DEF EndOfEvent
<1>4. /\ socket' \in [Sockets -> CBaseSocket \cup {None}]
      /\ \A t \in Sockets \ {s} : socket'[t] = socket[t]
      /\ socket[s].ref = 1 => socket'[s] = None
      /\ socket[s].ref = 2 =>
           socket'[s] # None /\ socket'[s].ref = 1 /\ socket'[s].fd = socket[s].fd
      /\ socket[s].ref \in {1, 2}
  <2>1. socket \in [Sockets -> CBaseSocket \cup {None}]
    BY Zenon DEF SocketInv, SocketTypes
  <2>. QED
    BY <1>2, <1>3, <2>1, ReleaseMeans
<1>5. /\ cur' = NoEvent /\ pc' = "next"
      /\ UNCHANGED <<g_socket_map, conn_map, batch, reached>>
  BY Zenon DEF EndOfEvent
<1>6. SocketTypes'
  BY <1>4, <1>5, Zenon DEF SocketInv, SocketTypes, NoEvent
<1>7. Held'
  BY <1>1, <1>2, <1>4, <1>5 DEF SocketInv, Held, InMap, NoEvent
<1>8. Linked'
  BY <1>2, <1>4, <1>5 DEF SocketInv, Linked, SocketTypes, InMap
<1>9. Current' /\ RightConnection'
  BY <1>5, Zenon DEF SocketInv, Current, Handling, RightConnection, NoEvent
<1>. QED
  BY <1>6, <1>7, <1>8, <1>9, Zenon DEF SocketInv

(* Types of what the kernel knows.                                           *)
LEMMA NetStep ==
    ASSUME NetTypes, [Next]_vars
    PROVE  NetTypes'
<1>. USE LoopAssumption DEF NetTypes
<1>1. ASSUME NEW m, NEW s, NEW msg, Callback(m, s, msg), backlog' = backlog
      PROVE  NetTypes'
  BY <1>1, Zenon DEF Callback, Close, Forget
<1>2. CASE EpollWait
  BY <1>2, Zenon DEF EpollWait
<1>3. CASE NextEvent \/ EndOfEvents \/ AcceptEnds \/ EndOfEvent \/ EndOfTimers
  BY <1>3, Zenon DEF NextEvent, EndOfEvents, AcceptEnds, EndOfEvent, EndOfTimers, netVars
<1>4. CASE Accept
  BY <1>4 DEF Accept, Unused
<1>5. CASE OnRead \/ OnWrite \/ OnClose
  <2>1. CASE Idle
    BY <1>5, <2>1, Zenon DEF OnRead, OnWrite, OnClose, Idle
  <2>2. CASE ~ Idle
    BY <1>1, <1>5, <2>2, Zenon DEF OnRead, OnWrite, OnClose
  <2>. QED
    BY <2>1, <2>2, Zenon
<1>6. CASE TimerCloses
  BY <1>6, Zenon DEF TimerCloses, Close, Forget
<1>7. CASE TimerConnects
  BY <1>7, Zenon DEF TimerConnects, Unused
<1>8. CASE PeerConnects
  BY <1>8 DEF PeerConnects
<1>9. CASE \E f \in Fds : Established(f) \/ PeerSends(f) \/ PeerGone(f) \/ PeerResets(f)
  BY <1>9, Zenon DEF Established, PeerSends, PeerGone, PeerResets, Becomes
<1>10. CASE UNCHANGED vars
  BY <1>10, Zenon DEF vars, netVars
<1>. QED
  BY <1>2, <1>3, <1>4, <1>5, <1>6, <1>7, <1>8, <1>9, <1>10, Zenon DEF Next, Loop

(* Every step keeps the invariant.                                           *)
LEMMA SocketStep ==
    ASSUME SocketInv, NetTypes, [Next]_vars
    PROVE  SocketInv'
<1>. USE LoopAssumption
<1>0. batch \in SUBSET [fd : Fds, events : SUBSET Events]
  BY Zenon DEF SocketInv, SocketTypes
<1>1. CASE EpollWait
  <2>1. batch' \in SUBSET [fd : Fds, events : SUBSET Events]
    <3>1. woken \subseteq Fds /\ \A f \in woken : Readiness(f) \in SUBSET Events
      BY Zenon DEF Readiness, Events, NetTypes
    <3>. QED
      BY <1>1, <3>1 DEF EpollWait
  <2>. QED
    BY <1>1, <2>1, OtherStep, Zenon DEF EpollWait
<1>2. CASE NextEvent
  BY <1>2, NextEventStep, Zenon
<1>3. CASE EndOfEvents \/ AcceptEnds \/ EndOfTimers
  <2>1. UNCHANGED <<sockVars, cur, reached, batch>>
    BY <1>3, Zenon DEF EndOfEvents, AcceptEnds, EndOfTimers
  <2>2. \/ pc = "in" /\ pc' = "out"
        \/ pc \in {"wait", "next", "timer"} /\ pc' \in {"wait", "next", "timer"}
    BY <1>3, Zenon DEF EndOfEvents, AcceptEnds, EndOfTimers
  <2>. QED
    BY <1>0, <2>1, <2>2, OtherStep, Zenon
<1>4. CASE Accept
  BY <1>4, OpenStep, Zenon DEF Accept
<1>5. CASE OnRead
  <2>1. CASE Idle
    <3>1. UNCHANGED <<sockVars, cur, reached, batch>> /\ pc = "in" /\ pc' = "out"
      BY <1>5, <2>1, Zenon DEF OnRead, Idle
    <3>. QED
      BY <1>0, <3>1, OtherStep, Zenon
  <2>2. CASE Callback(socket, cur.from, IF cur.fd \in data THEN "READ" ELSE "CLOSE")
    BY <1>5, <2>2, CallbackStep, StateChange, Zenon DEF OnRead, Handling
  <2>. QED
    BY <1>5, <2>1, <2>2, Zenon DEF OnRead
<1>6. CASE OnWrite
  <2>1. CASE Idle
    BY <1>0, <1>6, <2>1, OtherStep, Zenon DEF OnWrite, Idle
  <2>2. CASE \E msg \in {"CLOSE", "WRITE"} : Callback(socket, cur.from, msg)
    BY <1>6, <2>2, CallbackStep, StateChange, Zenon DEF OnWrite, Handling
  <2>3. CASE Callback([socket EXCEPT ![cur.from].state = "CONNECTED"], cur.from, "CONFIRM")
    BY <1>6, <2>3, CallbackStep, StateChange, Zenon DEF OnWrite, Handling
  <2>. QED
    BY <1>6, <2>1, <2>2, <2>3, Zenon DEF OnWrite
<1>7. CASE OnClose
  <2>1. CASE Idle
    BY <1>0, <1>7, <2>1, OtherStep, Zenon DEF OnClose, Idle
  <2>2. CASE Callback([socket EXCEPT ![cur.from].state = "CLOSING"], cur.from, "CLOSE")
    BY <1>7, <2>2, CallbackStep, StateChange, Zenon DEF OnClose, Handling
  <2>. QED
    BY <1>7, <2>1, <2>2, Zenon DEF OnClose
<1>8. CASE EndOfEvent
  BY <1>8, EndOfEventStep, Zenon
<1>9. CASE TimerCloses
  <2>1. Restated(socket) /\ RightConnection'
    BY <1>9, Zenon DEF TimerCloses, Restated, SocketInv, SocketTypes, RightConnection
  <2>. QED
    BY <1>9, <2>1, CloseStep, Zenon DEF TimerCloses
<1>10. CASE TimerConnects
  BY <1>10, OpenStep, Zenon DEF TimerConnects
<1>11. CASE \/ PeerConnects \/ UNCHANGED vars
            \/ \E f \in Fds : Established(f) \/ PeerSends(f) \/ PeerGone(f) \/ PeerResets(f)
  BY <1>0, <1>11, OtherStep, Zenon
     DEF PeerConnects, Established, PeerSends, PeerGone, PeerResets, vars
<1>. QED
  BY <1>1, <1>2, <1>3, <1>4, <1>5, <1>6, <1>7, <1>8, <1>9, <1>10, <1>11, Zenon
     DEF Next, Loop

-----------------------------------------------------------------------------
(* A socket is freed exactly when neither the map nor the loop holds it, a   *)
(* descriptor leads to the socket and the connection that own it, and no     *)
(* event of a batch reaches a later owner of its descriptor: for any number  *)
(* of descriptors, sockets and events in a batch (BaseSocket.cpp,            *)
(* EventDispatch.cpp StartDispatch, ImConn.cpp imconn_callback).             *)
THEOREM SocketsCorrect == Spec => [](CountsRight /\ MapsAgree /\ RightConnection)
<1>1. Init => SocketInv /\ NetTypes
  <2>1. Init => NetTypes
    BY LoopAssumption DEF Init, NetTypes
  <2>. QED
    BY <2>1, SocketInit, Zenon
<1>2. SocketInv /\ NetTypes /\ [Next]_vars => SocketInv' /\ NetTypes'
  BY SocketStep, NetStep, Zenon
<1>3. SocketInv => CountsRight /\ MapsAgree /\ RightConnection
  BY CountMeans, Zenon DEF SocketInv, Linked, MapsAgree
<1>. QED
  BY <1>1, <1>2, <1>3, PTL DEF Spec

-----------------------------------------------------------------------------
(* Nothing the kernel has to tell is forgotten.                              *)

\* The loop has yet to read from the descriptor f in this round.
Pending(f) ==
    \/ \E e \in batch : e.fd = f /\ "IN" \in e.events
    \/ pc = "in" /\ cur.fd = f /\ "IN" \in cur.events

\* Only the listener listens, its socket for ever, and it has no peer: it gets no
\* other events.
Listens(m) ==
    \A s \in Sockets : m[s] # None => (m[s].state = "LISTENING" <=> m[s].fd = listener)
ListenInv ==
    /\ Listens(socket)
    /\ \A f \in Fds : g_socket_map[f] = None \/ f = listener => peer[f] = "none"
    /\ \A e \in batch : e.fd = listener => e.events \subseteq {"IN"}
    /\ cur.fd = listener => cur.events \subseteq {"IN"}
    /\ pc \in {"wait", "timer"} => batch = {}

\* Data left unread when the peer hangs up is data it hung up on.
LateInv ==
    \A f \in Fds : /\ peer[f] = "gone" /\ f \in data => f \in late
                   /\ peer[f] = "reset" => f \notin data

\* A waiting connection, or an end, is on its way to the loop.
OnTheWay ==
    /\ backlog > 0 => listener \in woken \/ starved \/ Pending(listener)
    /\ \A f \in Fds : peer[f] \in {"gone", "reset"} =>
          f \in woken \/ f \in late \/ Pending(f)

(* What a callback does to the descriptor of the event.                      *)
LEMMA CallbackNet ==
    ASSUME SocketInv, Handling, NEW m, Restated(m), NEW msg, Callback(m, cur.from, msg)
    PROVE  \/ /\ conn_map[cur.fd] # None /\ Forget(cur.fd)
              /\ socket' = ReleaseRef(m, g_socket_map[cur.fd])
              /\ g_socket_map' = [g_socket_map EXCEPT ![cur.fd] = None]
           \/ /\ conn_map[cur.fd] = None \/ msg # "CLOSE"
              /\ socket' = m
              /\ data' = IF msg = "READ" THEN data \ {cur.fd} ELSE data
              /\ UNCHANGED <<g_socket_map, peer, woken, late>>
<1>1. cur.from \in Sockets /\ m[cur.from].fd = cur.fd
  BY LoopAssumption, Zenon DEF SocketInv, SocketTypes, Current, Handling, Restated, Held
<1>. QED
  BY <1>1, Zenon DEF Callback, Close

(* What the kernel reports, it reports of a descriptor it was woken for.     *)
LEMMA Reported ==
    ASSUME NetTypes, EpollWait
    PROVE  /\ \A f \in woken : Readiness(f) # {} =>
                 \E e \in batch' : e.fd = f /\ e.events = Readiness(f)
           /\ \A e \in batch' : e.fd \in Fds /\ e.events = Readiness(e.fd)
<1>1. batch' = {[fd |-> f, events |-> Readiness(f)] :
                 f \in {g \in woken : Readiness(g) # {}}}
  BY Zenon DEF EpollWait
<1>2. ASSUME NEW f \in woken, Readiness(f) # {}
      PROVE  \E e \in batch' : e.fd = f /\ e.events = Readiness(f)
  <2>1. [fd |-> f, events |-> Readiness(f)] \in batch'
    BY <1>1, <1>2, Zenon
  <2>. QED
    BY <2>1, Zenon
<1>3. \A e \in batch' : e.fd \in Fds /\ e.events = Readiness(e.fd)
  BY <1>1 DEF NetTypes
<1>. QED
  BY <1>2, <1>3, Zenon

(* A callback keeps the listener listening and the closed ones without peer. *)
LEMMA CallbackListens ==
    ASSUME SocketInv, NetTypes, ListenInv, Handling, NEW m, Restated(m), Listens(m),
           NEW msg, Callback(m, cur.from, msg), UNCHANGED <<batch, cur>>,
           pc' \notin {"wait", "timer"}
    PROVE  ListenInv'
<1>. USE LoopAssumption
<1>0. cur.fd \in Fds
  BY Zenon DEF SocketInv, SocketTypes
<1>1. CASE /\ conn_map[cur.fd] # None /\ Forget(cur.fd)
           /\ socket' = ReleaseRef(m, g_socket_map[cur.fd])
           /\ g_socket_map' = [g_socket_map EXCEPT ![cur.fd] = None]
  <2>1. PICK s \in Sockets : s = g_socket_map[cur.fd] /\ socket[s] # None
    BY <1>0, <1>1 DEF SocketInv, SocketTypes, Linked
  <2>2. m \in [Sockets -> CBaseSocket \cup {None}] /\ m[s] # None
    BY <2>1, Zenon DEF Restated
  <2>3. socket' = ReleaseRef(m, s)
    BY <1>1, <2>1, Zenon
  <2>4. Listens(socket)'
    BY <2>2, <2>3, ReleaseMeans DEF Listens
  <2>5. \A f \in Fds : g_socket_map'[f] = None \/ f = listener => peer'[f] = "none"
    BY <1>0, <1>1, Zenon DEF Forget, ListenInv, NetTypes, SocketInv, SocketTypes
  <2>. QED
    BY <2>4, <2>5, Zenon DEF ListenInv
<1>2. CASE socket' = m /\ UNCHANGED <<g_socket_map, peer>>
  BY <1>2, Zenon DEF ListenInv, Listens
<1>. QED
  BY <1>1, <1>2, CallbackNet, Zenon

(* The listener keeps listening, and no closed descriptor has a peer.        *)
LEMMA ListenStep ==
    ASSUME SocketInv, NetTypes, ListenInv, [Next]_vars
    PROVE  ListenInv'
<1>. USE LoopAssumption
<1>1. CASE EpollWait
  <2>1. \A e \in batch' : e.fd = listener => e.events \subseteq {"IN"}
    BY <1>1, Reported DEF ListenInv, Readiness
  <2>. QED
    BY <1>1, <2>1, Zenon DEF EpollWait, ListenInv, Listens, sockVars
<1>2. CASE NextEvent
  <2>1. PICK e \in batch :
          /\ batch' = batch \ {e}
          /\ \/ UNCHANGED <<socket, cur, pc>>
             \/ /\ g_socket_map[e.fd] # None
                /\ socket' = [socket EXCEPT ![g_socket_map[e.fd]].ref = @ + 1]
                /\ cur' = [fd |-> e.fd, from |-> g_socket_map[e.fd], events |-> e.events]
                /\ pc' = "in"
    BY <1>2, Zenon DEF NextEvent
  <2>2. UNCHANGED <<g_socket_map, peer>> /\ pc = "next"
    BY <1>2, Zenon DEF NextEvent, netVars
  <2>3. CASE UNCHANGED <<socket, cur, pc>>
    BY <2>1, <2>2, <2>3, Zenon DEF ListenInv, Listens
  <2>4. CASE /\ g_socket_map[e.fd] # None
             /\ socket' = [socket EXCEPT ![g_socket_map[e.fd]].ref = @ + 1]
             /\ cur' = [fd |-> e.fd, from |-> g_socket_map[e.fd], events |-> e.events]
             /\ pc' = "in"
    <3>1. PICK s \in Sockets : s = g_socket_map[e.fd] /\ socket[s] # None
      BY <2>4, Zenon DEF SocketInv, SocketTypes, Linked
    <3>. DEFINE r == [socket[s] EXCEPT !.ref = @ + 1]
    <3>2. r.fd = socket[s].fd /\ r.state = socket[s].state
      BY <3>1, Zenon DEF SocketInv, SocketTypes, CBaseSocket
    <3>3. socket' = [socket EXCEPT ![s] = r]
      BY <2>4, <3>1, Zenon
    <3>. HIDE DEF r
    <3>4. Listens(socket)'
      BY <3>1, <3>2, <3>3 DEF ListenInv, Listens, SocketInv, SocketTypes
    <3>. QED
      BY <2>1, <2>2, <2>4, <3>4, Zenon DEF ListenInv
  <2>. QED
    BY <2>1, <2>3, <2>4, Zenon
<1>3. CASE EndOfEvents \/ AcceptEnds \/ EndOfTimers
  <2>1. UNCHANGED <<sockVars, netVars, batch, cur>>
    BY <1>3, Zenon DEF EndOfEvents, AcceptEnds, EndOfTimers
  <2>2. pc' \in {"wait", "timer"} => batch = {}
    BY <1>3, Zenon DEF EndOfEvents, AcceptEnds, EndOfTimers, ListenInv
  <2>. QED
    BY <2>1, <2>2, Zenon DEF ListenInv, Listens, sockVars, netVars
<1>4. ASSUME NEW f \in Unused, NEW state \in {"CONNECTED", "CONNECTING"}, Open(f, state),
             NEW p, peer' = [peer EXCEPT ![f] = p], UNCHANGED <<batch, cur, pc>>
      PROVE  ListenInv'
  <2>1. PICK s \in Sockets :
        /\ socket[s] = None
        /\ socket' = [socket EXCEPT ![s] = [fd |-> f, state |-> state, ref |-> 1]]
        /\ g_socket_map' = [g_socket_map EXCEPT ![f] = s]
    BY <1>4, Zenon DEF Open
  <2>2. f \in Fds /\ f # listener
    BY <1>4, Zenon DEF Unused, SocketInv, Linked
  <2>3. Listens(socket)'
    BY <2>1, <2>2 DEF ListenInv, Listens, SocketInv, SocketTypes
  <2>4. \A g \in Fds : g_socket_map'[g] = None \/ g = listener => peer'[g] = "none"
    BY <1>4, <2>1, <2>2, Zenon DEF ListenInv, NetTypes, SocketInv, SocketTypes
  <2>. QED
    BY <1>4, <2>3, <2>4, Zenon DEF ListenInv
<1>5. CASE Accept \/ TimerConnects
  BY <1>4, <1>5, Zenon DEF Accept, TimerConnects
<1>6. CASE Idle /\ (OnRead \/ OnWrite \/ OnClose)
  <2>1. UNCHANGED <<sockVars, peer, batch, cur>> /\ pc' \notin {"wait", "timer"}
    BY <1>6, Zenon DEF Idle, OnRead, OnWrite, OnClose
  <2>. QED
    BY <2>1, Zenon DEF ListenInv, Listens, sockVars
<1>7. CASE ~ Idle /\ (OnRead \/ OnWrite)
  <2>1. /\ Handling /\ pc' \notin {"wait", "timer"} /\ UNCHANGED <<batch, cur>>
    BY <1>7, Zenon DEF Handling, OnRead, OnWrite
  <2>2. CASE \E msg : Callback(socket, cur.from, msg)
    BY <2>1, <2>2, StateChange, CallbackListens, Zenon DEF ListenInv
  <2>3. CASE /\ socket[cur.from].state = "CONNECTING"
             /\ Callback([socket EXCEPT ![cur.from].state = "CONNECTED"], cur.from, "CONFIRM")
    <3>1. Listens([socket EXCEPT ![cur.from].state = "CONNECTED"])
      BY <2>1, <2>3 DEF ListenInv, Listens, SocketInv, SocketTypes, CBaseSocket, Current, Held
    <3>. QED
      BY <2>1, <2>3, <3>1, StateChange, CallbackListens, Zenon
  <2>. QED
    BY <1>7, <2>2, <2>3, Zenon DEF OnRead, OnWrite
<1>8. CASE ~ Idle /\ OnClose
  <2>1. /\ Handling /\ pc' \notin {"wait", "timer"} /\ UNCHANGED <<batch, cur>>
        /\ Callback([socket EXCEPT ![cur.from].state = "CLOSING"], cur.from, "CLOSE")
        /\ "HUP" \in cur.events
    BY <1>8, Zenon DEF Handling, OnClose
  <2>2. cur.fd # listener
    BY <2>1, Zenon DEF ListenInv
  <2>3. Listens([socket EXCEPT ![cur.from].state = "CLOSING"])
    BY <2>1, <2>2 DEF ListenInv, Listens, SocketInv, SocketTypes, CBaseSocket, Current, Held
  <2>. QED
    BY <2>1, <2>3, StateChange, CallbackListens, Zenon
<1>9. CASE EndOfEvent
  <2>1. PICK s \in Sockets : s = cur.from /\ socket[s] # None
    BY <1>9, Zenon DEF SocketInv, SocketTypes, Current, Handling, EndOfEvent, Held
  <2>2. socket' = ReleaseRef(socket, s) /\ socket \in [Sockets -> CBaseSocket \cup {None}]
    BY <1>9, <2>1, Zenon DEF EndOfEvent, SocketInv, SocketTypes
  <2>3. Listens(socket)'
    BY <2>1, <2>2, ReleaseMeans DEF Listens, ListenInv
  <2>. QED
    BY <1>9, <2>3, Zenon DEF EndOfEvent, ListenInv, NoEvent, netVars
<1>10. CASE TimerCloses
  <2>1. PICK f \in Fds : conn_map[f] # None /\ Close(socket, f)
    BY <1>10, Zenon DEF TimerCloses
  <2>2. PICK s \in Sockets : s = g_socket_map[f] /\ socket[s] # None
    BY <2>1 DEF SocketInv, SocketTypes, Linked
  <2>3. socket' = ReleaseRef(socket, s) /\ socket \in [Sockets -> CBaseSocket \cup {None}]
    BY <2>1, <2>2, Zenon DEF Close, SocketInv, SocketTypes
  <2>4. Listens(socket)'
    BY <2>2, <2>3, ReleaseMeans DEF Listens, ListenInv
  <2>5. \A g \in Fds : g_socket_map'[g] = None \/ g = listener => peer'[g] = "none"
    BY <2>1, Zenon DEF Close, Forget, ListenInv, NetTypes, SocketInv, SocketTypes
  <2>. QED
    BY <1>10, <2>4, <2>5, Zenon DEF TimerCloses, ListenInv
<1>11. CASE PeerConnects \/ UNCHANGED vars
  BY <1>11, Zenon DEF PeerConnects, ListenInv, Listens, sockVars, netVars, vars
<1>12. CASE \E f \in Fds : Established(f) \/ PeerSends(f) \/ PeerGone(f) \/ PeerResets(f)
  <2>1. PICK f \in Fds : peer[f] # "none" /\ \A g \in Fds \ {f} : peer'[g] = peer[g]
    BY <1>12, Zenon DEF Established, PeerSends, PeerGone, PeerResets, Becomes, NetTypes
  <2>2. UNCHANGED <<sockVars, batch, cur, pc>>
    BY <1>12, Zenon DEF Established, PeerSends, PeerGone, PeerResets
  <2>. QED
    BY <2>1, <2>2, Zenon DEF ListenInv, Listens, sockVars
<1>. QED
  BY <1>1, <1>2, <1>3, <1>5, <1>6, <1>7, <1>8, <1>9, <1>10, <1>11, <1>12, Zenon DEF Next, Loop

(* A callback reads what there is, or its descriptor is closed.              *)
LEMMA CallbackLate ==
    ASSUME SocketInv, NetTypes, LateInv, Handling, NEW m, Restated(m),
           NEW msg, Callback(m, cur.from, msg)
    PROVE  LateInv'
<1>1. cur.fd \in Fds
  BY Zenon DEF SocketInv, SocketTypes
<1>2. CASE Forget(cur.fd)
  BY <1>1, <1>2, Zenon DEF Forget, LateInv, NetTypes
<1>3. CASE data' \subseteq data /\ UNCHANGED <<peer, late>>
  BY <1>3, Zenon DEF LateInv
<1>. QED
  BY <1>2, <1>3, CallbackNet, Zenon

(* The peer is the only one who leaves data unread behind it.                *)
LEMMA LateStep ==
    ASSUME SocketInv, NetTypes, LateInv, [Next]_vars
    PROVE  LateInv'
<1>1. CASE UNCHANGED <<peer, data, late>>
  BY <1>1, Zenon DEF LateInv
<1>2. CASE OnRead \/ OnWrite \/ OnClose
  <2>1. Handling
    BY <1>2, Zenon DEF OnRead, OnWrite, OnClose, Handling
  <2>2. Idle \/ \E m, msg : Restated(m) /\ Callback(m, cur.from, msg)
    BY <1>2, <2>1, StateChange, Zenon DEF OnRead, OnWrite, OnClose
  <2>. QED
    BY <1>1, <2>1, <2>2, CallbackLate, Zenon DEF Idle
<1>3. CASE Accept \/ TimerConnects
  <2>1. PICK f \in Fds, p \in {"open", "connecting"} : peer' = [peer EXCEPT ![f] = p]
    BY <1>3, Zenon DEF Accept, TimerConnects, Unused
  <2>2. UNCHANGED <<data, late>>
    BY <1>3, Zenon DEF Accept, TimerConnects
  <2>. QED
    BY <2>1, <2>2, Zenon DEF LateInv, NetTypes
<1>4. CASE TimerCloses
  BY <1>4, Zenon DEF TimerCloses, Close, Forget, LateInv, NetTypes
<1>5. CASE \E f \in Fds : Established(f) \/ PeerSends(f) \/ PeerGone(f) \/ PeerResets(f)
  BY <1>5 DEF Established, PeerSends, PeerGone, PeerResets, Becomes, LateInv, NetTypes
<1>6. CASE EpollWait \/ NextEvent \/ EndOfEvents \/ AcceptEnds \/ EndOfEvent \/ EndOfTimers
  BY <1>1, <1>6, Zenon
     DEF EpollWait, NextEvent, EndOfEvents, AcceptEnds, EndOfEvent, EndOfTimers, netVars
<1>7. CASE PeerConnects \/ UNCHANGED vars
  BY <1>1, <1>7, Zenon DEF PeerConnects, vars, netVars
<1>. QED
  BY <1>2, <1>3, <1>4, <1>5, <1>6, <1>7, Zenon DEF Next, Loop

(* Whoever handles an event for reading either closes the descriptor, or     *)
(* has read data the peer did not hang up on.                                *)
LEMMA OnReadOnTheWay ==
    ASSUME SocketInv, NetTypes, ListenInv, LateInv, OnTheWay, OnRead
    PROVE  OnTheWay'
<1>. USE LoopAssumption
<1>0. Handling /\ cur.fd \in Fds /\ Restated(socket) /\ g_socket_map[cur.fd] = cur.from
  BY StateChange, Zenon DEF SocketInv, SocketTypes, OnRead, Handling, Current
<1>1. UNCHANGED <<backlog, batch, cur, starved>> /\ pc = "in" /\ pc' = "out"
  BY Zenon DEF OnRead
<1>2. \A f \in Fds \ {cur.fd} : Pending(f)' <=> Pending(f)
  BY <1>1, Zenon DEF Pending
<1>3. CASE "IN" \notin cur.events /\ Idle
  <2>1. \A f \in Fds : Pending(f)' <=> Pending(f)
    BY <1>1, <1>3, Zenon DEF Pending
  <2>. QED
    BY <1>1, <1>3, <2>1, Zenon DEF Idle, OnTheWay
<1>4. CASE /\ "IN" \in cur.events /\ ~ Listening
           /\ Callback(socket, cur.from, IF cur.fd \in data THEN "READ" ELSE "CLOSE")
  <2>1. cur.fd # listener
    BY <1>0, <1>4 DEF Listening, ListenInv, Listens, SocketInv, Current, Held, SocketTypes, Handling
  <2>2. conn_map[cur.fd] # None
    BY <1>0, <2>1, Zenon DEF SocketInv, Linked, Current, Handling
  <2>3. CASE Forget(cur.fd)
    BY <1>0, <1>1, <1>2, <2>1, <2>3, Zenon DEF Forget, OnTheWay, NetTypes
  <2>4. CASE cur.fd \in data /\ UNCHANGED <<peer, woken, late>>
    BY <1>0, <1>1, <1>2, <2>1, <2>4, Zenon DEF OnTheWay, LateInv
  <2>. QED
    BY <1>0, <1>4, <2>2, <2>3, <2>4, CallbackNet, Zenon
<1>. QED
  BY <1>3, <1>4, Zenon DEF OnRead

(* Every step keeps on their way what is on its way.                         *)
LEMMA OnTheWayStep ==
    ASSUME SocketInv, NetTypes, ListenInv, LateInv, OnTheWay, [Next]_vars
    PROVE  OnTheWay'
<1>. USE LoopAssumption
<1>1. CASE EpollWait
  <2>1. pc = "wait" /\ batch = {} /\ \A f \in Fds : ~ Pending(f)
    BY <1>1, Zenon DEF EpollWait, ListenInv, Pending
  <2>2. UNCHANGED <<peer, backlog, late, starved>>
    BY <1>1, Zenon DEF EpollWait
  <2>3. ASSUME NEW f \in woken, "IN" \in Readiness(f)
        PROVE  Pending(f)'
    BY <1>1, <2>3, Reported, Zenon DEF Pending
  <2>4. backlog > 0 => "IN" \in Readiness(listener)
    BY Zenon DEF Readiness
  <2>5. \A f \in Fds : peer[f] \in {"gone", "reset"} => "IN" \in Readiness(f)
    BY Zenon DEF Readiness
  <2>. QED
    BY <2>1, <2>2, <2>3, <2>4, <2>5, Zenon DEF OnTheWay
<1>2. CASE NextEvent
  <2>1. PICK e \in batch :
          /\ batch' = batch \ {e}
          /\ \/ g_socket_map[e.fd] = None /\ UNCHANGED <<cur, pc>>
             \/ /\ cur' = [fd |-> e.fd, from |-> g_socket_map[e.fd], events |-> e.events]
                /\ pc' = "in"
    BY <1>2, Zenon DEF NextEvent
  <2>2. UNCHANGED <<netVars, starved>> /\ pc = "next"
    BY <1>2, Zenon DEF NextEvent
  <2>3. \A f \in Fds : g_socket_map[f] # None /\ Pending(f) => Pending(f)'
    BY <2>1, <2>2 DEF Pending
  <2>4. g_socket_map[listener] # None
    BY Zenon DEF SocketInv, Linked
  <2>5. \A f \in Fds : peer[f] \in {"gone", "reset"} => g_socket_map[f] # None
    BY Zenon DEF ListenInv
  <2>. QED
    BY <2>2, <2>3, <2>4, <2>5, Zenon DEF OnTheWay, netVars
<1>3. CASE EndOfEvents \/ EndOfEvent \/ EndOfTimers
  <2>1. UNCHANGED <<netVars, batch, starved>> /\ pc # "in"
    BY <1>3, Zenon DEF EndOfEvents, EndOfEvent, EndOfTimers
  <2>2. \A f \in Fds : Pending(f) => Pending(f)'
    BY <2>1, Zenon DEF Pending
  <2>. QED
    BY <2>1, <2>2, Zenon DEF OnTheWay, netVars
<1>4. ASSUME NEW f \in Fds, NEW p \in {"open", "connecting"}, peer' = [peer EXCEPT ![f] = p],
             woken \subseteq woken', backlog' \in Nat, backlog' <= backlog,
             UNCHANGED <<late, batch, cur, pc, starved>>
      PROVE  OnTheWay'
  <2>1. \A g \in Fds : Pending(g)' <=> Pending(g)
    BY <1>4, Zenon DEF Pending
  <2>2. backlog' > 0 => backlog > 0
    BY <1>4 DEF NetTypes
  <2>. QED
    BY <1>4, <2>1, <2>2, Zenon DEF OnTheWay, NetTypes
<1>5. CASE Accept
  <2>1. backlog' \in Nat /\ backlog' <= backlog
    BY <1>5 DEF Accept, NetTypes
  <2>. QED
    BY <1>4, <1>5, <2>1, Zenon DEF Accept, Unused
<1>6. CASE TimerConnects
  <2>1. backlog' \in Nat /\ backlog' <= backlog
    BY <1>6 DEF TimerConnects, NetTypes
  <2>. QED
    BY <1>4, <1>6, <2>1, Zenon DEF TimerConnects, Unused
<1>7. CASE AcceptEnds
  <2>1. /\ UNCHANGED <<netVars, batch, cur>> /\ pc' = "out" /\ starved' = (backlog > 0)
        /\ Listening /\ pc = "in"
    BY <1>7, Zenon DEF AcceptEnds
  <2>2. cur.fd = listener
    BY <2>1 DEF Listening, ListenInv, Listens, SocketInv, Current, Held, SocketTypes, Handling
  <2>3. \A f \in Fds \ {listener} : Pending(f)' <=> Pending(f)
    BY <2>1, <2>2, Zenon DEF Pending
  <2>4. peer[listener] = "none"
    BY Zenon DEF ListenInv
  <2>. QED
    BY <2>1, <2>3, <2>4, Zenon DEF OnTheWay, netVars
<1>8. CASE OnRead
  BY <1>8, OnReadOnTheWay, Zenon
<1>9. CASE OnWrite \/ OnClose
  <2>1. /\ Handling /\ UNCHANGED <<backlog, batch, cur, starved>> /\ cur.fd \in Fds
        /\ pc # "in" /\ pc' # "in"
    BY <1>9, Zenon DEF OnWrite, OnClose, Handling, SocketInv, SocketTypes
  <2>2. \A f \in Fds : Pending(f)' <=> Pending(f)
    BY <2>1, Zenon DEF Pending
  <2>3. Idle \/ \E m, msg : Restated(m) /\ Callback(m, cur.from, msg)
    BY <1>9, <2>1, StateChange, Zenon DEF OnWrite, OnClose
  <2>4. CASE UNCHANGED <<peer, woken, late>>
    BY <2>1, <2>2, <2>4, Zenon DEF OnTheWay
  <2>5. CASE conn_map[cur.fd] # None /\ Forget(cur.fd)
    <3>1. cur.fd # listener
      BY <2>5, Zenon DEF SocketInv, Linked
    <3>. QED
      BY <2>1, <2>2, <2>5, <3>1, Zenon DEF OnTheWay, Forget, NetTypes
  <2>. QED
    BY <2>1, <2>3, <2>4, <2>5, CallbackNet, Zenon DEF Idle
<1>10. CASE TimerCloses
  <2>1. PICK f \in Fds : conn_map[f] # None /\ Forget(f)
    BY <1>10, Zenon DEF TimerCloses, Close
  <2>2. f # listener
    BY <2>1, Zenon DEF SocketInv, Linked
  <2>3. UNCHANGED <<backlog, batch, cur, pc, starved>>
    BY <1>10, Zenon DEF TimerCloses
  <2>4. \A g \in Fds : Pending(g)' <=> Pending(g)
    BY <2>3, Zenon DEF Pending
  <2>. QED
    BY <2>1, <2>2, <2>3, <2>4, Zenon DEF OnTheWay, Forget, NetTypes
<1>11. CASE PeerConnects \/ UNCHANGED vars
  <2>1. UNCHANGED <<batch, cur, pc, peer, late, starved>>
    BY <1>11, Zenon DEF PeerConnects, vars, netVars
  <2>2. (listener \in woken' /\ woken \subseteq woken') \/ UNCHANGED <<backlog, woken>>
    BY <1>11, Zenon DEF PeerConnects, vars, netVars
  <2>3. \A g \in Fds : Pending(g)' <=> Pending(g)
    BY <2>1, Zenon DEF Pending
  <2>. QED
    BY <2>1, <2>2, <2>3, Zenon DEF OnTheWay
<1>12. CASE \E f \in Fds : Established(f) \/ PeerSends(f) \/ PeerGone(f) \/ PeerResets(f)
  <2>1. PICK f \in Fds : /\ f \in woken' /\ \A g \in Fds \ {f} : peer'[g] = peer[g]
                         /\ woken \subseteq woken' /\ late \subseteq late'
    BY <1>12, Zenon DEF Established, PeerSends, PeerGone, PeerResets, Becomes, NetTypes
  <2>2. UNCHANGED <<backlog, batch, cur, pc, starved>>
    BY <1>12, Zenon DEF Established, PeerSends, PeerGone, PeerResets
  <2>3. \A g \in Fds : Pending(g)' <=> Pending(g)
    BY <2>2, Zenon DEF Pending
  <2>. QED
    BY <2>1, <2>2, <2>3, Zenon DEF OnTheWay
<1>. QED
  BY <1>1, <1>2, <1>3, <1>5, <1>6, <1>7, <1>8, <1>9, <1>10, <1>11, <1>12, Zenon DEF Next, Loop

(* While the loop sleeps no connection waits for accept, unless accept had   *)
(* failed (BaseSocket.cpp _AcceptNewSocket, an edge-triggered listener), and *)
(* no peer has gone unnoticed, unless it left data behind (OnRead).          *)
THEOREM NothingForgotten == Spec => []NothingUnseen
<1>. DEFINE Inv == SocketInv /\ NetTypes /\ ListenInv /\ LateInv /\ OnTheWay
<1>1. Init => Inv
  <2>1. Init => NetTypes
    BY LoopAssumption DEF Init, NetTypes
  <2>2. Init => ListenInv
    BY LoopAssumption DEF Init, ListenInv, Listens, NoEvent
  <2>3. Init => LateInv /\ OnTheWay
    BY DEF Init, LateInv, OnTheWay
  <2>. QED
    BY <2>1, <2>2, <2>3, SocketInit, Zenon
<1>2. Inv /\ [Next]_vars => Inv'
  BY SocketStep, NetStep, ListenStep, LateStep, OnTheWayStep, Zenon
<1>3. Inv => NoForgottenBacklog /\ EndsAreSeen
  <2>1. Inv /\ pc = "wait" => \A f \in Fds : ~ Pending(f)
    BY Zenon DEF ListenInv, Pending
  <2>. QED
    BY <2>1, LoopAssumption, Zenon DEF OnTheWay, NoForgottenBacklog, EndsAreSeen, Unseen
<1>. HIDE DEF Inv
<1>. QED
  BY <1>1, <1>2, <1>3, PTL DEF Spec, NothingUnseen

(* Every variable keeps its type.                                            *)
THEOREM LoopTypeCorrect == Spec => []TypeOK
<1>. DEFINE HistoryTypes ==
       /\ starved \in BOOLEAN
       /\ reached \in [event : Sockets \cup {None}, conn : Sockets \cup {None}]
     Inv == SocketInv /\ NetTypes /\ HistoryTypes
<1>1. Init => Inv
  <2>1. Init => NetTypes
    BY LoopAssumption DEF Init, NetTypes
  <2>2. Init => HistoryTypes
    <3>1. Init => starved \in BOOLEAN
      BY Zenon DEF Init
    <3>2. Init => reached \in [event : Sockets \cup {None}, conn : Sockets \cup {None}]
      BY DEF Init
    <3>. QED
      BY <3>1, <3>2, Zenon
  <2>. QED
    BY <2>1, <2>2, SocketInit, Zenon
<1>2. Inv /\ [Next]_vars => Inv'
  <2>. SUFFICES ASSUME Inv, [Next]_vars
                PROVE  HistoryTypes'
    BY SocketStep, NetStep, Zenon
  <2>1. UNCHANGED reached \/ \E c : reached' = [event |-> cur.from, conn |-> c]
    BY Zenon DEF Next, Loop, EpollWait, NextEvent, EndOfEvents, Accept, AcceptEnds, OnRead,
           OnWrite, OnClose, Callback, Idle, EndOfEvent, TimerCloses, TimerConnects,
           EndOfTimers, PeerConnects, Established, PeerSends, PeerGone, PeerResets, vars
  <2>2. RightConnection'
    BY SocketStep, Zenon DEF SocketInv
  <2>3. reached' \in [event : Sockets \cup {None}, conn : Sockets \cup {None}]
    BY <2>1, <2>2 DEF RightConnection, SocketInv, SocketTypes
  <2>4. UNCHANGED starved \/ starved' = (backlog > 0)
    BY Zenon DEF Next, Loop, EpollWait, NextEvent, EndOfEvents, Accept, AcceptEnds, OnRead,
           OnWrite, OnClose, EndOfEvent, TimerCloses, TimerConnects,
           EndOfTimers, PeerConnects, Established, PeerSends, PeerGone, PeerResets, vars
  <2>5. starved' \in BOOLEAN
    <3>1. (backlog > 0) \in BOOLEAN
      BY DEF NetTypes
    <3>. QED
      BY <2>4, <3>1, Zenon
  <2>. QED
    BY <2>3, <2>5, Zenon
<1>3. Inv => TypeOK
  BY Zenon DEF SocketInv, SocketTypes, NetTypes, TypeOK
<1>. HIDE DEF Inv
<1>. QED
  BY <1>1, <1>2, <1>3, PTL DEF Spec

-----------------------------------------------------------------------------
(* The connections to the business servers (ServLink): the slots follow the  *)
(* reconnect schedule, for any set of slots and with or without connects     *)
(* that fail at once.                                                        *)

\* The delay a slot has after n failures in a row, 2 standing for none.
Delay(n) == IF n = 0 THEN 2 ELSE Schedule[n]

\* reconnect_cnt is a function of the failures in a row also while a slot has a
\* connection: only then does doubling it lead to the next entry of the schedule.
LinkInv ==
    /\ LinkTypeOK
    /\ \A i \in Slots : reconnect_cnt[i] = Delay(failures[i])
    /\ Backoff

\* One doubling is one step of the schedule, the return from 64 to 4 included.
LEMMA DelayStep ==
    ASSUME NEW n \in 0 .. 5
    PROVE  /\ Delay(n) \in 2 .. 64
           /\ (n % 5) + 1 \in 1 .. 5
           /\ Doubled(Delay(n)) = Delay((n % 5) + 1)
           /\ Delay((n % 5) + 1) = Schedule[(n % 5) + 1]
           /\ Delay((n % 5) + 1) \in 4 .. 64
<1>1. /\ Schedule[1] = 4 /\ Schedule[2] = 8 /\ Schedule[3] = 16
      /\ Schedule[4] = 32 /\ Schedule[5] = 64
  BY Zenon DEF Schedule
<1>2. n = 0 \/ n = 1 \/ n = 2 \/ n = 3 \/ n = 4 \/ n = 5
  OBVIOUS
<1>3. /\ 0 % 5 = 0 /\ 1 % 5 = 1 /\ 2 % 5 = 2
      /\ 3 % 5 = 3 /\ 4 % 5 = 4 /\ 5 % 5 = 0
  OBVIOUS
<1>. QED
  BY <1>1, <1>2, <1>3, SMTT(40) DEF Delay, Doubled, MAX_RECONNECT_CNT, MIN_RECONNECT_CNT

\* What closing the connections of a set of slots (serv_reset) leaves behind.
LEMMA ResetFacts ==
    ASSUME LinkInv, NEW S \in SUBSET Slots,
           \A i \in S : serv_conn[i] # NULL
    PROVE  LET s == ServReset(S) IN
           \A i \in Slots :
             /\ s.conn[i] \in ConnStates
             /\ s.idle[i] \in 0 .. 64
             /\ s.failures[i] \in 0 .. 5
             /\ s.reconnect[i] = Delay(s.failures[i])
             /\ s.reconnect[i] \in 2 .. 64
             /\ s.conn[i] = NULL =>
                  /\ s.failures[i] # 0
                  /\ s.reconnect[i] = Schedule[s.failures[i]]
                  /\ s.idle[i] < s.reconnect[i]
<1>. DEFINE s == ServReset(S)
<1>. SUFFICES ASSUME NEW i \in Slots
              PROVE  /\ s.conn[i] \in ConnStates
                     /\ s.idle[i] \in 0 .. 64
                     /\ s.failures[i] \in 0 .. 5
                     /\ s.reconnect[i] = Delay(s.failures[i])
                     /\ s.reconnect[i] \in 2 .. 64
                     /\ s.conn[i] = NULL =>
                          /\ s.failures[i] # 0
                          /\ s.reconnect[i] = Schedule[s.failures[i]]
                          /\ s.idle[i] < s.reconnect[i]
  BY Zenon
<1>1. /\ serv_conn[i] \in ConnStates
      /\ idle_cnt[i] \in 0 .. 64
      /\ failures[i] \in 0 .. 5
      /\ reconnect_cnt[i] = Delay(failures[i])
  BY Zenon DEF LinkInv, LinkTypeOK, MAX_RECONNECT_CNT
<1>2. CASE i \in S
  <2>1. /\ s.conn[i] = NULL /\ s.idle[i] = 0
        /\ s.failures[i] = (failures[i] % 5) + 1
        /\ s.reconnect[i] = Doubled(reconnect_cnt[i])
    BY <1>2, Zenon DEF ServReset
  <2>2. /\ (failures[i] % 5) + 1 \in 1 .. 5
        /\ Doubled(Delay(failures[i])) = Delay((failures[i] % 5) + 1)
        /\ Delay((failures[i] % 5) + 1) = Schedule[(failures[i] % 5) + 1]
        /\ Delay((failures[i] % 5) + 1) \in 4 .. 64
    BY <1>1, DelayStep, Zenon
  <2>3. s.reconnect[i] = Delay((failures[i] % 5) + 1)
    BY <1>1, <2>1, <2>2, Zenon
  <2>4. s.conn[i] \in ConnStates
    BY <2>1, Zenon DEF ConnStates
  <2>. HIDE DEF s
  <2>. QED
    BY <2>1, <2>2, <2>3, <2>4, SMTT(40)
<1>3. CASE i \notin S
  <2>1. /\ s.conn[i] = serv_conn[i] /\ s.idle[i] = idle_cnt[i]
        /\ s.failures[i] = failures[i] /\ s.reconnect[i] = reconnect_cnt[i]
    BY <1>3, Zenon DEF ServReset
  <2>2. Delay(failures[i]) \in 2 .. 64
    BY <1>1, DelayStep, Zenon
  <2>3. serv_conn[i] = NULL => /\ failures[i] # 0
                               /\ reconnect_cnt[i] = Schedule[failures[i]]
                               /\ idle_cnt[i] < reconnect_cnt[i]
    BY Zenon DEF LinkInv, Backoff
  <2>. HIDE DEF s
  <2>. QED
    BY <1>1, <2>1, <2>2, <2>3, Zenon
<1>. QED
  BY <1>2, <1>3, Zenon

\* What serv_init leaves: no slot is without connection object, and the delay is 2.
LEMMA LinkStart == LinkInit => LinkInv
<1>. SUFFICES ASSUME LinkInit PROVE LinkInv
  BY Zenon
<1>1. \A i \in Slots : serv_conn[i] \in {"connecting", "no socket"}
  BY Zenon DEF LinkInit, Connect
<1>2. LinkTypeOK
  <2>1. serv_conn \in [Slots -> ConnStates]
    BY <1>1, Zenon DEF LinkInit, ConnStates
  <2>2. /\ idle_cnt \in [Slots -> 0 .. 64] /\ reconnect_cnt \in [Slots -> 0 .. 64]
        /\ failures \in [Slots -> 0 .. 5] /\ up \in [Slots -> BOOLEAN]
    BY DEF LinkInit, MIN_RECONNECT_CNT
  <2>. QED
    BY <2>1, <2>2, Zenon DEF LinkTypeOK, MAX_RECONNECT_CNT
<1>3. \A i \in Slots : reconnect_cnt[i] = Delay(failures[i])
  <2>1. 4 \div 2 = 2
    OBVIOUS
  <2>2. \A i \in Slots : reconnect_cnt[i] = 2 /\ failures[i] = 0
    BY <2>1, Zenon DEF LinkInit, MIN_RECONNECT_CNT
  <2>3. Delay(0) = 2
    BY Zenon DEF Delay
  <2>. QED
    BY <2>2, <2>3, Zenon
<1>4. Backoff
  BY <1>1, Zenon DEF Backoff, NULL
<1>. QED
  BY <1>2, <1>3, <1>4, Zenon DEF LinkInv

\* Timer, confirm and close preserve the invariant, one case for each.
LEMMA LinkStep == LinkInv /\ [LinkNext]_linkVars => LinkInv'
<1>. SUFFICES ASSUME LinkInv, [LinkNext]_linkVars PROVE LinkInv'
  BY Zenon
<1>t. LinkTypeOK
  BY Zenon DEF LinkInv
<1>1. CASE UNCHANGED linkVars
  BY <1>1, Zenon DEF LinkInv, LinkTypeOK, Backoff, linkVars, slotVars
<1>2. ASSUME NEW S \in SUBSET Slots, TimerCallback(S)
      PROVE  LinkInv'
  <2>. DEFINE s == ServReset(S)
  <2>1. \A i \in S : serv_conn[i] # NULL
    BY <1>2, Zenon DEF TimerCallback, NULL
  <2>2. \A i \in Slots :
             /\ s.conn[i] \in ConnStates
             /\ s.idle[i] \in 0 .. 64
             /\ s.failures[i] \in 0 .. 5
             /\ s.reconnect[i] = Delay(s.failures[i])
             /\ s.reconnect[i] \in 2 .. 64
             /\ s.conn[i] = NULL =>
                  /\ s.failures[i] # 0
                  /\ s.reconnect[i] = Schedule[s.failures[i]]
                  /\ s.idle[i] < s.reconnect[i]
    BY <2>1, ResetFacts, Zenon
  <2>3. PICK c \in [Slots -> Connect] :
          serv_conn' = [i \in Slots |->
            IF i \in {j \in Slots : s.conn[j] = NULL /\ s.idle[j] + 1 >= s.reconnect[j]}
            THEN c[i] ELSE s.conn[i]]
    BY <1>2, Zenon DEF TimerCallback
  <2>4. /\ idle_cnt' = [i \in Slots |-> IF s.conn[i] = NULL THEN s.idle[i] + 1 ELSE s.idle[i]]
        /\ reconnect_cnt' = s.reconnect /\ failures' = s.failures /\ up' = up
    BY <1>2, Zenon DEF TimerCallback
  <2>5. /\ s.reconnect = [i \in Slots |-> s.reconnect[i]]
        /\ s.failures = [i \in Slots |-> s.failures[i]]
    BY Zenon DEF ServReset
  <2>6. \A i \in Slots : c[i] \in {"connecting", "no socket"}
    BY <2>3, Zenon DEF Connect
  <2>. HIDE DEF s
  <2>7. LinkTypeOK'
    <3>1. serv_conn' \in [Slots -> ConnStates]
      BY <2>2, <2>3, <2>6, Zenon DEF ConnStates
    <3>2. idle_cnt' \in [Slots -> 0 .. 64]
      BY <2>2, <2>4, SMTT(40)
    <3>3. reconnect_cnt' \in [Slots -> 0 .. 64] /\ failures' \in [Slots -> 0 .. 5]
      BY <2>2, <2>4, <2>5, SMTT(40)
    <3>. QED
      BY <1>t, <2>4, <3>1, <3>2, <3>3, Zenon DEF LinkTypeOK, MAX_RECONNECT_CNT
  <2>8. \A i \in Slots : reconnect_cnt'[i] = Delay(failures'[i])
    BY <2>2, <2>4, Zenon
  <2>9. Backoff'
    <3>. SUFFICES ASSUME NEW i \in Slots, serv_conn'[i] = NULL
                  PROVE  /\ failures'[i] # 0
                         /\ reconnect_cnt'[i] = Schedule[failures'[i]]
                         /\ idle_cnt'[i] < reconnect_cnt'[i]
      BY Zenon DEF Backoff
    <3>1. s.conn[i] = NULL /\ ~(s.idle[i] + 1 >= s.reconnect[i])
      BY <2>3, <2>6, Zenon DEF NULL
    <3>2. /\ failures'[i] = s.failures[i] /\ reconnect_cnt'[i] = s.reconnect[i]
          /\ idle_cnt'[i] = s.idle[i] + 1
      BY <2>4, <3>1, Zenon
    <3>3. s.idle[i] \in 0 .. 64 /\ s.reconnect[i] \in 2 .. 64
      BY <2>2, Zenon
    <3>4. s.failures[i] # 0 /\ s.reconnect[i] = Schedule[s.failures[i]]
      BY <2>2, <3>1, Zenon
    <3>5. s.idle[i] + 1 < s.reconnect[i]
      BY <3>1, <3>3, SMTT(40)
    <3>. QED
      BY <3>2, <3>4, <3>5, Zenon
  <2>. QED
    BY <2>7, <2>8, <2>9, Zenon DEF LinkInv, Delay
<1>3. ASSUME NEW i \in Slots, LinkOnConfirm(i)
      PROVE  LinkInv'
  <2>1. /\ serv_conn' = [serv_conn EXCEPT ![i] = "open"]
        /\ reconnect_cnt' = [reconnect_cnt EXCEPT ![i] = 2]
        /\ failures' = [failures EXCEPT ![i] = 0]
        /\ idle_cnt' = idle_cnt /\ up' = up
    BY <1>3 DEF LinkOnConfirm, MIN_RECONNECT_CNT
  <2>2. LinkTypeOK'
    <3>1. serv_conn' \in [Slots -> ConnStates]
      BY <1>t, <2>1, Zenon DEF LinkTypeOK, ConnStates
    <3>2. reconnect_cnt' \in [Slots -> 0 .. MAX_RECONNECT_CNT] /\ failures' \in [Slots -> 0 .. 5]
      BY <1>t, <2>1 DEF LinkTypeOK, MAX_RECONNECT_CNT
    <3>. QED
      BY <1>t, <2>1, <3>1, <3>2, Zenon DEF LinkTypeOK
  <2>3. \A j \in Slots : reconnect_cnt'[j] = Delay(failures'[j])
    BY <1>t, <2>1, Zenon DEF LinkInv, LinkTypeOK, Delay
  <2>4. Backoff'
    BY <1>t, <2>1, Zenon DEF LinkInv, LinkTypeOK, Backoff, NULL
  <2>. QED
    BY <2>2, <2>3, <2>4, Zenon DEF LinkInv, Delay
<1>4. ASSUME NEW i \in Slots, LinkOnClose(i)
      PROVE  LinkInv'
  <2>. DEFINE s == ServReset({i})
  <2>1. {i} \in SUBSET Slots /\ \A j \in {i} : serv_conn[j] # NULL
    BY <1>4, Zenon DEF LinkOnClose, NULL
  <2>2. \A j \in Slots :
             /\ s.conn[j] \in ConnStates
             /\ s.idle[j] \in 0 .. 64
             /\ s.failures[j] \in 0 .. 5
             /\ s.reconnect[j] = Delay(s.failures[j])
             /\ s.reconnect[j] \in 2 .. 64
             /\ s.conn[j] = NULL =>
                  /\ s.failures[j] # 0
                  /\ s.reconnect[j] = Schedule[s.failures[j]]
                  /\ s.idle[j] < s.reconnect[j]
    BY <2>1, ResetFacts, Zenon
  <2>3. /\ serv_conn' = s.conn /\ idle_cnt' = s.idle
        /\ reconnect_cnt' = s.reconnect /\ failures' = s.failures /\ up' = up
    BY <1>4, Zenon DEF LinkOnClose
  <2>4. /\ s.conn = [j \in Slots |-> s.conn[j]]
        /\ s.idle = [j \in Slots |-> s.idle[j]]
        /\ s.reconnect = [j \in Slots |-> s.reconnect[j]]
        /\ s.failures = [j \in Slots |-> s.failures[j]]
    BY Zenon DEF ServReset
  <2>. HIDE DEF s
  <2>5. LinkTypeOK'
    <3>1. serv_conn' \in [Slots -> ConnStates] /\ idle_cnt' \in [Slots -> 0 .. 64]
      BY <2>2, <2>3, <2>4, Zenon
    <3>2. reconnect_cnt' \in [Slots -> 0 .. 64] /\ failures' \in [Slots -> 0 .. 5]
      BY <2>2, <2>3, <2>4, SMTT(40)
    <3>. QED
      BY <1>t, <2>3, <3>1, <3>2, Zenon DEF LinkTypeOK, MAX_RECONNECT_CNT
  <2>6. \A j \in Slots : reconnect_cnt'[j] = Delay(failures'[j])
    BY <2>2, <2>3, Zenon
  <2>7. Backoff'
    BY <2>2, <2>3, Zenon DEF Backoff
  <2>. QED
    BY <2>5, <2>6, <2>7, Zenon DEF LinkInv, Delay
<1>5. ASSUME NEW i \in Slots, Change(i)
      PROVE  LinkInv'
  <2>1. LinkTypeOK'
    BY <1>t, <1>5, Zenon DEF Change, LinkTypeOK, slotVars
  <2>. QED
    BY <1>5, <2>1, Zenon DEF Change, LinkInv, Backoff, slotVars, Delay
<1>. QED
  BY <1>1, <1>2, <1>3, <1>4, <1>5, Zenon DEF LinkNext, Tick

\* The slots of ServInfo.h keep their types in every behaviour.
THEOREM LinkTypeCorrect == LinkSpec => []LinkTypeOK
<1>1. LinkInv => LinkTypeOK
  BY Zenon DEF LinkInv
<1>. QED
  BY LinkStart, LinkStep, <1>1, PTL DEF LinkSpec

\* serv_reset, serv_check_reconnect and OnConfirm together follow the schedule of
\* the comment on business_server_conn_timer_callback, for any number of slots.
THEOREM ScheduleFollowed == LinkSpec => []Backoff
<1>1. LinkInv => Backoff
  BY Zenon DEF LinkInv
<1>. QED
  BY LinkStart, LinkStep, <1>1, PTL DEF LinkSpec

=============================================================================
