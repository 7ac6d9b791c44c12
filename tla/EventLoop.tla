----------------------------- MODULE EventLoop -----------------------------
(* The event loop and the sockets below every connection: CEventDispatch     *)
(* (epoll, edge-triggered), CBaseSocket with its reference count, the map    *)
(* from descriptors to sockets, netlib, and imconn_callback, which hands     *)
(* what happens on a descriptor to the connection registered for it.         *)
(* Descriptors and sockets are used again once closed and freed.             *)
EXTENDS Naturals, FiniteSets

CONSTANTS Fds,       \* the descriptors the process may have, one for listening
          Sockets,   \* the addresses of CBaseSocket objects
          listener,  \* the descriptor of the listening socket
          None,
          MaxBacklog \* connections the kernel holds for accept

VARIABLES
  socket,        \* by address: descriptor, state and reference count, or None
  g_socket_map,  \* by descriptor: an address
  conn_map,      \* by descriptor: the socket the connection was made with
  peer,          \* by descriptor: the other end
  data,          \* descriptors with data to read
  backlog,       \* connections waiting for accept
  woken,         \* descriptors that became ready since epoll last reported them
  batch,         \* the events epoll_wait returned and the loop has not handled
  cur,           \* the event being handled
  pc,            \* where the loop is
  \* History: the last accept failed with connections waiting; descriptors
  \* whose peer hung up before its data was read; the sockets of the last
  \* callback: whose event, whose connection.
  starved, late, reached

sockVars == <<socket, g_socket_map, conn_map>>
netVars == <<peer, data, backlog, woken, late>>
vars == <<sockVars, netVars, batch, cur, pc, starved, reached>>

Events == {"IN", "OUT", "HUP"}
NoEvent == [fd |-> listener, from |-> None, events |-> {}]

CBaseSocket == [fd : Fds, ref : 1..2,
                state : {"LISTENING", "CONNECTING", "CONNECTED", "CLOSING"}]

ASSUME LoopAssumption ==
  /\ listener \in Fds /\ MaxBacklog \in Nat
  /\ None \notin Sockets /\ None \notin CBaseSocket

TypeOK ==
  /\ socket \in [Sockets -> CBaseSocket \cup {None}]
  /\ g_socket_map \in [Fds -> Sockets \cup {None}]
  /\ conn_map \in [Fds -> Sockets \cup {None}]
  /\ peer \in [Fds -> {"none", "connecting", "open", "gone", "reset"}]
  /\ data \in SUBSET Fds /\ woken \in SUBSET Fds /\ late \in SUBSET Fds
  /\ backlog \in 0..MaxBacklog
  /\ batch \in SUBSET [fd : Fds, events : SUBSET Events]
  /\ cur \in [fd : Fds, from : Sockets \cup {None}, events : SUBSET Events]
  /\ pc \in {"wait", "next", "in", "out", "hup", "release", "timer"}
  /\ starved \in BOOLEAN
  /\ reached \in [event : Sockets \cup {None}, conn : Sockets \cup {None}]

Init ==
  /\ \E s \in Sockets :
       /\ socket = [t \in Sockets |->
            IF t = s THEN [fd |-> listener, state |-> "LISTENING", ref |-> 1] ELSE None]
       /\ g_socket_map = [f \in Fds |-> IF f = listener THEN s ELSE None]
  /\ conn_map = [f \in Fds |-> None]
  /\ peer = [f \in Fds |-> "none"]
  /\ data = {} /\ woken = {} /\ late = {} /\ backlog = 0
  /\ batch = {} /\ cur = NoEvent /\ pc = "wait"
  /\ starved = FALSE
  /\ reached = [event |-> None, conn |-> None]

-----------------------------------------------------------------------------
(* Sockets.                                                                  *)

\* CRefObject::ReleaseRef, on the sockets m.
ReleaseRef(m, s) ==
  IF m[s].ref = 1 THEN [m EXCEPT ![s] = None] ELSE [m EXCEPT ![s].ref = @ - 1]

\* A new CBaseSocket on the descriptor f, in the map, with its connection.
Open(f, state) ==
  \E s \in Sockets :
    /\ socket[s] = None
    /\ socket' = [socket EXCEPT ![s] = [fd |-> f, state |-> state, ref |-> 1]]
    /\ g_socket_map' = [g_socket_map EXCEPT ![f] = s]
    /\ conn_map' = [conn_map EXCEPT ![f] = s]

\* What closesocket, and RemoveEvent before it, leave of a descriptor.
Forget(f) ==
  /\ peer' = [peer EXCEPT ![f] = "none"]
  /\ data' = data \ {f} /\ woken' = woken \ {f} /\ late' = late \ {f}

Unused == {f \in Fds : g_socket_map[f] = None}

\* Mutant: the socket stays in the map.
CloseKeepsSocket(m, f) ==
  /\ socket' = ReleaseRef(m, g_socket_map[f])
  /\ UNCHANGED g_socket_map
  /\ conn_map' = [conn_map EXCEPT ![f] = None]
  /\ Forget(f)

\* A connection's Close: netlib_close, which finds the socket by descriptor.
Close(m, f) ==
  /\ socket' = ReleaseRef(m, g_socket_map[f])
  /\ g_socket_map' = [g_socket_map EXCEPT ![f] = None]
  /\ conn_map' = [conn_map EXCEPT ![f] = None]
  /\ Forget(f)

\* imconn_callback: a connection may close itself whatever it is told, and
\* does so when it is told of the end (NETLIB_MSG_CLOSE).  Told to read, it
\* reads all there is.
Callback(m, s, msg) ==
  LET f == m[s].fd IN
  /\ reached' = [event |-> s, conn |-> conn_map[f]]
  /\ \/ conn_map[f] # None /\ Close(m, f)
     \/ /\ conn_map[f] = None \/ msg # "CLOSE"
        /\ socket' = m
        /\ data' = IF msg = "READ" THEN data \ {f} ELSE data
        /\ UNCHANGED <<g_socket_map, conn_map, peer, woken, late>>

-----------------------------------------------------------------------------
(* The loop.                                                                 *)

\* What epoll reports of a descriptor it has been woken for.
Readiness(f) ==
  (IF f \in data \/ peer[f] \in {"gone", "reset"} \/ (f = listener /\ backlog > 0)
     THEN {"IN"} ELSE {})
  \cup (IF peer[f] \in {"open", "gone", "reset"} THEN {"OUT"} ELSE {})
  \cup (IF peer[f] = "reset" THEN {"HUP"} ELSE {})

EpollWait ==
  /\ pc = "wait"
  /\ batch' = {[fd |-> f, events |-> Readiness(f)] :
                f \in {g \in woken : Readiness(g) # {}}}
  /\ woken' = {}
  /\ pc' = "next"
  /\ UNCHANGED <<sockVars, peer, data, backlog, late, cur, starved, reached>>

\* Mutant: no reference is taken.
NextEventNoRef ==
  /\ pc = "next"
  /\ \E e \in batch :
       /\ batch' = batch \ {e}
       /\ LET s == g_socket_map[e.fd] IN
          \/ s = None /\ UNCHANGED <<socket, cur, pc>>
          \/ /\ s # None
             /\ socket' = [socket EXCEPT ![s].ref = @]
             /\ cur' = [fd |-> e.fd, from |-> s, events |-> e.events]
             /\ pc' = "in"
  /\ UNCHANGED <<g_socket_map, conn_map, netVars, starved, reached>>

\* FindBaseSocket takes a reference.
NextEvent ==
  /\ pc = "next"
  /\ \E e \in batch :
       /\ batch' = batch \ {e}
       /\ LET s == g_socket_map[e.fd] IN
          \/ s = None /\ UNCHANGED <<socket, cur, pc>>
          \/ /\ s # None
             /\ socket' = [socket EXCEPT ![s].ref = @ + 1]
             /\ cur' = [fd |-> e.fd, from |-> s, events |-> e.events]
             /\ pc' = "in"
  /\ UNCHANGED <<g_socket_map, conn_map, netVars, starved, reached>>

EndOfEvents ==
  /\ pc = "next" /\ batch = {}
  /\ pc' = "timer"
  /\ UNCHANGED <<sockVars, netVars, batch, cur, starved, reached>>

Listening == socket[cur.from].state = "LISTENING"

Accept ==
  /\ pc = "in" /\ "IN" \in cur.events /\ Listening
  /\ backlog > 0 /\ backlog' = backlog - 1
  /\ \E f \in Unused :
       /\ Open(f, "CONNECTED")
       /\ peer' = [peer EXCEPT ![f] = "open"]
       /\ woken' = woken \cup {f}
  /\ UNCHANGED <<data, late, batch, cur, pc, starved, reached>>

\* accept fails: nobody waits, or there is no descriptor, or a passing error.
AcceptEnds ==
  /\ pc = "in" /\ "IN" \in cur.events /\ Listening
  /\ starved' = (backlog > 0)
  /\ pc' = "out"
  /\ UNCHANGED <<sockVars, netVars, batch, cur, reached>>

Idle == UNCHANGED <<sockVars, peer, data, woken, late, reached>>

\* Mutant: reads without asking for the amount.
OnReadBlindly ==
  /\ pc = "in"
  /\ \/ /\ "IN" \in cur.events /\ ~Listening
        /\ Callback(socket, cur.from, "READ")
     \/ "IN" \notin cur.events /\ Idle
  /\ pc' = "out"
  /\ UNCHANGED <<backlog, batch, cur, starved>>

\* FIONREAD finds data, or the end.
OnRead ==
  /\ pc = "in"
  /\ \/ /\ "IN" \in cur.events /\ ~Listening
        /\ Callback(socket, cur.from, IF cur.fd \in data THEN "READ" ELSE "CLOSE")
     \/ "IN" \notin cur.events /\ Idle
  /\ pc' = "out"
  /\ UNCHANGED <<backlog, batch, cur, starved>>

\* On a descriptor closed meanwhile, getsockopt leaves the error 0.
OnWrite ==
  /\ pc = "out"
  /\ \/ /\ "OUT" \in cur.events
        /\ LET state == socket[cur.from].state IN
           \/ /\ state = "CONNECTING" /\ peer[cur.fd] = "reset"
              /\ Callback(socket, cur.from, "CLOSE")
           \/ /\ state = "CONNECTING" /\ peer[cur.fd] # "reset"
              /\ Callback([socket EXCEPT ![cur.from].state = "CONNECTED"], cur.from,
                          "CONFIRM")
           \/ state # "CONNECTING" /\ Callback(socket, cur.from, "WRITE")
     \/ "OUT" \notin cur.events /\ Idle
  /\ pc' = "hup"
  /\ UNCHANGED <<backlog, batch, cur, starved>>

OnClose ==
  /\ pc = "hup"
  /\ \/ /\ "HUP" \in cur.events
        /\ Callback([socket EXCEPT ![cur.from].state = "CLOSING"], cur.from, "CLOSE")
     \/ "HUP" \notin cur.events /\ Idle
  /\ pc' = "release"
  /\ UNCHANGED <<backlog, batch, cur, starved>>

EndOfEvent ==
  /\ pc = "release"
  /\ socket' = ReleaseRef(socket, cur.from)
  /\ cur' = NoEvent /\ pc' = "next"
  /\ UNCHANGED <<g_socket_map, conn_map, netVars, batch, starved, reached>>

\* The callbacks of _CheckTimer and _CheckLoop close connections and connect.
TimerCloses ==
  /\ pc = "timer"
  /\ \E f \in Fds : conn_map[f] # None /\ Close(socket, f)
  /\ UNCHANGED <<backlog, batch, cur, pc, starved, reached>>

\* Mutant: a connection told of its end connects again at once.
ReconnectInCallback ==
  /\ pc \in {"out", "hup"} /\ conn_map[cur.fd] = None
  /\ \E f \in Unused :
       Open(f, "CONNECTING") /\ peer' = [peer EXCEPT ![f] = "connecting"]
  /\ UNCHANGED <<data, backlog, woken, late, batch, cur, pc, starved, reached>>

TimerConnects ==
  /\ pc = "timer"
  /\ \E f \in Unused :
       Open(f, "CONNECTING") /\ peer' = [peer EXCEPT ![f] = "connecting"]
  /\ UNCHANGED <<data, backlog, woken, late, batch, cur, pc, starved, reached>>

EndOfTimers ==
  /\ pc = "timer"
  /\ pc' = "wait"
  /\ UNCHANGED <<sockVars, netVars, batch, cur, starved, reached>>

-----------------------------------------------------------------------------
(* The kernel and the peers.                                                 *)

PeerConnects ==
  /\ backlog < MaxBacklog
  /\ backlog' = backlog + 1
  /\ woken' = woken \cup {listener}
  /\ UNCHANGED <<sockVars, peer, data, late, batch, cur, pc, starved, reached>>

Becomes(f, p) == peer' = [peer EXCEPT ![f] = p] /\ woken' = woken \cup {f}

Established(f) ==
  /\ peer[f] = "connecting" /\ Becomes(f, "open")
  /\ UNCHANGED <<sockVars, data, backlog, late, batch, cur, pc, starved, reached>>

PeerSends(f) ==
  /\ peer[f] = "open" /\ f \notin data
  /\ data' = data \cup {f} /\ woken' = woken \cup {f}
  /\ UNCHANGED <<sockVars, peer, backlog, late, batch, cur, pc, starved, reached>>

\* The peer hangs up, maybe with data still to be read here, ...
PeerGone(f) ==
  /\ peer[f] = "open" /\ Becomes(f, "gone")
  /\ late' = IF f \in data THEN late \cup {f} ELSE late
  /\ UNCHANGED <<sockVars, data, backlog, batch, cur, pc, starved, reached>>

\* ... or resets or refuses the connection, and the data is lost.
PeerResets(f) ==
  /\ peer[f] \in {"connecting", "open", "gone"} /\ Becomes(f, "reset")
  /\ data' = data \ {f}
  /\ UNCHANGED <<sockVars, backlog, late, batch, cur, pc, starved, reached>>

Loop ==
  \/ EpollWait \/ NextEvent \/ EndOfEvents
  \/ Accept \/ AcceptEnds \/ OnRead \/ OnWrite \/ OnClose \/ EndOfEvent
  \/ TimerCloses \/ TimerConnects \/ EndOfTimers

Next ==
  \/ Loop
  \/ PeerConnects
  \/ \E f \in Fds : Established(f) \/ PeerSends(f) \/ PeerGone(f) \/ PeerResets(f)

Spec == Init /\ [][Next]_vars

-----------------------------------------------------------------------------
(* The loop and the map only hold sockets that are not freed, and a socket   *)
(* is held as often as its count says: none is freed in use, none is kept    *)
(* after its connection closed.                                              *)
Holders(s) ==
  (IF \E f \in Fds : g_socket_map[f] = s THEN 1 ELSE 0)
  + (IF cur.from = s THEN 1 ELSE 0)
CountsRight ==
  \A s \in Sockets : Holders(s) = IF socket[s] = None THEN 0 ELSE socket[s].ref

(* A descriptor leads to the socket that owns it and to the connection made  *)
(* with that socket, also when its number has been used before.              *)
MapsAgree ==
  \A f \in Fds \ {listener} :
    /\ g_socket_map[f] = conn_map[f]
    /\ g_socket_map[f] # None => socket[g_socket_map[f]].fd = f

(* What happens on a socket is told to the connection made with it, or to    *)
(* none: events of one batch never reach the next owner of a descriptor.     *)
RightConnection == reached.conn \in {None, reached.event}

(* With edge-triggered events no connection is left in the backlog while     *)
(* the loop sleeps, unless accept failed with connections waiting.           *)
NoForgottenBacklog ==
  (pc = "wait" /\ backlog > 0 /\ listener \notin woken) => starved

Unseen(f) == pc = "wait" /\ f \notin woken /\ peer[f] \in {"gone", "reset"}

(* Nor does the loop sleep on a connection whose peer has gone: the end has  *)
(* been told, and the descriptor is free, unless it came while data was      *)
(* still unread (the data is read, the end is not looked at).                *)
EndsAreSeen == \A f \in Fds : Unseen(f) => f \in late

(* The loop sleeps on nothing it could have seen.                            *)
NothingUnseen == NoForgottenBacklog /\ EndsAreSeen

(* StartDispatch handles EPOLLRDHUP ("On Peer Close"): whenever a peer       *)
(* closes, the connection is closed.                                         *)
PeerCloseHandled == \A f \in Fds : ~Unseen(f)
=============================================================================
