----------------------------- MODULE MsgServer -----------------------------
(***************************************************************************)
(* The message server process: client connections (CMsgSrvConn), the login *)
(* handlers (ACTION_AUTH) and the users that are online (CImUser, found by *)
(* CImUserManager).  One thread runs every handler, so a handler is one    *)
(* step.  In synchronous mode a login runs to its end inside the handler   *)
(* of AuthLoginReq.  In asynchronous mode (MSG_ENABLE_BUSINESS_ASYNC = 1)  *)
(* it travels to a business server and its answer comes back tagged with   *)
(* the descriptor of the connection that asked.                            *)
(*                                                                         *)
(* Clients follow the protocol of ptp_net: they send AuthCaptchaReq and    *)
(* AuthLoginReq, with a non-empty address, and nothing that only servers   *)
(* exchange.  Requests that are refused (no captcha, a wrong one, a second *)
(* login on one connection, no business server) change no state.           *)
(***************************************************************************)
EXTENDS Naturals

CONSTANTS Handles,       \* file descriptors the kernel may give to a client
          Addresses,     \* addresses clients log in with
          Modes,         \* values MSG_ENABLE_BUSINESS_ASYNC may have
          MaxConn,       \* bound: connections accepted in a behaviour
          MaxIds,        \* bound: different ids the login service gives an address
          MaxLinkDrops   \* bound: times the link to the business server drops

ASSUME ModesAssumption == Modes \subseteq BOOLEAN
ASSUME BoundsAssumption == {MaxConn, MaxIds, MaxLinkDrops} \subseteq Nat

NoConn == 0
NoUser == 0
Conns == 1 .. MaxConn
Users == Conns   \* CImUser objects, each named after the connection whose login created it
NoAddress == "no address"
NoHandle  == "no handle"
ASSUME NamesAssumption == NoAddress \notin Addresses /\ NoHandle \notin Handles

\* User ids.  Two addresses share none but the -1 that stands for a failed INCR
\* (LoginService, GivenOnce).  One address may get different ids, in any order:
\* a GET without reply, or two first logins that overlap (IdReplacedOnlyBlindOrRaced).
ErrorId == <<NoAddress, 1>>
NoId    == <<NoAddress, 0>>   \* m_user_id before the login
Ids     == Addresses \X (1 .. MaxIds) \cup {ErrorId}
GivenIds(a) == {a} \X (1 .. MaxIds) \cup {ErrorId}

VARIABLES
    async,           \* MSG_ENABLE_BUSINESS_ASYNC, read once when the server starts
    accepted,        \* number of connections accepted
    conn,            \* the CMsgSrvConn objects; validated and login are history:
                     \* does its own login pass, what became of the answer
    g_msg_conn_map,  \* descriptor -> CMsgSrvConn
    manager,         \* CImUserManager and the CImUser objects
    given,           \* history: the ids each address was given
    link,            \* whether a connection to a business server is open
    drops,           \* times it was lost
    flight           \* login requests the business server has not answered

connVars == <<accepted, conn, g_msg_conn_map>>
vars == <<async, connVars, manager, given, link, drops, flight>>

Live(c) == c \in 1 .. accepted /\ conn[c].status = "live"

-----------------------------------------------------------------------------
(* CImUser and CImUserManager: each operator returns the manager after the *)
(* call.                                                                   *)

NewUser(a) == [live |-> TRUE, m_address |-> a, m_user_id |-> NoId,
               m_conn_map |-> [h \in Handles |-> NoConn]]

\* GetImUserByAddress, and the CImUser that AuthLoginReq adds if there is none.
\* A connection logs in once, so its number is a name for the user.
GetOrAddImUser(m, a, c) ==
    IF m.by_address[a] # NoUser THEN m
    ELSE [m EXCEPT !.user[c] = NewUser(a), !.by_address[a] = c]

AddMsgConn(m, u, h, c) == [m EXCEPT !.user[u].m_conn_map[h] = c]

AddImUserById(m, id, u) ==
    IF m.by_id[id] = NoUser THEN [m EXCEPT !.by_id[id] = u] ELSE m

\* Deletes the user but leaves the id map alone: a mutation of RemoveImUser.
RemoveImUserKeepsId(m, u) ==
    [m EXCEPT !.by_address[m.user[u].m_address] = NoUser, !.user[u].live = FALSE]

\* Erases the id the user has now, whoever the map leads to, and deletes it.
RemoveImUser(m, u) ==
    LET id == m.user[u].m_user_id
    IN  [m EXCEPT !.by_id = [i \in Ids |-> IF i = id THEN NoUser ELSE @[i]],
                  !.by_address[m.user[u].m_address] = NoUser,
                  !.user[u].live = FALSE]

DelMsgConn(m, u, h) == [m EXCEPT !.user[u].m_conn_map[h] = NoConn]

IsMsgConnEmpty(m, u) == \A h \in Handles : m.user[u].m_conn_map[h] = NoConn

-----------------------------------------------------------------------------
(* Connections. *)

NewConn(h) == [status |-> "live", m_handle |-> h, m_captcha |-> FALSE, m_prv_key |-> FALSE,
               m_address |-> NoAddress, m_user_id |-> NoId, m_bOpen |-> FALSE,
               validated |-> FALSE, login |-> "none"]

OnConnect(h) ==
    /\ accepted < MaxConn
    /\ g_msg_conn_map[h] = NoConn
    /\ accepted' = accepted + 1
    /\ conn' = [conn EXCEPT ![accepted + 1] = NewConn(h)]
    /\ g_msg_conn_map' = [g_msg_conn_map EXCEPT ![h] = accepted + 1]
    /\ UNCHANGED <<manager, given, link, drops, flight>>

\* The user is not told: a mutation of Close.
CloseIgnoresUser(c) ==
    /\ g_msg_conn_map' = [g_msg_conn_map EXCEPT ![conn[c].m_handle] = NoConn]
    /\ conn' = [conn EXCEPT ![c].status = "closed"]
    /\ UNCHANGED manager

\* Close: the descriptor is free again, and the last connection of a user
\* takes the user with it.
Close(c) ==
    LET a  == conn[c].m_address
        u  == IF a = NoAddress THEN NoUser ELSE manager.by_address[a]
        m1 == DelMsgConn(manager, u, conn[c].m_handle)
    IN  /\ g_msg_conn_map' = [g_msg_conn_map EXCEPT ![conn[c].m_handle] = NoConn]
        /\ conn' = [conn EXCEPT ![c].status = "closed"]
        /\ manager' = IF u = NoUser THEN manager
                      ELSE IF IsMsgConnEmpty(m1, u) THEN RemoveImUser(m1, u) ELSE m1

\* The client went away, or sent what is no PDU.
OnClose(c) ==
    /\ Live(c)
    /\ Close(c)
    /\ UNCHANGED <<accepted, given, link, drops, flight>>

\* A captcha to sign, and a key pair to agree on a shared key with.
AuthCaptchaReq(c) ==
    /\ Live(c)
    /\ conn' = [conn EXCEPT ![c].m_captcha = TRUE, ![c].m_prv_key = TRUE]
    /\ UNCHANGED <<accepted, g_msg_conn_map, manager, given, link, drops, flight>>

-----------------------------------------------------------------------------
(* Login. *)

\* Takes a refused login for a good one: a mutation of ServerLoginRes.
ServerLoginResUnchecked(c, a, ok, k, m) ==
    \E id \in GivenIds(a) :
        LET u == m.by_address[a]
        IN  /\ conn' = [k EXCEPT ![c].m_user_id = id, ![c].m_bOpen = TRUE]
            /\ manager' = AddImUserById([m EXCEPT !.user[u].m_user_id = id], id, u)
            /\ given' = [given EXCEPT ![a] = @ \cup {id}]

\* Does not enter the user under its id: a mutation of ServerLoginRes.
ServerLoginResNotEntered(c, a, ok, k, m) ==
    \E id \in GivenIds(a) :
        LET u == m.by_address[a]
        IN  IF ok /\ u # NoUser /\ k[c].m_prv_key
            THEN /\ conn' = [k EXCEPT ![c].m_user_id = id, ![c].m_bOpen = TRUE]
                 /\ manager' = [m EXCEPT !.user[u].m_user_id = id]
                 /\ given' = [given EXCEPT ![a] = @ \cup {id}]
            ELSE conn' = k /\ manager' = m /\ UNCHANGED given

\* ServerLoginRes: the answer of the login service for address a, taken by
\* connection c.  The error field is read before the message is parsed, so it
\* is always NO_ERROR; a refused login is noticed because its answer has no
\* address.  k and m are the connections and the manager before it.
ServerLoginRes(c, a, ok, k, m) ==
    LET u == m.by_address[a]
    IN  IF ok /\ u # NoUser /\ k[c].m_prv_key
        THEN \E id \in GivenIds(a) :
                /\ conn' = [k EXCEPT ![c].m_user_id = id, ![c].m_bOpen = TRUE]
                /\ manager' = AddImUserById([m EXCEPT !.user[u].m_user_id = id], id, u)
                /\ given' = [given EXCEPT ![a] = @ \cup {id}]
        ELSE conn' = k /\ manager' = m /\ UNCHANGED given

\* What AuthLoginReq does to its connection, and to the manager.
LoggingIn(c, a, ok, login) ==
    [conn EXCEPT ![c].m_captcha = FALSE, ![c].m_address = a,
                 ![c].validated = ok, ![c].login = login]
WithMsgConn(c, a) ==
    LET m == GetOrAddImUser(manager, a, c)
    IN  AddMsgConn(m, m.by_address[a], conn[c].m_handle, c)

\* AuthLoginReq, and in synchronous mode the handlers of ServerLoginReq and
\* ServerLoginRes that HandleNextResponse runs at once.  ok: the signature
\* verifies and a connection to Redis was had.
AuthLoginReq(c, a, ok) ==
    /\ Live(c)
    /\ async => link
    /\ conn[c].m_address = NoAddress
    /\ conn[c].m_captcha
    /\ IF async
       THEN /\ conn' = LoggingIn(c, a, ok, "sent")
            /\ manager' = WithMsgConn(c, a)
            /\ flight' = flight \cup {[conn |-> c, handle |-> conn[c].m_handle,
                                       address |-> a, ok |-> ok]}
            /\ UNCHANGED given
       ELSE /\ ServerLoginRes(c, a, ok, LoggingIn(c, a, ok, "answered"), WithMsgConn(c, a))
            /\ UNCHANGED flight
    /\ UNCHANGED <<accepted, g_msg_conn_map, link, drops>>

\* Loses an answer for which the descriptor is in use: a mutation of HandlePdu.
HandlePduLoses(r) ==
    /\ r \in flight
    /\ flight' = flight \ {r}
    /\ UNCHANGED <<connVars, manager, given, link, drops>>

\* CBusinessClientConn::HandlePdu: the answer goes to whichever connection has
\* the descriptor now, and is dropped if there is none.
HandlePdu(r) ==
    /\ r \in flight
    /\ flight' = flight \ {r}
    /\ LET c == g_msg_conn_map[r.handle]
       IN  IF c = NoConn
           THEN UNCHANGED <<conn, manager, given>>
           ELSE ServerLoginRes(c, r.address, r.ok,
                    [conn EXCEPT ![c].login = IF c = r.conn THEN "answered" ELSE @], manager)
    /\ UNCHANGED <<accepted, g_msg_conn_map, link, drops>>

\* The link to the business server drops with everything that is on its way:
\* the business server answers only on the connection a request came from.
LinkDown ==
    /\ link /\ drops < MaxLinkDrops
    /\ link' = FALSE /\ drops' = drops + 1
    /\ flight' = {}
    /\ conn' = [c \in Conns |-> IF \E r \in flight : r.conn = c
                                THEN [conn[c] EXCEPT !.login = "lost"] ELSE conn[c]]
    /\ UNCHANGED <<accepted, g_msg_conn_map, manager, given>>

LinkUp ==
    /\ async /\ ~link
    /\ link' = TRUE
    /\ UNCHANGED <<connVars, manager, given, drops, flight>>

-----------------------------------------------------------------------------
Init ==
    /\ async \in Modes
    /\ accepted = 0
    /\ conn = [c \in Conns |-> [NewConn(NoHandle) EXCEPT !.status = "new"]]
    /\ g_msg_conn_map = [h \in Handles |-> NoConn]
    /\ manager = [user |-> [u \in Users |-> [NewUser(NoAddress) EXCEPT !.live = FALSE]],
                  by_address |-> [a \in Addresses |-> NoUser],
                  by_id |-> [i \in Ids |-> NoUser]]
    /\ given = [a \in Addresses |-> {}]
    /\ link = async /\ drops = 0
    /\ flight = {}

\* CMsgSrvConn::OnTimer is no step: init_msg_conn, which would register the timer
\* that calls it, is called from nowhere.
Client(c) ==
    \/ OnClose(c)
    \/ AuthCaptchaReq(c)
    \/ \E a \in Addresses, ok \in BOOLEAN : AuthLoginReq(c, a, ok)

Next ==
    /\ \/ \E h \in Handles : OnConnect(h)
       \/ \E c \in Conns : Client(c)
       \/ \E r \in flight : HandlePdu(r)
       \/ LinkDown
       \/ LinkUp
    /\ UNCHANGED async

Spec == Init /\ [][Next]_vars

-----------------------------------------------------------------------------
\* The objects of the three classes.
CMsgSrvConn ==
    [status : {"new", "live", "closed"},
     m_handle : Handles \cup {NoHandle}, m_captcha : BOOLEAN,
     m_prv_key : BOOLEAN, m_address : Addresses \cup {NoAddress},
     m_user_id : Ids \cup {NoId}, m_bOpen : BOOLEAN,
     validated : BOOLEAN, login : {"none", "sent", "answered", "lost"}]
CImUser ==
    [live : BOOLEAN, m_address : Addresses \cup {NoAddress}, m_user_id : Ids \cup {NoId},
     m_conn_map : [Handles -> Conns \cup {NoConn}]]
CImUserManager ==
    [user : [Users -> CImUser],
     by_address : [Addresses -> Users \cup {NoUser}], by_id : [Ids -> Users \cup {NoUser}]]

TypeOK ==
    /\ async \in Modes
    /\ accepted \in 0 .. MaxConn
    /\ conn \in [Conns -> CMsgSrvConn]
    /\ g_msg_conn_map \in [Handles -> Conns \cup {NoConn}]
    /\ manager \in CImUserManager
    /\ given \in [Addresses -> SUBSET Ids]
    /\ link \in BOOLEAN /\ drops \in 0 .. MaxLinkDrops
    /\ flight \subseteq [conn : Conns, handle : Handles, address : Addresses, ok : BOOLEAN]

\* The connections of a user (CImUser::m_conn_map) are exactly the live ones
\* that logged in with its address: Close leaves no pointer to a released
\* CMsgSrvConn, though descriptors are reused and connections come and go.
UserConnsLive ==
    /\ \A u \in Users : \A h \in Handles :
          LET c == manager.user[u].m_conn_map[h]
          IN  manager.user[u].live /\ c # NoConn =>
                /\ Live(c)
                /\ conn[c].m_handle = h
                /\ conn[c].m_address = manager.user[u].m_address
    /\ \A c \in Conns : Live(c) /\ conn[c].m_address # NoAddress =>
          LET u == manager.by_address[conn[c].m_address]
          IN  u # NoUser /\ manager.user[u].m_conn_map[conn[c].m_handle] = c

Several(S) == \E x, y \in S : x # y

\* The maps of CImUserManager lead to users that exist: by address to the one
\* user of that address, which has a connection; by id too, as long as the
\* address was given one id only (RemoveImUser erases the latest id only).
UserMapsLive ==
    /\ \A a \in Addresses : LET u == manager.by_address[a] IN u # NoUser =>
          /\ manager.user[u].live /\ manager.user[u].m_address = a
          /\ ~IsMsgConnEmpty(manager, u)
    /\ \A u \in Users : manager.user[u].live =>
          manager.by_address[manager.user[u].m_address] = u
    /\ \A i \in Ids \ {ErrorId} : LET u == manager.by_id[i] IN u # NoUser =>
          \/ manager.user[u].live /\ manager.user[u].m_address = i[1]
          \/ Several(given[i[1]])

\* GetMsgConnByHandle finds every connection whose own login was validated and
\* answered under the user id it was given, whatever other connections its user
\* opened and closed, as long as that id is the only one its address was given
\* and not the -1 of a failed INCR.
OnlineFindable ==
    \A c \in Conns : LET id == conn[c].m_user_id IN
        /\ Live(c) /\ conn[c].validated /\ conn[c].login = "answered"
        /\ id[1] = conn[c].m_address /\ ~ Several(given[id[1]])
        => LET u == manager.by_id[id]
           IN  /\ u # NoUser /\ manager.user[u].live
               /\ manager.user[u].m_conn_map[conn[c].m_handle] = c

\* A connection is open only if the login service validated its own login or, in
\* asynchronous mode, that of an earlier connection on the same descriptor, whose
\* answer CBusinessClientConn::HandlePdu gave to this one.
OpenByDescriptor ==
    \A c \in Conns : Live(c) /\ conn[c].m_bOpen =>
        \/ conn[c].validated
        \/ async /\ \E d \in 1 .. c - 1 :
                       conn[d].m_handle = conn[c].m_handle /\ conn[d].validated

\* m_bOpen: "only DB validate passed will be set to true" (MsgSrvConn.h:70).
\* A connection is open only if the login service validated its own login.
OpenOnlyIfValidated ==
    \A c \in Conns : Live(c) /\ conn[c].m_bOpen => conn[c].validated

\* A login that AuthLoginReq sent to the business server and the link did not lose
\* has its answer coming, and HandlePdu will give it to the connection that asked:
\* no answer of another connection takes its place.
LoginPending ==
    \A c \in Conns : Live(c) /\ conn[c].login = "sent" =>
        \E r \in flight : /\ r.conn = c /\ r.address = conn[c].m_address
                           /\ g_msg_conn_map[r.handle] = c
=============================================================================
