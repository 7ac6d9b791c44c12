-------------------------- MODULE MsgServerProofs --------------------------
(***************************************************************************)
(* Proofs about MsgServer, for any number of connections, descriptors,     *)
(* addresses and ids, in both modes.                                       *)
(*                                                                         *)
(* First what the operations of CImUserManager return, then the parts of   *)
(* the inductive invariant Inv: which users a connection has and the other *)
(* way round, which ids find a user, which connections are open, and what  *)
(* is under way to the business server.  Then one lemma per step of Next.  *)
(***************************************************************************)
EXTENDS MsgServer, TLAPS

-----------------------------------------------------------------------------
(* What the operations of CImUserManager return.                             *)

(* The ids that an address is given, and whose they are.                     *)
LEMMA IdFacts ==
    /\ ErrorId[1] = NoAddress /\ NoId[1] = NoAddress /\ NoId \notin Ids
    /\ \A i \in Ids : i = ErrorId \/ i[1] \in Addresses
    /\ \A a \in Addresses : \A i \in GivenIds(a) : i \in Ids /\ (i = ErrorId \/ i[1] = a)
  BY NamesAssumption DEF ErrorId, NoId, Ids, GivenIds

(* Numbers of connections and users are not the 0 that stands for none.      *)
LEMMA NumberFacts ==
    /\ NoConn \notin Conns /\ NoUser \notin Users /\ MaxConn \in Nat
    /\ \A c \in Conns : c \in Nat /\ c >= 1
    /\ \A u \in Users : u \in Nat /\ u >= 1
  BY BoundsAssumption DEF NoConn, NoUser, Conns, Users

(* The changes the handlers make to a connection.                            *)
LEMMA ConnEdits ==
    ASSUME NEW r \in CMsgSrvConn, NEW a \in Addresses, NEW id \in Ids,
           NEW b \in BOOLEAN, NEW ok \in BOOLEAN,
           NEW login \in {"none", "sent", "answered", "lost"}
    PROVE  /\ [r EXCEPT !.m_user_id = id, !.m_bOpen = b] \in CMsgSrvConn
           /\ [r EXCEPT !.m_captcha = b, !.m_address = a, !.validated = ok,
                        !.login = login] \in CMsgSrvConn
           /\ [r EXCEPT !.login = login] \in CMsgSrvConn
           /\ [r EXCEPT !.status = "closed"] \in CMsgSrvConn
<1>1. [r EXCEPT !.m_user_id = id, !.m_bOpen = b] \in CMsgSrvConn
  BY Zenon DEF CMsgSrvConn
<1>2. [r EXCEPT !.m_captcha = b, !.m_address = a, !.validated = ok,
                !.login = login] \in CMsgSrvConn
  BY Zenon DEF CMsgSrvConn
<1>3. [r EXCEPT !.login = login] \in CMsgSrvConn
  BY Zenon DEF CMsgSrvConn
<1>4. [r EXCEPT !.status = "closed"] \in CMsgSrvConn
  BY Zenon DEF CMsgSrvConn
<1>. QED
  BY <1>1, <1>2, <1>3, <1>4, Zenon

(* What AuthCaptchaReq changes.                                              *)
LEMMA CaptchaEdit ==
    ASSUME NEW r \in CMsgSrvConn, NEW b \in BOOLEAN
    PROVE  [r EXCEPT !.m_captcha = b, !.m_prv_key = b] \in CMsgSrvConn
  BY Zenon DEF CMsgSrvConn

(* A change of one user.                                                     *)
LEMMA UserEdit ==
    ASSUME NEW m \in CImUserManager, NEW u \in Users, NEW r \in CImUser
    PROVE  LET d == [m EXCEPT !.user = [@ EXCEPT ![u] = r]] IN
           /\ d \in CImUserManager
           /\ d.by_address = m.by_address /\ d.by_id = m.by_id
           /\ d.user = [m.user EXCEPT ![u] = r]
  BY Zenon DEF CImUserManager

(* DelMsgConn and AddMsgConn change one entry of the user's map.             *)
LEMMA MsgConnEdit ==
    ASSUME NEW m \in CImUserManager, NEW u \in Users, NEW h \in Handles,
           NEW c \in Conns \cup {NoConn}
    PROVE  LET d == AddMsgConn(m, u, h, c) IN
           /\ d \in CImUserManager
           /\ d.by_address = m.by_address /\ d.by_id = m.by_id
           /\ \A v \in Users :
                /\ d.user[v].live = m.user[v].live
                /\ d.user[v].m_address = m.user[v].m_address
                /\ d.user[v].m_user_id = m.user[v].m_user_id
           /\ \A v \in Users : \A g \in Handles :
                d.user[v].m_conn_map[g] = IF v = u /\ g = h THEN c
                                          ELSE m.user[v].m_conn_map[g]
<1>. DEFINE r == [m.user[u] EXCEPT !.m_conn_map = [@ EXCEPT ![h] = c]]
<1>1. m.user \in [Users -> CImUser] /\ m.user[u] \in CImUser
  BY Zenon DEF CImUserManager
<1>2. /\ r \in CImUser /\ r.live = m.user[u].live /\ r.m_address = m.user[u].m_address
      /\ r.m_user_id = m.user[u].m_user_id
      /\ \A g \in Handles : r.m_conn_map[g] = IF g = h THEN c ELSE m.user[u].m_conn_map[g]
  BY <1>1, Zenon DEF CImUser
<1>3. AddMsgConn(m, u, h, c) = [m EXCEPT !.user = [@ EXCEPT ![u] = r]]
  BY Zenon DEF AddMsgConn
<1>. HIDE DEF r
<1>4. /\ AddMsgConn(m, u, h, c) \in CImUserManager
      /\ AddMsgConn(m, u, h, c).user = [m.user EXCEPT ![u] = r]
      /\ AddMsgConn(m, u, h, c).by_address = m.by_address
      /\ AddMsgConn(m, u, h, c).by_id = m.by_id
  BY <1>2, <1>3, UserEdit
<1>. QED
  BY <1>1, <1>2, <1>4, Zenon

(* The login's id is kept at the user.                                       *)
LEMMA UserIdEdit ==
    ASSUME NEW m \in CImUserManager, NEW u \in Users, NEW id \in Ids
    PROVE  LET d == [m EXCEPT !.user[u].m_user_id = id] IN
           /\ d \in CImUserManager
           /\ d.by_address = m.by_address /\ d.by_id = m.by_id
           /\ \A v \in Users :
                /\ d.user[v].live = m.user[v].live
                /\ d.user[v].m_address = m.user[v].m_address
                /\ d.user[v].m_conn_map = m.user[v].m_conn_map
                /\ d.user[v].m_user_id = IF v = u THEN id ELSE m.user[v].m_user_id
<1>. DEFINE r == [m.user[u] EXCEPT !.m_user_id = id]
<1>1. m.user \in [Users -> CImUser] /\ m.user[u] \in CImUser
  BY Zenon DEF CImUserManager
<1>2. /\ r \in CImUser /\ r.live = m.user[u].live /\ r.m_address = m.user[u].m_address
      /\ r.m_conn_map = m.user[u].m_conn_map /\ r.m_user_id = id
  BY <1>1, Zenon DEF CImUser
<1>3. [m EXCEPT !.user[u].m_user_id = id] = [m EXCEPT !.user = [@ EXCEPT ![u] = r]]
  BY Zenon
<1>. HIDE DEF r
<1>. QED
  BY <1>1, <1>2, <1>3, UserEdit

(* AddImUserById enters a user under an id that has none.                    *)
LEMMA ByIdEdit ==
    ASSUME NEW m \in CImUserManager, NEW u \in Users, NEW id \in Ids
    PROVE  LET d == AddImUserById(m, id, u) IN
           /\ d \in CImUserManager
           /\ d.by_address = m.by_address /\ d.user = m.user
           /\ \A i \in Ids : d.by_id[i] = IF i = id /\ m.by_id[i] = NoUser THEN u
                                          ELSE m.by_id[i]
  BY Zenon DEF AddImUserById, CImUserManager

(* RemoveImUser forgets the user's address and its present id.               *)
LEMMA RemoveFacts ==
    ASSUME NEW m \in CImUserManager, NEW u \in Users, m.user[u].m_address \in Addresses
    PROVE  LET d == RemoveImUser(m, u) IN
           /\ d \in CImUserManager
           /\ \A a \in Addresses : d.by_address[a] =
                IF a = m.user[u].m_address THEN NoUser ELSE m.by_address[a]
           /\ \A i \in Ids : d.by_id[i] =
                IF i = m.user[u].m_user_id THEN NoUser ELSE m.by_id[i]
           /\ \A v \in Users \ {u} : d.user[v] = m.user[v]
           /\ d.user[u].live = FALSE
<1>. DEFINE r == [m.user[u] EXCEPT !.live = FALSE]
            ids == [i \in Ids |-> IF i = m.user[u].m_user_id THEN NoUser ELSE m.by_id[i]]
<1>1. m.user \in [Users -> CImUser] /\ m.user[u] \in CImUser
  BY Zenon DEF CImUserManager
<1>2. r \in CImUser /\ r.live = FALSE
  BY <1>1, Zenon DEF CImUser
<1>3. ids \in [Ids -> Users \cup {NoUser}]
  BY Zenon DEF CImUserManager
<1>4. RemoveImUser(m, u) =
        [m EXCEPT !.by_id = ids,
                  !.by_address = [@ EXCEPT ![m.user[u].m_address] = NoUser],
                  !.user = [@ EXCEPT ![u] = r]]
  BY Zenon DEF RemoveImUser
<1>5. \A i \in Ids : ids[i] = IF i = m.user[u].m_user_id THEN NoUser ELSE m.by_id[i]
  BY Zenon
<1>. DEFINE adr == [m.by_address EXCEPT ![m.user[u].m_address] = NoUser]
            usr == [m.user EXCEPT ![u] = r]
            d == RemoveImUser(m, u)
<1>6. /\ adr \in [Addresses -> Users \cup {NoUser}]
      /\ \A a \in Addresses : adr[a] =
           IF a = m.user[u].m_address THEN NoUser ELSE m.by_address[a]
  BY Zenon DEF CImUserManager
<1>. HIDE DEF r
<1>7. /\ usr \in [Users -> CImUser] /\ usr[u] = r
      /\ \A v \in Users \ {u} : usr[v] = m.user[v]
  BY <1>1, <1>2, Zenon
<1>8. d = [m EXCEPT !.by_id = ids, !.by_address = adr, !.user = usr]
  BY <1>4, Zenon
<1>. HIDE DEF ids, adr, usr, d
<1>9. /\ d \in CImUserManager
      /\ d.by_id = ids /\ d.by_address = adr /\ d.user = usr
  BY <1>3, <1>6, <1>7, <1>8, Zenon DEF CImUserManager
<1>. QED
  BY <1>2, <1>5, <1>6, <1>7, <1>9, Zenon DEF d

(* GetOrAddImUser makes a user for an address that has none.                 *)
LEMMA GetOrAddFacts ==
    ASSUME NEW m \in CImUserManager, NEW a \in Addresses, NEW c \in Conns,
           m.by_address[a] = NoUser
    PROVE  LET d == GetOrAddImUser(m, a, c) IN
           /\ d \in CImUserManager /\ d.by_id = m.by_id
           /\ d.by_address = [m.by_address EXCEPT ![a] = c]
           /\ d.user = [m.user EXCEPT ![c] = NewUser(a)]
<1>1. NewUser(a) \in CImUser
  BY Zenon DEF NewUser, CImUser
<1>. DEFINE adr == [m.by_address EXCEPT ![a] = c]
            usr == [m.user EXCEPT ![c] = NewUser(a)]
            d == GetOrAddImUser(m, a, c)
<1>2. adr \in [Addresses -> Users \cup {NoUser}] /\ usr \in [Users -> CImUser]
  BY <1>1, Zenon DEF CImUserManager, Users
<1>3. d = [m EXCEPT !.user = usr, !.by_address = adr]
  BY Zenon DEF GetOrAddImUser
<1>. HIDE DEF adr, usr, d
<1>4. d \in CImUserManager /\ d.by_id = m.by_id /\ d.by_address = adr /\ d.user = usr
  BY <1>2, <1>3, Zenon DEF CImUserManager
<1>. QED
  BY <1>4, Zenon DEF d, adr, usr

-----------------------------------------------------------------------------
(* The invariant, of the connections k, the manager m and the ids given gv.  *)
(* A synchronous login goes through k and m that are never a state: what     *)
(* AuthLoginReq hands to ServerLoginRes.                                     *)

\* Flags and numbers of the connections.
ConnOK(k, c) ==
      /\ k[c].status = "new" <=> c > accepted
      /\ k[c].status # "new" => k[c].m_handle \in Handles
      /\ k[c].status = "new" => k[c].m_address = NoAddress
      /\ k[c].m_captcha \/ k[c].m_address # NoAddress => k[c].m_prv_key
      /\ k[c].validated \/ k[c].login # "none" => k[c].m_address # NoAddress
ConnInv(k) == \A c \in Conns : ConnOK(k, c)

\* Descriptors lead to the live connections, the last that had them.
HandleInv(k) ==
    /\ \A h \in Handles : g_msg_conn_map[h] # NoConn =>
          k[g_msg_conn_map[h]].status = "live" /\ k[g_msg_conn_map[h]].m_handle = h
    /\ \A c \in Conns : k[c].status = "live" => g_msg_conn_map[k[c].m_handle] = c
    /\ \A c, d \in Conns :
          k[c].status = "live" /\ k[d].status # "new" /\ k[c].m_handle = k[d].m_handle
          => d <= c

\* Users have the live connections of their address, ...
Owned(k, c, h, a) == k[c].status = "live" /\ k[c].m_handle = h /\ k[c].m_address = a
ConnsOfUsers(k, m) ==
    \A u \in Users : \A h \in Handles :
      m.user[u].live /\ m.user[u].m_conn_map[h] # NoConn =>
        Owned(k, m.user[u].m_conn_map[h], h, m.user[u].m_address)
\* ... all of them, ...
Keeps(m, u, h, c) == u # NoUser /\ m.user[u].m_conn_map[h] = c
UsersOfConns(k, m) ==
    \A c \in Conns : k[c].status = "live" /\ k[c].m_address # NoAddress =>
      Keeps(m, m.by_address[k[c].m_address], k[c].m_handle, c)
\* ... at least one, ...
Serves(m, u, a) ==
    /\ m.user[u].live /\ m.user[u].m_address = a
    /\ \E h \in Handles : m.user[u].m_conn_map[h] # NoConn
UsersOfAddresses(m) ==
    \A a \in Addresses : m.by_address[a] # NoUser => Serves(m, m.by_address[a], a)
\* ... and are found by it.
AddressesOfUsers(m) ==
    \A u \in Users : m.user[u].live =>
      m.user[u].m_address \in Addresses /\ m.by_address[m.user[u].m_address] = u
\* The connection a user is named after has logged in.
Makers(k, m) == \A u \in Users : m.user[u].live => k[u].m_address # NoAddress
UserInv(k, m) ==
    /\ ConnsOfUsers(k, m) /\ UsersOfConns(k, m)
    /\ UsersOfAddresses(m) /\ AddressesOfUsers(m) /\ Makers(k, m)

\* An id leads to the user that has it, as long as the address has no other.
Bears(m, u, i) == m.user[u].live /\ m.user[u].m_address = i[1] /\ m.user[u].m_user_id = i
IdInv(m, gv) ==
    /\ \A a \in Addresses : gv[a] \subseteq GivenIds(a)
    /\ \A u \in Users : m.user[u].live =>
          m.user[u].m_user_id = NoId \/ m.user[u].m_user_id \in gv[m.user[u].m_address]
    /\ \A i \in Ids \ {ErrorId} : m.by_id[i] # NoUser =>
          i \in gv[i[1]] /\ (Several(gv[i[1]]) \/ Bears(m, m.by_id[i], i))

\* The id of an answered login leads to the user of its address.
Finds(k, m, gv, c) ==
    /\ k[c].status = "live" /\ k[c].validated /\ k[c].login = "answered"
    /\ k[c].m_user_id[1] = k[c].m_address
    => \/ Several(gv[k[c].m_address])
       \/ m.by_id[k[c].m_user_id] = m.by_address[k[c].m_address]

OpenInv(k) ==
    \A c \in Conns : k[c].m_bOpen =>
        \/ k[c].validated
        \/ async /\ \E d \in 1 .. c - 1 :
                       k[d].m_handle = k[c].m_handle /\ k[d].validated

\* The logins under way are those of connections that asked, and wait for them.
FlightInv(k, fl) ==
    /\ fl \subseteq [conn : Conns, handle : Handles, address : Addresses, ok : BOOLEAN]
    /\ fl # {} => async
    /\ \A r \in fl : /\ k[r.conn].status # "new" /\ k[r.conn].m_handle = r.handle
                     /\ k[r.conn].m_address = r.address /\ k[r.conn].validated = r.ok
    /\ \A c \in Conns : k[c].status = "live" /\ k[c].login = "sent" =>
          \E r \in fl : r.conn = c

Types(k, m, gv) ==
    /\ k \in [Conns -> CMsgSrvConn] /\ m \in CImUserManager
    /\ gv \in [Addresses -> SUBSET Ids]
Plain ==
    /\ async \in Modes /\ accepted \in 0 .. MaxConn
    /\ g_msg_conn_map \in [Handles -> Conns \cup {NoConn}]
    /\ link \in BOOLEAN /\ drops \in 0 .. MaxLinkDrops

-----------------------------------------------------------------------------
(* ServerLoginRes.                                                           *)

ResConn(k, c, id) == [k EXCEPT ![c].m_user_id = id, ![c].m_bOpen = TRUE]
ResManager(m, a, id) ==
    LET u == m.by_address[a]
    IN  AddImUserById([m EXCEPT !.user[u].m_user_id = id], id, u)
ResGiven(gv, a, id) == [gv EXCEPT ![a] = @ \cup {id}]

(* It enters the id, and leaves the other facts about users alone.           *)
LEMMA LoginResIds ==
    ASSUME NEW k, NEW m, NEW gv, Types(k, m, gv), ConnInv(k), UserInv(k, m), IdInv(m, gv),
           NEW a \in Addresses, m.by_address[a] # NoUser, NEW id \in GivenIds(a)
    PROVE  LET u == m.by_address[a]
               m2 == ResManager(m, a, id)
               gv2 == ResGiven(gv, a, id) IN
           /\ m2 \in CImUserManager /\ gv2 \in [Addresses -> SUBSET Ids]
           /\ m2.by_address = m.by_address
           /\ \A v \in Users : /\ m2.user[v].live = m.user[v].live
                               /\ m2.user[v].m_address = m.user[v].m_address
                               /\ m2.user[v].m_conn_map = m.user[v].m_conn_map
           /\ IdInv(m2, gv2)
           /\ \A i \in Ids : m.by_id[i] # NoUser => m2.by_id[i] = m.by_id[i]
           /\ \A b \in Addresses : Several(gv[b]) => Several(gv2[b])
           /\ id # ErrorId => m2.by_id[id] = u \/ Several(gv2[a])
<1>. DEFINE u == m.by_address[a]
            m1 == [m EXCEPT !.user[u].m_user_id = id]
            m2 == ResManager(m, a, id)
            gv2 == ResGiven(gv, a, id)
<1>0. m2 = AddImUserById(m1, id, u)
  BY Zenon DEF ResManager
<1>1. u \in Users /\ id \in Ids /\ (id = ErrorId \/ id[1] = a)
  BY IdFacts, Zenon DEF Types, CImUserManager
<1>2. m.user[u].live /\ m.user[u].m_address = a
  BY Zenon DEF UserInv, UsersOfAddresses, Serves
<1>3. /\ m1 \in CImUserManager /\ m1.by_address = m.by_address
      /\ m1.by_id = m.by_id
      /\ \A v \in Users :
            /\ m1.user[v].live = m.user[v].live
            /\ m1.user[v].m_address = m.user[v].m_address
            /\ m1.user[v].m_conn_map = m.user[v].m_conn_map
            /\ m1.user[v].m_user_id = IF v = u THEN id ELSE m.user[v].m_user_id
  <2>. HIDE DEF u
  <2>. QED
    BY <1>1, UserIdEdit DEF Types
<1>. HIDE DEF m1, m2, u
<1>4. /\ m2 \in CImUserManager /\ m2.by_address = m1.by_address
      /\ m2.user = m1.user
      /\ \A i \in Ids : m2.by_id[i] = IF i = id /\ m1.by_id[i] = NoUser THEN u
                                      ELSE m1.by_id[i]
  BY <1>0, <1>1, <1>3, ByIdEdit, Zenon
<1>5. /\ gv2 \in [Addresses -> SUBSET Ids] /\ gv2[a] = gv[a] \cup {id}
      /\ \A b \in Addresses \ {a} : gv2[b] = gv[b]
  BY <1>1, Zenon DEF Types, ResGiven
<1>. HIDE DEF gv2
<1>6. \A b \in Addresses : Several(gv[b]) => Several(gv2[b])
  BY <1>5, Zenon DEF Several
<1>7. IdInv(m2, gv2)
  <2>1. \A b \in Addresses : gv2[b] \subseteq GivenIds(b)
    BY <1>5, Zenon DEF IdInv
  <2>2. \A v \in Users : m2.user[v].live =>
          m2.user[v].m_user_id = NoId \/ m2.user[v].m_user_id \in gv2[m2.user[v].m_address]
    <3>1. ASSUME NEW v \in Users, m2.user[v].live, v # u
          PROVE  \/ m2.user[v].m_user_id = NoId
                 \/ m2.user[v].m_user_id \in gv2[m2.user[v].m_address]
      <4>1. /\ m.user[v].live /\ m.user[v].m_address \in Addresses
            /\ m2.user[v].m_user_id = m.user[v].m_user_id
            /\ m2.user[v].m_address = m.user[v].m_address
        BY <1>3, <1>4, <3>1, ZenonT(90) DEF UserInv, AddressesOfUsers
      <4>2. gv[m.user[v].m_address] \subseteq gv2[m.user[v].m_address]
        BY <1>5, <4>1, Zenon
      <4>. QED
        BY <4>1, <4>2, Zenon DEF IdInv
    <3>2. m2.user[u].m_user_id \in gv2[m2.user[u].m_address]
      BY <1>1, <1>2, <1>3, <1>4, <1>5, ZenonT(90)
    <3>. QED
      BY <3>1, <3>2, Zenon
  <2>3. ASSUME NEW i \in Ids \ {ErrorId}, m2.by_id[i] # NoUser
        PROVE  i \in gv2[i[1]] /\ (Several(gv2[i[1]]) \/ Bears(m2, m2.by_id[i], i))
    <3>0. i[1] \in Addresses
      BY IdFacts, Zenon
    <3>1. CASE m.by_id[i] = NoUser
      <4>1. i = id /\ m2.by_id[i] = u /\ i[1] = a
        BY <1>1, <1>3, <1>4, <2>3, <3>1, Zenon
      <4>2. Bears(m2, u, id)
        BY <1>1, <1>2, <1>3, <1>4, <4>1 DEF Bears
      <4>3. id \in gv2[a]
        BY <1>5, Zenon
      <4>. QED
        BY <4>1, <4>2, <4>3, Zenon
    <3>2. CASE m.by_id[i] # NoUser
      <4>1. PICK v \in Users : v = m2.by_id[i] /\ v = m.by_id[i]
        BY <1>3, <1>4, <3>2, ZenonT(40) DEF Types, CImUserManager
      <4>2. i \in gv[i[1]] /\ (Several(gv[i[1]]) \/ Bears(m, v, i))
        BY <3>2, <4>1, Zenon DEF IdInv
      <4>3. i \in gv2[i[1]]
        BY <3>0, <4>2, <1>5, Zenon
      <4>4. CASE Several(gv[i[1]])
        BY <1>6, <3>0, <4>3, <4>4, Zenon
      <4>5. CASE Bears(m, v, i)
        <5>1. CASE v = u /\ id # i
          <6>1. i[1] = a
            BY <1>2, <4>5, <5>1, Zenon DEF Bears
          <6>2. Several(gv2[a])
            BY <1>5, <4>3, <5>1, <6>1, Zenon DEF Several
          <6>. QED
            BY <4>3, <6>1, <6>2, Zenon
        <5>2. CASE ~ (v = u /\ id # i)
          <6>1. Bears(m2, v, i)
            BY <1>3, <1>4, <4>5, <5>2, ZenonT(40) DEF Bears
          <6>. QED
            BY <4>1, <4>3, <6>1, Zenon
        <5>. QED
          BY <5>1, <5>2, Zenon
      <4>. QED
        BY <4>2, <4>4, <4>5, Zenon
    <3>. QED
      BY <3>1, <3>2, Zenon
  <2>. QED
    BY <2>1, <2>2, <2>3, Zenon DEF IdInv
<1>8. id # ErrorId => m2.by_id[id] = u \/ Several(gv2[a])
  <2>1. CASE m.by_id[id] = NoUser
    BY <1>1, <1>3, <1>4, <2>1, Zenon
  <2>2. CASE m.by_id[id] # NoUser /\ id # ErrorId
    <3>1. PICK v \in Users : v = m2.by_id[id]
      BY <1>1, <1>3, <1>4, <2>2, ZenonT(40) DEF Types, CImUserManager
    <3>2. id[1] = a /\ v # NoUser
      BY <1>1, <2>2, NumberFacts, Zenon
    <3>3. Several(gv2[a]) \/ Bears(m2, v, id)
      BY <1>1, <1>7, <2>2, <3>1, <3>2, Zenon DEF IdInv
    <3>4. Bears(m2, v, id) => m.user[v].live /\ m.user[v].m_address = a
      BY <1>3, <1>4, <3>2, ZenonT(90) DEF Bears
    <3>5. Bears(m2, v, id) => v = u
      BY <3>4, Zenon DEF UserInv, AddressesOfUsers, u
    <3>. QED
      BY <3>1, <3>3, <3>5, Zenon
  <2>. QED
    BY <2>1, <2>2, Zenon
<1>. QED
  BY <1>3, <1>4, <1>5, <1>6, <1>7, <1>8, SMTT(40) DEF m2, gv2, u

\* Two states of the connections with the same handles and addresses.
SameAddresses(k, k2) ==
    \A c \in Conns : /\ k2[c].status = k[c].status /\ k2[c].m_handle = k[c].m_handle
                     /\ k2[c].m_address = k[c].m_address

(* What is about handles and addresses survives a step that leaves them      *)
(* alone, such as ServerLoginRes.                                            *)
LEMMA SameUsers ==
    ASSUME NEW k \in [Conns -> CMsgSrvConn], NEW k2 \in [Conns -> CMsgSrvConn],
           SameAddresses(k, k2),
           NEW m \in CImUserManager, NEW m2 \in CImUserManager, UserInv(k, m),
           m2.by_address = m.by_address,
           \A v \in Users : /\ m2.user[v].live = m.user[v].live
                            /\ m2.user[v].m_address = m.user[v].m_address
                            /\ m2.user[v].m_conn_map = m.user[v].m_conn_map
    PROVE  UserInv(k2, m2)
<1>0. /\ \A u \in Users : \A h \in Handles : m.user[u].m_conn_map[h] \in Conns \cup {NoConn}
      /\ \A a \in Addresses : m.by_address[a] \in Users \cup {NoUser}
  BY ZenonT(90) DEF CImUserManager, CImUser
<1>1. ConnsOfUsers(k2, m2)
  <2>. SUFFICES ASSUME NEW u \in Users, NEW h \in Handles, m2.user[u].live,
                       m2.user[u].m_conn_map[h] # NoConn
                PROVE  Owned(k2, m2.user[u].m_conn_map[h], h, m2.user[u].m_address)
    BY Zenon DEF ConnsOfUsers
  <2>1. PICK e \in Conns : e = m.user[u].m_conn_map[h] /\ e = m2.user[u].m_conn_map[h]
    BY <1>0
  <2>2. Owned(k, e, h, m.user[u].m_address)
    BY <2>1, Zenon DEF UserInv, ConnsOfUsers
  <2>3. Owned(k2, e, h, m2.user[u].m_address)
    BY <2>2, Zenon DEF Owned, SameAddresses
  <2>. QED
    BY <2>1, <2>3, Zenon
<1>2. UsersOfConns(k2, m2)
  <2>. SUFFICES ASSUME NEW c \in Conns, k2[c].status = "live", k2[c].m_address # NoAddress
                PROVE  Keeps(m2, m2.by_address[k2[c].m_address], k2[c].m_handle, c)
    BY Zenon DEF UsersOfConns
  <2>1. PICK a \in Addresses : a = k[c].m_address /\ a = k2[c].m_address
    BY Zenon DEF CMsgSrvConn, SameAddresses
  <2>2. PICK h : k[c].status = "live" /\ h = k[c].m_handle /\ k2[c].m_handle = h
    BY Zenon DEF SameAddresses
  <2>3. Keeps(m, m.by_address[a], h, c)
    BY <2>1, <2>2, Zenon DEF UserInv, UsersOfConns
  <2>4. PICK v \in Users : v = m.by_address[a]
    BY <1>0, <2>3, Zenon DEF Keeps
  <2>5. Keeps(m2, v, h, c)
    BY <2>3, <2>4, Zenon DEF Keeps
  <2>. QED
    BY <2>1, <2>2, <2>4, <2>5, Zenon
<1>3. UsersOfAddresses(m2)
  <2>. SUFFICES ASSUME NEW a \in Addresses, m2.by_address[a] # NoUser
                PROVE  Serves(m2, m2.by_address[a], a)
    BY Zenon DEF UsersOfAddresses
  <2>1. PICK v \in Users : v = m.by_address[a]
    BY <1>0, Zenon
  <2>2. Serves(m, v, a)
    BY <2>1, Zenon DEF UserInv, UsersOfAddresses
  <2>3. Serves(m2, v, a)
    BY <2>2, Zenon DEF Serves
  <2>. QED
    BY <2>1, <2>3, Zenon
<1>4. AddressesOfUsers(m2)
  BY Zenon DEF UserInv, AddressesOfUsers
<1>5. Makers(k2, m2)
  BY Zenon DEF UserInv, Makers, SameAddresses, Users
<1>. QED
  BY <1>1, <1>2, <1>3, <1>4, <1>5, Zenon DEF UserInv

(* What is said of the descriptors is about the same fields.                 *)
LEMMA SameConns ==
    ASSUME NEW k \in [Conns -> CMsgSrvConn], NEW k2 \in [Conns -> CMsgSrvConn],
           SameAddresses(k, k2), HandleInv(k), Plain
    PROVE  HandleInv(k2)
  BY DEF HandleInv, SameAddresses, Plain

(* The user of a connection that is found is the one its address leads to.   *)
LEMMA LoginRes ==
    ASSUME NEW k, NEW m, NEW gv, Types(k, m, gv), Plain,
           ConnInv(k), HandleInv(k), UserInv(k, m), IdInv(m, gv), OpenInv(k),
           NEW c \in Conns, NEW a \in Addresses, m.by_address[a] # NoUser,
           NEW id \in GivenIds(a),
           \A d \in Conns \ {c} : Finds(k, m, gv, d),
           \/ k[c].validated
           \/ async /\ \E d \in 1 .. c - 1 : k[d].m_handle = k[c].m_handle /\ k[d].validated
    PROVE  LET k2 == ResConn(k, c, id)
               m2 == ResManager(m, a, id)
               gv2 == ResGiven(gv, a, id) IN
           /\ Types(k2, m2, gv2)
           /\ ConnInv(k2) /\ HandleInv(k2) /\ UserInv(k2, m2)
           /\ IdInv(m2, gv2) /\ OpenInv(k2)
           /\ \A d \in Conns : Finds(k2, m2, gv2, d)
<1>. DEFINE k2 == ResConn(k, c, id)
            m2 == ResManager(m, a, id)
            gv2 == ResGiven(gv, a, id)
<1>1. /\ m2 \in CImUserManager /\ gv2 \in [Addresses -> SUBSET Ids]
      /\ m2.by_address = m.by_address
      /\ \A v \in Users : /\ m2.user[v].live = m.user[v].live
                          /\ m2.user[v].m_address = m.user[v].m_address
                          /\ m2.user[v].m_conn_map = m.user[v].m_conn_map
      /\ IdInv(m2, gv2)
      /\ \A i \in Ids : m.by_id[i] # NoUser => m2.by_id[i] = m.by_id[i]
      /\ \A b \in Addresses : Several(gv[b]) => Several(gv2[b])
      /\ id # ErrorId => m2.by_id[id] = m.by_address[a] \/ Several(gv2[a])
  BY LoginResIds, SMTT(40)
<1>. HIDE DEF m2, gv2
<1>2. id \in Ids /\ (id = ErrorId \/ id[1] = a) /\ ErrorId[1] = NoAddress
  BY IdFacts, Zenon
<1>3. /\ k \in [Conns -> CMsgSrvConn] /\ k2 \in [Conns -> CMsgSrvConn]
      /\ \A d \in Conns \ {c} : k2[d] = k[d]
      /\ k2[c].m_user_id = id /\ k2[c].m_bOpen
      /\ k2[c].status = k[c].status /\ k2[c].m_handle = k[c].m_handle
      /\ k2[c].m_address = k[c].m_address /\ k2[c].validated = k[c].validated
      /\ k2[c].login = k[c].login /\ k2[c].m_captcha = k[c].m_captcha
      /\ k2[c].m_prv_key = k[c].m_prv_key
  <2>1. k \in [Conns -> CMsgSrvConn]
    BY Zenon DEF Types
  <2>. DEFINE r == [k[c] EXCEPT !.m_user_id = id, !.m_bOpen = TRUE]
  <2>2. /\ r \in CMsgSrvConn /\ r.m_user_id = id /\ r.m_bOpen
        /\ r.status = k[c].status /\ r.m_handle = k[c].m_handle
        /\ r.m_address = k[c].m_address /\ r.validated = k[c].validated
        /\ r.login = k[c].login /\ r.m_captcha = k[c].m_captcha
        /\ r.m_prv_key = k[c].m_prv_key
    <3>1. /\ r.m_user_id = id /\ r.m_bOpen
          /\ r.status = k[c].status /\ r.m_handle = k[c].m_handle
          /\ r.m_address = k[c].m_address /\ r.validated = k[c].validated
          /\ r.login = k[c].login /\ r.m_captcha = k[c].m_captcha
          /\ r.m_prv_key = k[c].m_prv_key
      BY <2>1 DEF CMsgSrvConn
    <3>2. r \in CMsgSrvConn
      BY <1>2, <2>1, ConnEdits, Zenon
    <3>. QED
      BY <3>1, <3>2, Zenon
  <2>3. k2 = [k EXCEPT ![c] = r]
    BY <2>1, Zenon DEF ResConn
  <2>. HIDE DEF r, k2
  <2>. QED
    BY <2>1, <2>2, <2>3, Zenon
<1>. HIDE DEF k2
<1>4. SameAddresses(k, k2)
  BY <1>3, Zenon DEF SameAddresses
<1>5. ConnInv(k2)
  BY <1>3 DEF ConnInv, ConnOK
<1>6. HandleInv(k2)
  BY <1>3, <1>4, SameConns, Zenon
<1>7. UserInv(k2, m2)
  BY <1>1, <1>3, <1>4, SameUsers, ZenonT(90) DEF Types
<1>8. OpenInv(k2)
  <2>1. \A d \in Conns : k2[d].validated = k[d].validated /\ k2[d].m_handle = k[d].m_handle
    BY <1>3, Zenon
  <2>2. \A d \in Conns : 1 .. d - 1 \subseteq Conns
    BY NumberFacts DEF Conns
  <2>. QED
    BY <1>3, <2>1, <2>2 DEF OpenInv
<1>9. ASSUME NEW d \in Conns
      PROVE  Finds(k2, m2, gv2, d)
  <2>. SUFFICES ASSUME k2[d].status = "live", k2[d].validated, k2[d].login = "answered",
                       k2[d].m_user_id[1] = k2[d].m_address
                PROVE  \/ Several(gv2[k2[d].m_address])
                       \/ m2.by_id[k2[d].m_user_id] = m2.by_address[k2[d].m_address]
    BY Zenon DEF Finds
  <2>1. k2[d].m_address = k[d].m_address /\ k[d].m_address \in Addresses
    BY <1>3, <1>4, ZenonT(90) DEF SameAddresses, ConnInv, ConnOK, CMsgSrvConn
  <2>2. m.by_address[k[d].m_address] # NoUser
    <3>1. k[d].status = "live" /\ k[d].m_address # NoAddress
      BY <1>4, <2>1, NamesAssumption, Zenon DEF SameAddresses
    <3>2. PICK b \in Addresses : b = k[d].m_address
      BY <2>1, Zenon
    <3>3. Keeps(m, m.by_address[b], k[d].m_handle, d)
      BY <3>1, <3>2, Zenon DEF UserInv, UsersOfConns
    <3>. QED
      BY <3>2, <3>3, Zenon DEF Keeps
  <2>3. CASE d = c
    <3>1. id # ErrorId /\ k[c].m_address = a
      BY <1>2, <1>3, <2>1, <2>3, NamesAssumption, Zenon
    <3>. QED
      BY <1>1, <1>3, <2>1, <2>3, <3>1, Zenon
  <2>4. CASE d # c
    <3>1. k2[d] = k[d]
      BY <1>3, <2>4, Zenon
    <3>2. \/ Several(gv[k[d].m_address])
          \/ m.by_id[k[d].m_user_id] = m.by_address[k[d].m_address]
      BY <2>4, <3>1, Zenon DEF Finds
    <3>3. k[d].m_user_id \in Ids
      BY <1>3, <2>1, <3>1, IdFacts, NamesAssumption, SMTT(40) DEF CMsgSrvConn
    <3>. QED
      BY <1>1, <2>1, <2>2, <3>1, <3>2, <3>3, ZenonT(90)
  <2>. QED
    BY <2>3, <2>4, Zenon
<1>10. Types(k2, m2, gv2)
  BY <1>1, <1>3, Zenon DEF Types
<1>. QED
  BY <1>1, <1>5, <1>6, <1>7, <1>8, <1>9, <1>10, Zenon DEF k2, m2, gv2

-----------------------------------------------------------------------------
(* AuthLoginReq, up to the answer.                                           *)

(* What is known after AuthLoginReq entered the connection c at the user u   *)
(* of the address a: d is the manager then.                                  *)
EnteredElsewhere(d, u) ==
    \A v \in Users \ {u} :
      /\ d.user[v].live = manager.user[v].live
      /\ d.user[v].m_address = manager.user[v].m_address
      /\ d.user[v].m_user_id = manager.user[v].m_user_id
      /\ \A g \in Handles : d.user[v].m_conn_map[g] = manager.user[v].m_conn_map[g]
EnteredAt(d, u, a, h, c) ==
    /\ d.user[u].live /\ d.user[u].m_address = a /\ d.user[u].m_conn_map[h] = c
    /\ \A g \in Handles \ {h} : d.user[u].m_conn_map[g] # NoConn =>
         /\ manager.user[u].live /\ manager.user[u].m_address = a
         /\ d.user[u].m_conn_map[g] = manager.user[u].m_conn_map[g]
    /\ \/ manager.by_address[a] = NoUser /\ ~ manager.user[u].live
          /\ d.user[u].m_user_id = NoId
       \/ /\ manager.by_address[a] = u /\ d.user[u].m_user_id = manager.user[u].m_user_id
          /\ manager.user[u].live
          /\ \A g \in Handles \ {h} :
               d.user[u].m_conn_map[g] = manager.user[u].m_conn_map[g]
Entered(d, u, a, h, c) ==
    /\ d \in CImUserManager /\ u \in Users /\ u # NoUser /\ d.by_address[a] = u
    /\ \A b \in Addresses \ {a} : d.by_address[b] = manager.by_address[b]
    /\ d.by_id = manager.by_id
    /\ u = c \/ manager.by_address[a] = u
    /\ EnteredElsewhere(d, u) /\ EnteredAt(d, u, a, h, c)

(* The user that a connection which logs in is entered at: the one of the    *)
(* address, or a new one.                                                    *)
LEMMA WithEntered ==
    ASSUME Types(conn, manager, given), UserInv(conn, manager),
           NEW c \in Conns, NEW a \in Addresses, conn[c].m_address = NoAddress,
           conn[c].m_handle \in Handles
    PROVE  LET d == WithMsgConn(c, a) IN Entered(d, d.by_address[a], a, conn[c].m_handle, c)
<1>. DEFINE m1 == GetOrAddImUser(manager, a, c)
            h == conn[c].m_handle
            u == m1.by_address[a]
            d == AddMsgConn(m1, u, h, c)
<1>0. manager \in CImUserManager /\ WithMsgConn(c, a) = d
  BY Zenon DEF Types, WithMsgConn
<1>h. h \in Handles /\ c \in Conns \cup {NoConn}
  BY Zenon
<1>. HIDE DEF m1, h
<1>1. CASE manager.by_address[a] # NoUser
  <2>1. m1 = manager
    BY <1>1, Zenon DEF m1, GetOrAddImUser
  <2>2. u \in Users /\ manager.user[u].live /\ manager.user[u].m_address = a
        /\ u = manager.by_address[a]
    BY <1>0, <1>1, <2>1, Zenon DEF CImUserManager, UserInv, UsersOfAddresses, Serves
  <2>. HIDE DEF u
  <2>3. /\ d \in CImUserManager /\ d.by_address = m1.by_address /\ d.by_id = m1.by_id
        /\ \A v \in Users :
             /\ d.user[v].live = m1.user[v].live
             /\ d.user[v].m_address = m1.user[v].m_address
             /\ d.user[v].m_user_id = m1.user[v].m_user_id
        /\ \A v \in Users : \A g \in Handles :
             d.user[v].m_conn_map[g] = IF v = u /\ g = h THEN c ELSE m1.user[v].m_conn_map[g]
    <3>1. m1 \in CImUserManager /\ u \in Users
      BY <1>0, <2>1, <2>2, Zenon
    <3>. QED
      BY <1>h, <3>1, MsgConnEdit, SMTT(40)
  <2>. HIDE DEF d
  <2>5. d.by_address[a] = u /\ u # NoUser /\ d.by_id = manager.by_id
        /\ \A b \in Addresses \ {a} : d.by_address[b] = manager.by_address[b]
    BY <2>1, <2>2, <2>3, NumberFacts, Zenon
  <2>6. EnteredElsewhere(d, u)
    BY <2>1, <2>3, Zenon DEF EnteredElsewhere
  <2>7. EnteredAt(d, u, a, h, c)
    <3>1. /\ d.user[u].live /\ d.user[u].m_address = a
          /\ d.user[u].m_user_id = manager.user[u].m_user_id
      BY <2>1, <2>2, <2>3, ZenonT(90)
    <3>2. /\ d.user[u].m_conn_map[h] = c
          /\ \A g \in Handles \ {h} : d.user[u].m_conn_map[g] = manager.user[u].m_conn_map[g]
      BY <1>h, <2>1, <2>2, <2>3, SMTT(40)
    <3>. QED
      BY <2>2, <3>1, <3>2, Zenon DEF EnteredAt
  <2>8. Entered(d, u, a, h, c)
    BY <2>2, <2>3, <2>5, <2>6, <2>7, Zenon DEF Entered
  <2>. QED
    BY <1>0, <2>5, <2>8, Zenon DEF h
<1>2. CASE manager.by_address[a] = NoUser
  <2>1. /\ m1 \in CImUserManager /\ m1.by_id = manager.by_id
        /\ m1.by_address = [manager.by_address EXCEPT ![a] = c]
        /\ m1.user = [manager.user EXCEPT ![c] = NewUser(a)]
    BY <1>0, <1>2, GetOrAddFacts DEF m1
  <2>2. u = c /\ u \in Users
    BY <1>0, <2>1, Zenon DEF CImUserManager, Users
  <2>3. /\ NewUser(a).live /\ NewUser(a).m_address = a /\ NewUser(a).m_user_id = NoId
        /\ \A g \in Handles : NewUser(a).m_conn_map[g] = NoConn
    BY Zenon DEF NewUser
  <2>4. ~ manager.user[u].live
    BY <2>2, Zenon DEF UserInv, Makers
  <2>5. /\ m1.user[u] = NewUser(a) /\ \A v \in Users \ {u} : m1.user[v] = manager.user[v]
        /\ m1.by_address[a] = u
        /\ \A b \in Addresses \ {a} : m1.by_address[b] = manager.by_address[b]
    BY <1>0, <2>1, <2>2, Zenon DEF CImUserManager
  <2>. HIDE DEF u
  <2>6. /\ d \in CImUserManager /\ d.by_address = m1.by_address /\ d.by_id = m1.by_id
        /\ \A v \in Users :
             /\ d.user[v].live = m1.user[v].live
             /\ d.user[v].m_address = m1.user[v].m_address
             /\ d.user[v].m_user_id = m1.user[v].m_user_id
        /\ \A v \in Users : \A g \in Handles :
             d.user[v].m_conn_map[g] = IF v = u /\ g = h THEN c ELSE m1.user[v].m_conn_map[g]
    <3>1. m1 \in CImUserManager
      BY <2>1, Zenon
    <3>. QED
      BY <1>h, <2>2, <3>1, MsgConnEdit, SMTT(40)
  <2>. HIDE DEF d
  <2>7. d.by_address[a] = u /\ u # NoUser /\ d.by_id = manager.by_id
        /\ \A b \in Addresses \ {a} : d.by_address[b] = manager.by_address[b]
    BY <2>1, <2>2, <2>5, <2>6, NumberFacts, Zenon
  <2>9. EnteredElsewhere(d, u)
    BY <2>5, <2>6, SMTT(40) DEF EnteredElsewhere
  <2>10. EnteredAt(d, u, a, h, c)
    BY <1>h, <1>2, <2>2, <2>3, <2>4, <2>5, <2>6, SMTT(40) DEF EnteredAt
  <2>13. Entered(d, u, a, h, c)
    BY <2>2, <2>6, <2>7, <2>9, <2>10, Zenon DEF Entered
  <2>. QED
    BY <1>0, <2>7, <2>13, Zenon DEF h
<1>. QED
  BY <1>1, <1>2, Zenon

(* The connection as AuthLoginReq leaves it.                                 *)
LEMMA LoggingInFacts ==
    ASSUME NEW c \in Conns, NEW a \in Addresses, NEW ok \in BOOLEAN,
           NEW login \in {"sent", "answered"}, conn \in [Conns -> CMsgSrvConn]
    PROVE  LET k == LoggingIn(c, a, ok, login) IN
           /\ k \in [Conns -> CMsgSrvConn]
           /\ \A d \in Conns \ {c} : k[d] = conn[d]
           /\ k[c].m_address = a /\ k[c].validated = ok /\ k[c].login = login
           /\ ~ k[c].m_captcha
           /\ k[c].status = conn[c].status /\ k[c].m_handle = conn[c].m_handle
           /\ k[c].m_prv_key = conn[c].m_prv_key /\ k[c].m_user_id = conn[c].m_user_id
           /\ k[c].m_bOpen = conn[c].m_bOpen
<1>. DEFINE r == [conn[c] EXCEPT !.m_captcha = FALSE, !.m_address = a, !.validated = ok,
                                 !.login = login]
<1>1. r \in CMsgSrvConn
  <2>1. ErrorId \in Ids
    BY Zenon DEF Ids
  <2>. QED
    BY <2>1, ConnEdits, Zenon
<1>2. /\ r.m_address = a /\ r.validated = ok /\ r.login = login /\ r.m_captcha = FALSE
      /\ r.status = conn[c].status /\ r.m_handle = conn[c].m_handle
      /\ r.m_prv_key = conn[c].m_prv_key /\ r.m_user_id = conn[c].m_user_id
      /\ r.m_bOpen = conn[c].m_bOpen
  BY DEF CMsgSrvConn
<1>3. LoggingIn(c, a, ok, login) = [conn EXCEPT ![c] = r]
  BY Zenon DEF LoggingIn
<1>. HIDE DEF r
<1>. QED
  BY <1>1, <1>2, <1>3, Zenon

\* What UserInv needs to know of the connection that logs in.
LoggedConn(k, c, a) ==
    /\ k \in [Conns -> CMsgSrvConn] /\ \A d \in Conns \ {c} : k[d] = conn[d]
    /\ k[c].m_address = a /\ k[c].status = "live" /\ k[c].m_handle = conn[c].m_handle

(* With the connection entered the users have their connections again.       *)
LEMMA LoggingUsers ==
    ASSUME Types(conn, manager, given), ConnInv(conn), HandleInv(conn),
           UserInv(conn, manager),
           NEW c \in Conns, NEW a \in Addresses, NEW k, NEW m, NEW u,
           conn[c].status = "live", conn[c].m_address = NoAddress,
           LoggedConn(k, c, a), Entered(m, u, a, conn[c].m_handle, c)
    PROVE  UserInv(k, m)
<1>. DEFINE h == conn[c].m_handle
<1>1. h \in Handles /\ a # NoAddress
  BY NamesAssumption, Zenon DEF ConnInv, ConnOK
<1>2. /\ EnteredElsewhere(m, u) /\ EnteredAt(m, u, a, h, c) /\ u \in Users
      /\ u # NoUser /\ m.by_address[a] = u
      /\ \A b \in Addresses \ {a} : m.by_address[b] = manager.by_address[b]
  BY Zenon DEF Entered
<1>3. /\ manager \in CImUserManager /\ conn \in [Conns -> CMsgSrvConn] /\ m \in CImUserManager
  BY Zenon DEF Types, Entered
<1>4. \A v \in Users : \A g \in Handles :
        manager.user[v].m_conn_map[g] \in Conns \cup {NoConn}
  BY <1>3 DEF CImUserManager, CImUser
<1>5. \A d \in Conns \ {c} : k[d] = conn[d]
  BY Zenon DEF LoggedConn
<1>6. /\ ConnsOfUsers(conn, manager) /\ UsersOfConns(conn, manager)
      /\ UsersOfAddresses(manager) /\ AddressesOfUsers(manager)
  BY Zenon DEF UserInv
\* The connection is in nobody's map yet.
<1>7. \A v \in Users : \A g \in Handles :
        manager.user[v].live => manager.user[v].m_conn_map[g] # c
  <2>. SUFFICES ASSUME NEW v \in Users, NEW g \in Handles, manager.user[v].live,
                       manager.user[v].m_conn_map[g] = c
                PROVE  FALSE
    BY Zenon
  <2>1. Owned(conn, c, g, manager.user[v].m_address)
    BY <1>6, NumberFacts, Zenon DEF ConnsOfUsers
  <2>2. manager.user[v].m_address \in Addresses
    BY <1>6, Zenon DEF AddressesOfUsers
  <2>. QED
    BY <2>1, <2>2, NamesAssumption, Zenon DEF Owned
<1>. HIDE DEF h
<1>9. manager.user[u].live => manager.by_address[a] = u /\ manager.user[u].m_address = a
  <2>1. manager.user[u].live => manager.by_address[a] = u
    BY <1>2, Zenon DEF EnteredAt
  <2>2. manager.by_address[a] = u => Serves(manager, u, a)
    BY <1>2, <1>6, Zenon DEF UsersOfAddresses
  <2>. QED
    BY <2>1, <2>2, Zenon DEF Serves
\* Two users do not share an address.
<1>8. \A b \in Addresses \ {a} : manager.by_address[b] # NoUser =>
        manager.by_address[b] \in Users \ {u}
  <2>. SUFFICES ASSUME NEW b \in Addresses \ {a}, manager.by_address[b] # NoUser
                PROVE  manager.by_address[b] \in Users \ {u}
    BY Zenon
  <2>1. PICK v \in Users : v = manager.by_address[b]
    BY <1>3, Zenon DEF CImUserManager
  <2>2. manager.user[v].live /\ manager.user[v].m_address = b
    BY <1>6, <2>1, Zenon DEF UsersOfAddresses, Serves
  <2>3. manager.user[u].live => manager.user[u].m_address = a
    BY <1>9, Zenon
  <2>. QED
    BY <2>1, <2>2, <2>3, Zenon
<1>10. ConnsOfUsers(k, m)
  <2>. SUFFICES ASSUME NEW v \in Users, NEW g \in Handles, m.user[v].live,
                       m.user[v].m_conn_map[g] # NoConn
                PROVE  Owned(k, m.user[v].m_conn_map[g], g, m.user[v].m_address)
    BY Zenon DEF ConnsOfUsers
  <2>1. CASE v = u /\ g = h
    <3>1. m.user[v].m_conn_map[g] = c /\ m.user[v].m_address = a
      BY <1>2, <2>1, Zenon DEF EnteredAt
    <3>2. Owned(k, c, h, a)
      BY Zenon DEF LoggedConn, Owned, h
    <3>. QED
      BY <2>1, <3>1, <3>2, Zenon
  <2>2. CASE ~ (v = u /\ g = h)
    <3>1. /\ manager.user[v].live /\ m.user[v].m_conn_map[g] = manager.user[v].m_conn_map[g]
          /\ manager.user[v].m_address = m.user[v].m_address
      <4>1. CASE v # u
        BY <1>2, <4>1, Zenon DEF EnteredElsewhere
      <4>2. CASE v = u
        BY <1>2, <2>2, <4>2, Zenon DEF EnteredAt
      <4>. QED
        BY <4>1, <4>2, Zenon
    <3>2. PICK e \in Conns \ {c} : e = manager.user[v].m_conn_map[g]
      BY <1>4, <1>7, <3>1, Zenon
    <3>3. PICK b : b = manager.user[v].m_address
      BY Zenon
    <3>4. Owned(conn, e, g, b)
      BY <1>6, <3>1, <3>2, <3>3, NumberFacts, Zenon DEF ConnsOfUsers
    <3>5. Owned(k, e, g, b)
      BY <1>5, <3>4, Zenon DEF Owned
    <3>. QED
      BY <3>1, <3>2, <3>3, <3>5, Zenon
  <2>. QED
    BY <2>1, <2>2, Zenon
<1>11. UsersOfConns(k, m)
  <2>. SUFFICES ASSUME NEW e \in Conns, k[e].status = "live", k[e].m_address # NoAddress
                PROVE  Keeps(m, m.by_address[k[e].m_address], k[e].m_handle, e)
    BY Zenon DEF UsersOfConns
  <2>1. CASE e = c
    <3>1. Keeps(m, u, h, c)
      BY <1>2, Zenon DEF EnteredAt, Keeps
    <3>2. k[e].m_address = a /\ k[e].m_handle = h
      BY <2>1, Zenon DEF LoggedConn, h
    <3>. QED
      BY <1>2, <2>1, <3>1, <3>2, Zenon
  <2>2. CASE e # c
    <3>1. /\ k[e] = conn[e] /\ conn[e].status = "live" /\ conn[e].m_address # NoAddress
          /\ conn[e].m_address \in Addresses /\ conn[e].m_handle \in Handles
      BY <1>3, <1>5, <2>2, Zenon DEF CMsgSrvConn, ConnInv, ConnOK
    <3>2. PICK b \in Addresses, g \in Handles : b = conn[e].m_address /\ g = conn[e].m_handle
      BY <3>1, Zenon
    <3>3. g # h
      BY <2>2, <3>1, <3>2, ZenonT(90) DEF HandleInv, h
    <3>4. Keeps(manager, manager.by_address[b], g, e)
      BY <1>6, <3>1, <3>2, Zenon DEF UsersOfConns
    <3>5. Keeps(m, m.by_address[b], g, e)
      <4>1. CASE b = a
        <5>1. manager.by_address[a] # NoUser
          BY <3>4, <4>1, Zenon DEF Keeps
        <5>2. manager.by_address[a] = u
          BY <1>2, <5>1, Zenon DEF EnteredAt
        <5>3. m.user[u].m_conn_map[g] = manager.user[u].m_conn_map[g]
          BY <1>2, <3>3, <5>1, Zenon DEF EnteredAt
        <5>4. Keeps(m, u, g, e)
          BY <3>4, <4>1, <5>2, <5>3, Zenon DEF Keeps
        <5>. QED
          BY <1>2, <4>1, <5>4, Zenon
      <4>2. CASE b # a
        <5>1. manager.by_address[b] # NoUser
          BY <3>4, Zenon DEF Keeps
        <5>2. PICK v \in Users \ {u} : v = manager.by_address[b] /\ v = m.by_address[b]
          BY <1>2, <1>8, <4>2, <5>1, Zenon
        <5>3. m.user[v].m_conn_map[g] = manager.user[v].m_conn_map[g]
          BY <1>2, Zenon DEF EnteredElsewhere
        <5>4. Keeps(m, v, g, e)
          BY <3>4, <5>2, <5>3, Zenon DEF Keeps
        <5>. QED
          BY <5>2, <5>4, Zenon
      <4>. QED
        BY <4>1, <4>2, Zenon
    <3>. QED
      BY <3>1, <3>2, <3>5, Zenon
  <2>. QED
    BY <2>1, <2>2, Zenon
<1>14. UsersOfAddresses(m)
  <2>. SUFFICES ASSUME NEW b \in Addresses, m.by_address[b] # NoUser
                PROVE  Serves(m, m.by_address[b], b)
    BY Zenon DEF UsersOfAddresses
  <2>1. CASE b = a
    <3>1. Serves(m, u, a)
      BY <1>1, <1>2, NumberFacts, Zenon DEF EnteredAt, Serves
    <3>. QED
      BY <1>2, <2>1, <3>1, Zenon
  <2>2. CASE b # a
    <3>1. manager.by_address[b] # NoUser
      BY <1>2, <2>2, Zenon
    <3>2. PICK v \in Users \ {u} : v = manager.by_address[b] /\ v = m.by_address[b]
      BY <1>2, <1>8, <2>2, <3>1, Zenon
    <3>3. Serves(manager, v, b)
      BY <1>6, <3>1, <3>2, Zenon DEF UsersOfAddresses
    <3>4. Serves(m, v, b)
      BY <1>2, <3>3, ZenonT(40) DEF EnteredElsewhere, Serves
    <3>. QED
      BY <3>2, <3>4, Zenon
  <2>. QED
    BY <2>1, <2>2, Zenon
<1>12. AddressesOfUsers(m)
  <2>. SUFFICES ASSUME NEW v \in Users, m.user[v].live
                PROVE  /\ m.user[v].m_address \in Addresses
                       /\ m.by_address[m.user[v].m_address] = v
    BY Zenon DEF AddressesOfUsers
  <2>1. CASE v = u
    BY <1>2, <2>1, Zenon DEF EnteredAt
  <2>2. CASE v # u
    <3>1. manager.user[v].live /\ m.user[v].m_address = manager.user[v].m_address
      BY <1>2, <2>2, Zenon DEF EnteredElsewhere
    <3>2. /\ manager.user[v].m_address \in Addresses
          /\ manager.by_address[manager.user[v].m_address] = v
      BY <1>6, <3>1, Zenon DEF AddressesOfUsers
    <3>3. manager.user[v].m_address # a
      <4>1. manager.by_address[a] \in {u, NoUser}
        BY <1>2, Zenon DEF EnteredAt
      <4>. QED
        BY <2>2, <3>2, <4>1, NumberFacts, Zenon
    <3>. QED
      BY <1>2, <3>1, <3>2, <3>3, Zenon
  <2>. QED
    BY <2>1, <2>2, Zenon
<1>13. Makers(k, m)
  <2>. SUFFICES ASSUME NEW v \in Users, m.user[v].live
                PROVE  k[v].m_address # NoAddress
    BY Zenon DEF Makers
  <2>1. CASE v = c
    BY <1>1, <2>1, Zenon DEF LoggedConn
  <2>2. CASE v # c
    <3>1. manager.user[v].live
      <4>1. CASE v = u
        <5>1. manager.by_address[a] = u
          BY <2>2, <4>1, Zenon DEF Entered
        <5>2. Serves(manager, u, a)
          BY <1>2, <1>6, <5>1, Zenon DEF UsersOfAddresses
        <5>. QED
          BY <4>1, <5>2, Zenon DEF Serves
      <4>2. CASE v # u
        BY <1>2, <4>2, Zenon DEF EnteredElsewhere
      <4>. QED
        BY <4>1, <4>2, Zenon
    <3>. QED
      BY <1>5, <2>2, <3>1, Zenon DEF UserInv, Makers, Users
  <2>. QED
    BY <2>1, <2>2, Zenon
<1>. QED
  BY <1>10, <1>11, <1>12, <1>13, <1>14, Zenon DEF UserInv

(* The ids lead where they led.                                              *)
LEMMA LoggingIds ==
    ASSUME Types(conn, manager, given), UserInv(conn, manager), IdInv(manager, given),
           NEW a \in Addresses, NEW h, NEW c, NEW m, NEW u, Entered(m, u, a, h, c)
    PROVE  IdInv(m, given)
<1>1. /\ EnteredElsewhere(m, u) /\ EnteredAt(m, u, a, h, c) /\ u \in Users
      /\ m.by_id = manager.by_id
  BY Zenon DEF Entered
<1>2. \A i \in Ids : manager.by_id[i] \in Users \cup {NoUser}
  BY Zenon DEF Types, CImUserManager
<1>3. manager.user[u].live =>
        /\ m.user[u].live /\ m.user[u].m_address = a /\ manager.user[u].m_address = a
        /\ m.user[u].m_user_id = manager.user[u].m_user_id
  <2>1. manager.by_address[a] = u => manager.user[u].m_address = a
    BY <1>1, NumberFacts, Zenon DEF UserInv, UsersOfAddresses, Serves
  <2>. QED
    BY <1>1, <2>1, Zenon DEF EnteredAt
<1>4. ASSUME NEW v \in Users, m.user[v].live
      PROVE  m.user[v].m_user_id = NoId \/ m.user[v].m_user_id \in given[m.user[v].m_address]
  <2>1. CASE v # u
    <3>1. /\ manager.user[v].live /\ m.user[v].m_user_id = manager.user[v].m_user_id
          /\ m.user[v].m_address = manager.user[v].m_address
      BY <1>1, <1>4, <2>1, Zenon DEF EnteredElsewhere
    <3>. QED
      BY <3>1, Zenon DEF IdInv
  <2>2. CASE v = u /\ manager.user[u].live
    BY <1>1, <1>3, <2>2, Zenon DEF IdInv
  <2>3. CASE v = u /\ ~ manager.user[u].live
    BY <1>1, <2>3, Zenon DEF EnteredAt
  <2>. QED
    BY <2>1, <2>2, <2>3, Zenon
<1>5. ASSUME NEW i \in Ids \ {ErrorId}, m.by_id[i] # NoUser
      PROVE  i \in given[i[1]] /\ (Several(given[i[1]]) \/ Bears(m, m.by_id[i], i))
  <2>1. PICK v \in Users : v = m.by_id[i] /\ v = manager.by_id[i]
    BY <1>1, <1>2, <1>5, Zenon
  <2>2. i \in given[i[1]] /\ (Several(given[i[1]]) \/ Bears(manager, v, i))
    BY <1>1, <1>5, <2>1, Zenon DEF IdInv
  <2>3. manager.user[v].live =>
          m.user[v].live /\ m.user[v].m_address = manager.user[v].m_address
          /\ m.user[v].m_user_id = manager.user[v].m_user_id
    <3>1. CASE v = u
      BY <1>3, <3>1, Zenon
    <3>2. CASE v # u
      BY <1>1, <3>2, Zenon DEF EnteredElsewhere
    <3>. QED
      BY <3>1, <3>2, Zenon
  <2>4. Bears(manager, v, i) => Bears(m, v, i)
    BY <2>3, Zenon DEF Bears
  <2>. QED
    BY <2>1, <2>2, <2>4, Zenon
<1>6. \A b \in Addresses : given[b] \subseteq GivenIds(b)
  BY Zenon DEF IdInv
<1>. QED
  BY <1>4, <1>5, <1>6, Zenon DEF IdInv

\* The invariant without the answers: what AuthLoginReq hands to ServerLoginRes.
Rest(k, m, gv) ==
    /\ Types(k, m, gv) /\ Plain /\ ConnInv(k) /\ HandleInv(k) /\ UserInv(k, m)
    /\ IdInv(m, gv) /\ OpenInv(k)

(* AuthLoginReq hands on a connection and a manager that are in order.       *)
LEMMA Logging ==
    ASSUME Rest(conn, manager, given), \A d \in Conns : Finds(conn, manager, given, d),
           NEW c \in Conns, NEW a \in Addresses, NEW ok \in BOOLEAN,
           NEW login \in {"sent", "answered"},
           conn[c].status = "live", conn[c].m_address = NoAddress, conn[c].m_captcha
    PROVE  LET k == LoggingIn(c, a, ok, login)
               m == WithMsgConn(c, a) IN
           /\ Rest(k, m, given)
           /\ \A d \in Conns \ {c} : Finds(k, m, given, d)
           /\ m.by_address[a] # NoUser /\ k[c].m_prv_key
<1>. DEFINE k == LoggingIn(c, a, ok, login)
            m == WithMsgConn(c, a)
            h == conn[c].m_handle
            u == m.by_address[a]
<1>0. /\ Types(conn, manager, given) /\ Plain /\ ConnInv(conn) /\ HandleInv(conn)
      /\ UserInv(conn, manager) /\ IdInv(manager, given)
      /\ OpenInv(conn)
  BY Zenon DEF Rest
<1>1. /\ k \in [Conns -> CMsgSrvConn]
      /\ \A d \in Conns \ {c} : k[d] = conn[d]
      /\ k[c].m_address = a /\ k[c].validated = ok /\ k[c].login = login
      /\ ~ k[c].m_captcha
      /\ k[c].status = conn[c].status /\ k[c].m_handle = conn[c].m_handle
      /\ k[c].m_prv_key = conn[c].m_prv_key /\ k[c].m_user_id = conn[c].m_user_id
      /\ k[c].m_bOpen = conn[c].m_bOpen
  <2>1. conn \in [Conns -> CMsgSrvConn]
    BY <1>0, Zenon DEF Types
  <2>. QED
    BY <2>1, LoggingInFacts, SMTT(40)
<1>2. h \in Handles /\ conn[c].m_prv_key /\ ~ conn[c].validated
  BY <1>0, Zenon DEF ConnInv, ConnOK
<1>3. Entered(m, u, a, h, c)
  BY <1>0, <1>2, WithEntered, Zenon
<1>. HIDE DEF k, m, u, h
<1>b. \A d \in Conns : /\ k[d].m_prv_key \in BOOLEAN /\ conn[d].m_prv_key \in BOOLEAN
                       /\ k[d].validated \in BOOLEAN /\ conn[d].validated \in BOOLEAN
                       /\ k[d].m_captcha \in BOOLEAN /\ conn[d].m_captcha \in BOOLEAN
  BY <1>0, <1>1, Zenon DEF Types, CMsgSrvConn
<1>4. /\ m \in CImUserManager /\ u # NoUser
      /\ \A b \in Addresses \ {a} : m.by_address[b] = manager.by_address[b]
      /\ m.by_id = manager.by_id /\ EnteredAt(m, u, a, h, c) /\ m.by_address[a] = u
  BY <1>3, Zenon DEF Entered
<1>5. ConnInv(k)
  <2>1. a # NoAddress /\ conn[c].status # "new" /\ k[c].m_handle \in Handles
    BY <1>0, <1>1, NamesAssumption, Zenon DEF ConnInv, ConnOK
  <2>2. \A d \in Conns \ {c} : ConnOK(k, d)
    <3>. SUFFICES ASSUME NEW d \in Conns \ {c}
                  PROVE  ConnOK(k, d)
      BY Zenon
    <3>1. k[d] = conn[d] /\ ConnOK(conn, d)
      BY <1>0, <1>1, Zenon DEF ConnInv
    <3>. QED
      BY <3>1, Zenon DEF ConnOK
  <2>3. ConnOK(k, c)
    BY <1>0, <1>1, <1>2, <1>b, <2>1, Zenon DEF ConnInv, ConnOK
  <2>. QED
    BY <2>2, <2>3, Zenon DEF ConnInv
<1>6. HandleInv(k)
  <2>1. \A d \in Conns : k[d].status = conn[d].status /\ k[d].m_handle = conn[d].m_handle
    BY <1>1, Zenon
  <2>2. \A x \in Handles : g_msg_conn_map[x] \in Conns \cup {NoConn}
    BY <1>0, Zenon DEF Plain
  <2>3. HandleInv(conn)
    BY <1>0, Zenon
  <2>. QED
    BY <2>1, <2>2, <2>3 DEF HandleInv
<1>7. UserInv(k, m)
  <2>1. LoggedConn(k, c, a)
    BY <1>1, Zenon DEF LoggedConn
  <2>. QED
    BY <1>0, <1>3, <2>1, LoggingUsers, Zenon DEF h
<1>9. IdInv(m, given)
  BY <1>0, <1>3, LoggingIds, Zenon
<1>10. OpenInv(k)
  <2>1. \A d \in Conns : /\ conn[d].validated => k[d].validated
                         /\ k[d].m_handle = conn[d].m_handle
                         /\ k[d].m_bOpen = conn[d].m_bOpen
    BY <1>1, <1>2, Zenon
  <2>2. \A d \in Conns : 1 .. d - 1 \subseteq Conns
    BY NumberFacts DEF Conns
  <2>. QED
    BY <1>0, <2>1, <2>2, SMTT(40) DEF OpenInv
<1>11. ASSUME NEW d \in Conns \ {c}
       PROVE  Finds(k, m, given, d)
  <2>. SUFFICES ASSUME k[d].status = "live", k[d].validated, k[d].login = "answered",
                       k[d].m_user_id[1] = k[d].m_address
                PROVE  \/ Several(given[k[d].m_address])
                       \/ m.by_id[k[d].m_user_id] = m.by_address[k[d].m_address]
    BY Zenon DEF Finds
  <2>1. k[d] = conn[d]
    BY <1>1, Zenon
  <2>2. conn[d].m_address \in Addresses /\ conn[d].m_address # NoAddress
    BY <1>0, <2>1, Zenon DEF ConnInv, ConnOK, Types, CMsgSrvConn
  <2>3. manager.by_address[conn[d].m_address] # NoUser
    <3>1. PICK b \in Addresses : b = conn[d].m_address
      BY <2>2, Zenon
    <3>2. Keeps(manager, manager.by_address[b], conn[d].m_handle, d)
      BY <1>0, <2>1, <2>2, <3>1, Zenon DEF UserInv, UsersOfConns
    <3>. QED
      BY <3>1, <3>2, Zenon DEF Keeps
  <2>4. \/ Several(given[conn[d].m_address])
        \/ manager.by_id[conn[d].m_user_id] = manager.by_address[conn[d].m_address]
    BY <2>1, Zenon DEF Finds
  <2>5. m.by_address[conn[d].m_address] = manager.by_address[conn[d].m_address]
    <3>1. manager.by_address[a] # NoUser => manager.by_address[a] = u
      BY <1>4, Zenon DEF EnteredAt
    <3>. QED
      BY <1>4, <2>2, <2>3, <3>1, Zenon
  <2>. QED
    BY <1>4, <2>1, <2>4, <2>5, ZenonT(40)
<1>12. Types(k, m, given)
  BY <1>0, <1>1, <1>4, Zenon DEF Types
<1>13. Rest(k, m, given)
  BY <1>0, <1>5, <1>6, <1>7, <1>9, <1>10, <1>12, Zenon DEF Rest
<1>. QED
  <2>1. m.by_address[a] # NoUser /\ k[c].m_prv_key
    BY <1>1, <1>2, <1>4, <1>b, Zenon
  <2>. QED
    BY <1>11, <1>13, <2>1, Zenon DEF k, m

-----------------------------------------------------------------------------
(* The steps that neither open nor close a connection.                       *)

\* Inductive.
Inv == /\ Rest(conn, manager, given)
       /\ \A d \in Conns : Finds(conn, manager, given, d)
       /\ FlightInv(conn, flight)

(* What holds of the values a handler computes holds after it has stored     *)
(* them.                                                                     *)
LEMMA Assembled ==
    ASSUME NEW k, NEW m, NEW gv, NEW fl,
           Types(k, m, gv), UserInv(k, m), IdInv(m, gv),
           \A d \in Conns : Finds(k, m, gv, d), FlightInv(k, fl),
           (Plain /\ ConnInv(k) /\ HandleInv(k) /\ OpenInv(k))',
           conn' = k, manager' = m, given' = gv, flight' = fl, async' = async
    PROVE  Inv'
<1>1. (Types(k, m, gv) /\ UserInv(k, m) /\ IdInv(m, gv))'
  BY Zenon DEF Types, UserInv, ConnsOfUsers, UsersOfConns, UsersOfAddresses,
         AddressesOfUsers, Makers, Owned, Keeps, Serves, IdInv, Bears, Several
<1>2. (\A d \in Conns : Finds(k, m, gv, d))'
  BY Zenon DEF Finds, Several
<1>3. FlightInv(k, fl)'
  BY Zenon DEF FlightInv
<1>. QED
  BY <1>1, <1>2, <1>3, Zenon DEF Inv, Rest

(* The same for handlers that leave the descriptors alone.                   *)
LEMMA Stored ==
    ASSUME NEW k, NEW m, NEW gv, NEW fl, Rest(k, m, gv),
           \A d \in Conns : Finds(k, m, gv, d), FlightInv(k, fl),
           conn' = k, manager' = m, given' = gv, flight' = fl,
           UNCHANGED <<async, accepted, g_msg_conn_map>>,
           link' \in BOOLEAN, drops' \in 0 .. MaxLinkDrops
    PROVE  Inv'
<1>1. (Plain /\ ConnInv(k) /\ HandleInv(k) /\ OpenInv(k))'
  BY Zenon DEF Rest, Plain, ConnInv, ConnOK, HandleInv, OpenInv
<1>2. Types(k, m, gv) /\ UserInv(k, m) /\ IdInv(m, gv)
  BY Zenon DEF Rest
<1>. QED
  BY <1>1, <1>2, Assembled, Zenon

(* The logins under way are the same while the connections keep the fields   *)
(* they are about.                                                           *)
LEMMA SameFlight ==
    ASSUME NEW k, NEW k2, NEW fl, FlightInv(k, fl), SameAddresses(k, k2),
           \A d \in Conns : k2[d].validated = k[d].validated /\ k2[d].login = k[d].login
    PROVE  FlightInv(k2, fl)
<1>1. fl \subseteq [conn : Conns, handle : Handles, address : Addresses, ok : BOOLEAN]
  BY Zenon DEF FlightInv
<1>2. \A r \in fl : r.conn \in Conns
  BY <1>1, Zenon
<1>. QED
  BY <1>1, <1>2, ZenonT(90) DEF FlightInv, SameAddresses

(* ServerLoginRes keeps the invariant, if the answer is one of the login     *)
(* service for this connection or an earlier one with its descriptor, and    *)
(* the answer is not refused when it is its own.                             *)
LEMMA LoginResStep ==
    ASSUME NEW k, NEW m, NEW fl, NEW c \in Conns, NEW a \in Addresses, NEW ok \in BOOLEAN,
           Rest(k, m, given), FlightInv(k, fl),
           \A d \in Conns \ {c} : Finds(k, m, given, d),
           ok => \/ k[c].validated
                 \/ async /\ \E d \in 1 .. c - 1 :
                                k[d].m_handle = k[c].m_handle /\ k[d].validated,
           ~ (ok /\ m.by_address[a] # NoUser /\ k[c].m_prv_key) => Finds(k, m, given, c),
           ServerLoginRes(c, a, ok, k, m), flight' = fl,
           UNCHANGED <<async, accepted, g_msg_conn_map, link, drops>>
    PROVE  Inv'
<1>0. link' \in BOOLEAN /\ drops' \in 0 .. MaxLinkDrops
  BY Zenon DEF Rest, Plain
<1>1. CASE ok /\ m.by_address[a] # NoUser /\ k[c].m_prv_key
  <2>1. PICK id \in GivenIds(a) :
          /\ conn' = ResConn(k, c, id) /\ manager' = ResManager(m, a, id)
          /\ given' = ResGiven(given, a, id)
    BY <1>1, Zenon DEF ServerLoginRes, ResConn, ResManager, ResGiven
  <2>2. PICK k2, m2, gv, gv2 : /\ k2 = ResConn(k, c, id) /\ m2 = ResManager(m, a, id)
                               /\ gv = given /\ gv2 = ResGiven(gv, a, id)
    BY Zenon
  <2>3. /\ Types(k, m, gv) /\ Plain /\ ConnInv(k) /\ HandleInv(k) /\ UserInv(k, m)
        /\ IdInv(m, gv) /\ OpenInv(k)
    BY <2>2, Zenon DEF Rest
  <2>4. \A d \in Conns \ {c} : Finds(k, m, gv, d)
    BY <2>2, Zenon
  <2>5. /\ Types(k2, m2, gv2)
        /\ ConnInv(k2) /\ HandleInv(k2) /\ UserInv(k2, m2)
        /\ IdInv(m2, gv2) /\ OpenInv(k2)
        /\ \A d \in Conns : Finds(k2, m2, gv2, d)
    BY <1>1, <2>2, <2>3, <2>4, LoginRes, Zenon
  <2>6. /\ SameAddresses(k, k2)
        /\ \A d \in Conns : k2[d].validated = k[d].validated /\ k2[d].login = k[d].login
    BY <2>2, <2>3, ZenonT(90) DEF ResConn, Types, CMsgSrvConn, SameAddresses
  <2>7. FlightInv(k2, fl)
    BY <2>6, SameFlight, ZenonT(40)
  <2>8. Rest(k2, m2, gv2)
    BY <2>3, <2>5, Zenon DEF Rest
  <2>9. conn' = k2 /\ manager' = m2 /\ given' = gv2
    BY <2>1, <2>2, Zenon
  <2>. QED
    BY <1>0, <2>5, <2>7, <2>8, <2>9, Stored, Zenon
<1>2. CASE ~ (ok /\ m.by_address[a] # NoUser /\ k[c].m_prv_key)
  <2>1. conn' = k /\ manager' = m /\ given' = given
    BY <1>2, Zenon DEF ServerLoginRes
  <2>2. PICK gv : gv = given
    BY Zenon
  <2>3. \A d \in Conns : Finds(k, m, gv, d)
    BY <1>2, <2>2, Zenon
  <2>4. Rest(k, m, gv)
    BY <2>2, Zenon
  <2>5. given' = gv
    BY <2>1, <2>2, Zenon
  <2>. QED
    BY <1>0, <2>1, <2>3, <2>4, <2>5, Stored, Zenon
<1>. QED
  BY <1>1, <1>2, Zenon

(* A login, in both modes.                                                   *)
LEMMA AuthLoginReqStep ==
    ASSUME Inv, NEW c \in Conns, NEW a \in Addresses, NEW ok \in BOOLEAN,
           AuthLoginReq(c, a, ok), async' = async, async \in BOOLEAN
    PROVE  Inv'
<1>0. /\ Rest(conn, manager, given) /\ FlightInv(conn, flight)
      /\ \A d \in Conns : Finds(conn, manager, given, d)
      /\ conn[c].status = "live" /\ conn[c].m_address = NoAddress /\ conn[c].m_captcha
      /\ UNCHANGED <<async, accepted, g_msg_conn_map, link, drops>>
      /\ link' \in BOOLEAN /\ drops' \in 0 .. MaxLinkDrops
      /\ conn \in [Conns -> CMsgSrvConn] /\ c \in Conns
      /\ flight \subseteq [conn : Conns, handle : Handles, address : Addresses, ok : BOOLEAN]
      /\ conn[c].m_handle \in Handles
  BY Zenon DEF Inv, AuthLoginReq, Live, Rest, Plain, Types, FlightInv, ConnInv, ConnOK
<1>1. \A r \in flight : r.conn \in Conns \ {c}
  BY <1>0, NamesAssumption, Zenon DEF FlightInv
<1>2. ASSUME NEW login \in {"sent", "answered"}
      PROVE  LET k == LoggingIn(c, a, ok, login)
                 m == WithMsgConn(c, a) IN
             /\ Rest(k, m, given)
             /\ \A d \in Conns \ {c} : Finds(k, m, given, d)
             /\ m.by_address[a] # NoUser /\ k[c].m_prv_key
  BY <1>0, Logging, Zenon
<1>3. ASSUME NEW login \in {"sent", "answered"}
      PROVE  LET k == LoggingIn(c, a, ok, login) IN
             /\ \A d \in Conns \ {c} : k[d] = conn[d]
             /\ k[c].m_address = a /\ k[c].validated = ok /\ k[c].login = login
             /\ k[c].status = "live" /\ k[c].m_handle = conn[c].m_handle
  BY <1>0, LoggingInFacts, SMTT(40)
<1>4. CASE async
  <2>1. PICK k, m, gv, fl :
          /\ k = LoggingIn(c, a, ok, "sent") /\ m = WithMsgConn(c, a) /\ gv = given
          /\ fl = flight \cup {[conn |-> c, handle |-> conn[c].m_handle,
                                address |-> a, ok |-> ok]}
    BY Zenon
  <2>2. conn' = k /\ manager' = m /\ given' = gv /\ flight' = fl
    BY <1>4, <2>1, Zenon DEF AuthLoginReq
  <2>3. Rest(k, m, gv) /\ \A d \in Conns \ {c} : Finds(k, m, gv, d)
    BY <1>2, <2>1, Zenon
  <2>4. /\ \A d \in Conns \ {c} : k[d] = conn[d]
        /\ k[c].m_address = a /\ k[c].validated = ok /\ k[c].login = "sent"
        /\ k[c].status = "live" /\ k[c].m_handle = conn[c].m_handle
    BY <1>3, <2>1, Zenon
  <2>5. Finds(k, m, gv, c)
    BY <2>4, Zenon DEF Finds
  <2>6. FlightInv(k, fl)
    <3>. DEFINE s == [conn |-> c, handle |-> conn[c].m_handle, address |-> a, ok |-> ok]
    <3>1. /\ s \in [conn : Conns, handle : Handles, address : Addresses, ok : BOOLEAN]
          /\ s.conn = c /\ s.handle = conn[c].m_handle /\ s.address = a /\ s.ok = ok
      BY <1>0, Zenon
    <3>2. fl = flight \cup {s}
      BY <2>1, Zenon
    <3>. HIDE DEF s
    <3>3. fl \subseteq [conn : Conns, handle : Handles, address : Addresses, ok : BOOLEAN]
      BY <1>0, <3>1, <3>2, Zenon
    <3>4. \A r \in fl : /\ k[r.conn].status # "new" /\ k[r.conn].m_handle = r.handle
                        /\ k[r.conn].m_address = r.address /\ k[r.conn].validated = r.ok
      BY <1>0, <1>1, <2>4, <3>1, <3>2, SMTT(40) DEF FlightInv
    <3>5. \A d \in Conns : k[d].status = "live" /\ k[d].login = "sent" =>
            \E r \in fl : r.conn = d
      BY <1>0, <2>4, <3>1, <3>2, SMTT(40) DEF FlightInv
    <3>. QED
      BY <1>4, <3>3, <3>4, <3>5, Zenon DEF FlightInv
  <2>7. \A d \in Conns : Finds(k, m, gv, d)
    BY <2>3, <2>5, Zenon
  <2>. QED
    BY <1>0, <2>2, <2>3, <2>6, <2>7, Stored, Zenon
<1>5. CASE ~ async
  <2>1. PICK k, m, fl :
          /\ k = LoggingIn(c, a, ok, "answered") /\ m = WithMsgConn(c, a) /\ fl = flight
    BY Zenon
  <2>2. ServerLoginRes(c, a, ok, k, m) /\ flight' = fl
    BY <1>5, <2>1, Zenon DEF AuthLoginReq
  <2>3. /\ Rest(k, m, given) /\ \A d \in Conns \ {c} : Finds(k, m, given, d)
        /\ m.by_address[a] # NoUser /\ k[c].m_prv_key
    BY <1>2, <2>1, Zenon
  <2>4. /\ \A d \in Conns \ {c} : k[d] = conn[d]
        /\ k[c].m_address = a /\ k[c].validated = ok /\ k[c].login = "answered"
        /\ k[c].status = "live" /\ k[c].m_handle = conn[c].m_handle
    BY <1>3, <2>1, Zenon
  <2>5. FlightInv(k, fl)
    BY <1>0, <1>1, <2>1, <2>4, SMTT(40) DEF FlightInv
  <2>6. /\ ok => k[c].validated
        /\ ~ (ok /\ m.by_address[a] # NoUser /\ k[c].m_prv_key) => Finds(k, m, given, c)
    BY <2>3, <2>4, Zenon DEF Finds
  <2>. QED
    BY <1>0, <2>2, <2>3, <2>5, <2>6, LoginResStep, Zenon
<1>. QED
  BY <1>4, <1>5, Zenon

(* Steps that change only the captcha, the key or the history of a login.    *)
LEMMA SameRest ==
    ASSUME Rest(conn, manager, given), NEW k \in [Conns -> CMsgSrvConn],
           SameAddresses(conn, k), ConnInv(k),
           \A d \in Conns : k[d].validated = conn[d].validated /\ k[d].m_bOpen = conn[d].m_bOpen
    PROVE  Rest(k, manager, given)
<1>1. /\ Types(conn, manager, given) /\ Plain /\ ConnInv(conn) /\ HandleInv(conn)
      /\ UserInv(conn, manager) /\ IdInv(manager, given)
      /\ OpenInv(conn) /\ conn \in [Conns -> CMsgSrvConn] /\ manager \in CImUserManager
  BY Zenon DEF Rest, Types
<1>2. HandleInv(k)
  BY <1>1, SameConns, Zenon
<1>3. UserInv(k, manager)
  BY <1>1, SameUsers, Zenon
<1>4. OpenInv(k)
  <2>1. \A d \in Conns : 1 .. d - 1 \subseteq Conns
    BY NumberFacts DEF Conns
  <2>. QED
    BY <1>1, <2>1, ZenonT(90) DEF OpenInv, SameAddresses
<1>5. Types(k, manager, given)
  BY <1>1, Zenon DEF Types
<1>. QED
  BY <1>1, <1>2, <1>3, <1>4, <1>5, Zenon DEF Rest

(* A captcha.                                                                *)
LEMMA AuthCaptchaReqStep ==
    ASSUME Inv, NEW c \in Conns, AuthCaptchaReq(c), async' = async
    PROVE  Inv'
<1>1. /\ Rest(conn, manager, given) /\ FlightInv(conn, flight)
      /\ \A d \in Conns : Finds(conn, manager, given, d)
      /\ UNCHANGED <<async, accepted, g_msg_conn_map, manager, given, flight, link, drops>>
      /\ link' \in BOOLEAN /\ drops' \in 0 .. MaxLinkDrops
      /\ conn \in [Conns -> CMsgSrvConn] /\ ConnInv(conn)
  BY Zenon DEF Inv, AuthCaptchaReq, Rest, Plain, Types
<1>2. PICK r : r = [conn[c] EXCEPT !.m_captcha = TRUE, !.m_prv_key = TRUE]
  BY Zenon
<1>3. r \in CMsgSrvConn
  <2>1. \A b \in BOOLEAN : [conn[c] EXCEPT !.m_captcha = b, !.m_prv_key = b] \in CMsgSrvConn
    BY <1>1, CaptchaEdit, Zenon
  <2>. QED
    BY <1>2, <2>1, Zenon
<1>4. /\ r.m_prv_key /\ r.status = conn[c].status /\ r.m_handle = conn[c].m_handle
      /\ r.m_address = conn[c].m_address /\ r.validated = conn[c].validated
      /\ r.login = conn[c].login /\ r.m_user_id = conn[c].m_user_id
      /\ r.m_bOpen = conn[c].m_bOpen
  BY <1>1, <1>2, ZenonT(40) DEF CMsgSrvConn
<1>5. PICK k : k = [conn EXCEPT ![c] = r]
  BY Zenon
<1>6. conn' = k
  BY <1>1, <1>2, <1>5, Zenon DEF AuthCaptchaReq
<1>7. k \in [Conns -> CMsgSrvConn] /\ k[c] = r /\ \A d \in Conns \ {c} : k[d] = conn[d]
  BY <1>1, <1>3, <1>5, Zenon
<1>8. SameAddresses(conn, k) /\ ConnInv(k)
  BY <1>1, <1>4, <1>7, SMTT(40) DEF SameAddresses, ConnInv, ConnOK
<1>9. \A d \in Conns : /\ k[d].validated = conn[d].validated /\ k[d].login = conn[d].login
                       /\ k[d].m_bOpen = conn[d].m_bOpen /\ k[d].m_user_id = conn[d].m_user_id
  BY <1>4, <1>7, Zenon
<1>10. Rest(k, manager, given)
  BY <1>1, <1>7, <1>8, <1>9, SameRest, Zenon
<1>11. \A d \in Conns : Finds(k, manager, given, d)
  BY <1>1, <1>8, <1>9, SMTT(40) DEF Finds, SameAddresses
<1>12. FlightInv(k, flight)
  BY <1>1, <1>8, <1>9, SameFlight
<1>13. PICK m, gv, fl : m = manager /\ gv = given /\ fl = flight
  BY Zenon
<1>. QED
  BY <1>1, <1>6, <1>10, <1>11, <1>12, <1>13, Stored, Zenon

(* The link drops with the answers on their way.                             *)
LEMMA LinkDownStep ==
    ASSUME Inv, LinkDown, async' = async
    PROVE  Inv'
<1>1. /\ Rest(conn, manager, given) /\ FlightInv(conn, flight)
      /\ \A d \in Conns : Finds(conn, manager, given, d)
      /\ UNCHANGED <<async, accepted, g_msg_conn_map, manager, given>> /\ flight' = {}
      /\ conn \in [Conns -> CMsgSrvConn] /\ ConnInv(conn) /\ link' \in BOOLEAN
  BY Zenon DEF Inv, LinkDown, Rest, Plain, Types
<1>2. drops' \in 0 .. MaxLinkDrops
  BY BoundsAssumption DEF Inv, LinkDown, Rest, Plain
<1>3. PICK k : k = conn'
  BY Zenon
<1>4. \A d \in Conns : k[d] = IF \E r \in flight : r.conn = d
                              THEN [conn[d] EXCEPT !.login = "lost"] ELSE conn[d]
  BY <1>3, Zenon DEF LinkDown
<1>5. \A d \in Conns : LET x == [conn[d] EXCEPT !.login = "lost"] IN
        /\ x \in CMsgSrvConn /\ x.login = "lost"
        /\ x.status = conn[d].status /\ x.m_handle = conn[d].m_handle
        /\ x.m_address = conn[d].m_address /\ x.validated = conn[d].validated
        /\ x.m_user_id = conn[d].m_user_id /\ x.m_bOpen = conn[d].m_bOpen
        /\ x.m_captcha = conn[d].m_captcha /\ x.m_prv_key = conn[d].m_prv_key
  BY <1>1, ZenonT(40) DEF CMsgSrvConn
<1>6. \A d \in Conns :
        /\ k[d] \in CMsgSrvConn
        /\ k[d].status = conn[d].status /\ k[d].m_handle = conn[d].m_handle
        /\ k[d].m_address = conn[d].m_address /\ k[d].validated = conn[d].validated
        /\ k[d].m_user_id = conn[d].m_user_id /\ k[d].m_bOpen = conn[d].m_bOpen
        /\ k[d].m_captcha = conn[d].m_captcha /\ k[d].m_prv_key = conn[d].m_prv_key
        /\ k[d].login = IF \E r \in flight : r.conn = d THEN "lost" ELSE conn[d].login
  <2>. TAKE d \in Conns
  <2>1. CASE \E r \in flight : r.conn = d
    <3>1. k[d] = [conn[d] EXCEPT !.login = "lost"]
      BY <1>4, <2>1, Zenon
    <3>. QED
      BY <1>5, <2>1, <3>1, ZenonT(40)
  <2>2. CASE ~ \E r \in flight : r.conn = d
    <3>1. k[d] = conn[d]
      BY <1>4, <2>2, Zenon
    <3>. QED
      BY <1>1, <2>2, <3>1, Zenon
  <2>. QED
    BY <2>1, <2>2, Zenon
<1>7. k \in [Conns -> CMsgSrvConn]
  BY <1>3, <1>6, Zenon DEF LinkDown
<1>8. SameAddresses(conn, k)
  BY <1>6, Zenon DEF SameAddresses
<1>9. \A d \in Conns : (\E r \in flight : r.conn = d) => conn[d].m_address # NoAddress
  BY <1>1, NamesAssumption, ZenonT(90) DEF FlightInv
<1>10. ConnInv(k)
  BY <1>1, <1>6, <1>9, SMTT(40) DEF ConnInv, ConnOK
<1>11. Rest(k, manager, given)
  BY <1>1, <1>6, <1>7, <1>8, <1>10, SameRest, Zenon
<1>12. \A d \in Conns : Finds(k, manager, given, d)
  BY <1>1, <1>6, SMTT(40) DEF Finds
<1>13. FlightInv(k, {})
  BY <1>1, <1>6, SMTT(40) DEF FlightInv
<1>14. PICK m, gv : m = manager /\ gv = given
  BY Zenon
<1>. QED
  BY <1>1, <1>2, <1>3, <1>11, <1>12, <1>13, <1>14, Stored, Zenon

(* The answer to a login, whichever connection has the descriptor now.       *)
LEMMA HandlePduStep ==
    ASSUME Inv, NEW r \in flight, HandlePdu(r), async' = async
    PROVE  Inv'
<1>1. /\ Rest(conn, manager, given) /\ FlightInv(conn, flight)
      /\ \A d \in Conns : Finds(conn, manager, given, d)
      /\ UNCHANGED <<async, accepted, g_msg_conn_map, link, drops>>
      /\ flight' = flight \ {r}
      /\ conn \in [Conns -> CMsgSrvConn] /\ ConnInv(conn) /\ HandleInv(conn)
      /\ UserInv(conn, manager) /\ link' \in BOOLEAN /\ drops' \in 0 .. MaxLinkDrops
      /\ g_msg_conn_map \in [Handles -> Conns \cup {NoConn}]
  BY Zenon DEF Inv, HandlePdu, Rest, Plain, Types
<1>2. /\ r.conn \in Conns /\ r.handle \in Handles /\ r.address \in Addresses
      /\ r.ok \in BOOLEAN /\ async /\ conn[r.conn].status # "new"
      /\ conn[r.conn].m_handle = r.handle /\ conn[r.conn].m_address = r.address
      /\ conn[r.conn].validated = r.ok
  BY <1>1, Zenon DEF FlightInv
<1>3. conn[r.conn].status = "live" => g_msg_conn_map[r.handle] = r.conn
  BY <1>1, <1>2, ZenonT(40) DEF HandleInv
<1>4. CASE g_msg_conn_map[r.handle] = NoConn
  <2>1. UNCHANGED <<conn, manager, given>>
    BY <1>4, Zenon DEF HandlePdu
  <2>2. FlightInv(conn, flight \ {r})
    BY <1>1, <1>2, <1>3, <1>4, NumberFacts, Zenon DEF FlightInv
  <2>3. PICK k, m, gv, fl : k = conn /\ m = manager /\ gv = given /\ fl = flight \ {r}
    BY Zenon
  <2>. QED
    BY <1>1, <2>1, <2>2, <2>3, Stored, Zenon
<1>5. CASE g_msg_conn_map[r.handle] # NoConn
  <2>1. PICK c : c = g_msg_conn_map[r.handle]
    BY Zenon
  <2>2. c \in Conns /\ conn[c].status = "live" /\ conn[c].m_handle = r.handle
    BY <1>1, <1>2, <1>5, <2>1, Zenon DEF HandleInv
  <2>3. PICK lg : lg = IF c = r.conn THEN "answered" ELSE conn[c].login
    BY Zenon
  <2>4. lg \in {"none", "sent", "answered", "lost"}
    BY <1>1, <2>2, <2>3, Zenon DEF CMsgSrvConn
  <2>5. PICK x : x = [conn[c] EXCEPT !.login = lg]
    BY Zenon
  <2>6. /\ x \in CMsgSrvConn /\ x.login = lg
        /\ x.status = conn[c].status /\ x.m_handle = conn[c].m_handle
        /\ x.m_address = conn[c].m_address /\ x.validated = conn[c].validated
        /\ x.m_user_id = conn[c].m_user_id /\ x.m_bOpen = conn[c].m_bOpen
        /\ x.m_captcha = conn[c].m_captcha /\ x.m_prv_key = conn[c].m_prv_key
    BY <1>1, <2>2, <2>4, <2>5, Zenon DEF CMsgSrvConn
  <2>7. PICK k, m, fl : k = [conn EXCEPT ![c] = x] /\ m = manager /\ fl = flight \ {r}
    BY Zenon
  <2>8. /\ k \in [Conns -> CMsgSrvConn] /\ k[c] = x
        /\ \A d \in Conns \ {c} : k[d] = conn[d]
    BY <1>1, <2>2, <2>6, <2>7, Zenon
  <2>9. /\ ServerLoginRes(c, r.address, r.ok, k, m) /\ flight' = fl
    BY <1>1, <1>5, <2>1, <2>3, <2>5, <2>7, Zenon DEF HandlePdu
  <2>10. SameAddresses(conn, k)
    BY <2>6, <2>8, Zenon DEF SameAddresses
  <2>11. c = r.conn => conn[c].m_address \in Addresses /\ conn[c].m_address # NoAddress
    BY <1>2, NamesAssumption, Zenon
  <2>12. ConnInv(k)
    BY <1>1, <2>3, <2>6, <2>8, <2>11, SMTT(40) DEF ConnInv, ConnOK
  <2>13. \A d \in Conns : k[d].validated = conn[d].validated /\ k[d].m_bOpen = conn[d].m_bOpen
    BY <2>6, <2>8, Zenon
  <2>14. Rest(k, m, given)
    BY <1>1, <2>7, <2>8, <2>10, <2>12, <2>13, SameRest, Zenon
  <2>15. \A d \in Conns \ {c} : Finds(k, m, given, d)
    BY <1>1, <2>7, <2>8, Zenon DEF Finds
  <2>16. r.ok => \/ k[c].validated
                 \/ async /\ \E d \in 1 .. c - 1 :
                                k[d].m_handle = k[c].m_handle /\ k[d].validated
    <3>1. CASE c = r.conn
      BY <1>2, <2>2, <2>13, <3>1, Zenon
    <3>2. CASE c # r.conn
      <4>1. r.conn <= c
        BY <1>1, <1>2, <2>2, Zenon DEF HandleInv
      <4>2. r.conn \in 1 .. c - 1
        BY <1>2, <2>2, <3>2, <4>1, NumberFacts
      <4>3. r.ok => k[r.conn].m_handle = k[c].m_handle /\ k[r.conn].validated
        BY <1>2, <2>2, <2>6, <2>8, <3>2, Zenon
      <4>. QED
        BY <1>2, <4>2, <4>3, Zenon
    <3>. QED
      BY <3>1, <3>2, Zenon
  <2>17. ~ (r.ok /\ m.by_address[r.address] # NoUser /\ k[c].m_prv_key)
         => Finds(k, m, given, c)
    <3>1. CASE c # r.conn
      <4>1. lg = conn[c].login /\ Finds(conn, manager, given, c)
        BY <1>1, <2>2, <2>3, <3>1, Zenon
      <4>. QED
        BY <2>6, <2>7, <2>8, <4>1, SMTT(40) DEF Finds
    <3>2. CASE c = r.conn
      <4>1. manager.by_address[r.address] # NoUser
        <5>1. Keeps(manager, manager.by_address[r.address], conn[c].m_handle, c)
          BY <1>1, <1>2, <2>2, <2>11, <3>2, Zenon DEF UserInv, UsersOfConns
        <5>. QED
          BY <5>1, Zenon DEF Keeps
      <4>2. k[c].m_prv_key
        BY <2>2, <2>6, <2>8, <2>11, <2>12, <3>2, Zenon DEF ConnInv, ConnOK
      <4>3. ~ r.ok => ~ k[c].validated
        BY <1>2, <2>6, <2>8, <3>2, Zenon
      <4>. QED
        BY <2>7, <4>1, <4>2, <4>3, Zenon DEF Finds
    <3>. QED
      BY <3>1, <3>2, Zenon
  <2>18. FlightInv(k, fl)
    <3>1. /\ fl \subseteq [conn : Conns, handle : Handles, address : Addresses, ok : BOOLEAN]
          /\ fl # {} => async
      BY <1>1, <2>7, Zenon DEF FlightInv
    <3>2. \A s \in fl : /\ k[s.conn].status # "new" /\ k[s.conn].m_handle = s.handle
                        /\ k[s.conn].m_address = s.address /\ k[s.conn].validated = s.ok
      <4>1. \A s \in fl : s.conn \in Conns /\ s \in flight
        BY <2>7, <3>1, Zenon
      <4>. QED
        BY <1>1, <2>10, <2>13, <4>1, ZenonT(40) DEF FlightInv, SameAddresses
    <3>3. ASSUME NEW d \in Conns, k[d].status = "live", k[d].login = "sent"
          PROVE  \E s \in fl : s.conn = d
      <4>1. conn[d].status = "live" /\ d # r.conn
        BY <1>3, <2>1, <2>3, <2>6, <2>8, <2>10, <3>3, ZenonT(40) DEF SameAddresses
      <4>2. conn[d].login = "sent"
        BY <2>3, <2>6, <2>8, <3>3, <4>1, Zenon
      <4>3. PICK s \in flight : s.conn = d
        BY <1>1, <4>1, <4>2, Zenon DEF FlightInv
      <4>. QED
        BY <2>7, <4>1, <4>3, Zenon
    <3>. QED
      BY <3>1, <3>2, <3>3, Zenon DEF FlightInv
  <2>. QED
    BY <1>1, <1>2, <2>2, <2>9, <2>14, <2>15, <2>16, <2>17, <2>18, LoginResStep, ZenonT(40)
<1>. QED
  BY <1>4, <1>5, Zenon

-----------------------------------------------------------------------------
(* Closing a connection.                                                     *)

\* The connections k after Close(c).
ClosedConn(k, c) ==
    /\ k \in [Conns -> CMsgSrvConn] /\ \A d \in Conns \ {c} : k[d] = conn[d]
    /\ k[c].status = "closed"
    /\ k[c].m_handle = conn[c].m_handle /\ k[c].m_address = conn[c].m_address
    /\ k[c].validated = conn[c].validated /\ k[c].m_bOpen = conn[c].m_bOpen
    /\ k[c].m_captcha = conn[c].m_captcha /\ k[c].m_prv_key = conn[c].m_prv_key
    /\ k[c].login = conn[c].login

\* The manager m after the connection with descriptor h has left its user u, of
\* address a, ...
LeftElsewhere(m, u, a) ==
    /\ m \in CImUserManager
    /\ \A b \in Addresses \ {a} : m.by_address[b] = manager.by_address[b]
    /\ \A v \in Users \ {u} :
         /\ m.user[v].live = manager.user[v].live
         /\ m.user[v].m_address = manager.user[v].m_address
         /\ m.user[v].m_user_id = manager.user[v].m_user_id
         /\ \A g \in Handles : m.user[v].m_conn_map[g] = manager.user[v].m_conn_map[g]
\* ... which has others, ...
LeftOthers(m, u, a, h) ==
    /\ m.by_address[a] = u /\ m.by_id = manager.by_id
    /\ m.user[u].live /\ m.user[u].m_address = a
    /\ m.user[u].m_user_id = manager.user[u].m_user_id
    /\ m.user[u].m_conn_map[h] = NoConn
    /\ \A g \in Handles \ {h} : m.user[u].m_conn_map[g] = manager.user[u].m_conn_map[g]
    /\ \E g \in Handles : m.user[u].m_conn_map[g] # NoConn
\* ... or goes.
LeftNobody(m, u, a, h) ==
    /\ m.by_address[a] = NoUser /\ ~ m.user[u].live
    /\ \A i \in Ids : m.by_id[i] = IF i = manager.user[u].m_user_id THEN NoUser
                                   ELSE manager.by_id[i]
    /\ \A g \in Handles \ {h} : manager.user[u].m_conn_map[g] = NoConn

(* What Close makes of the users.                                            *)
LEMMA CloseManager ==
    ASSUME Rest(conn, manager, given), NEW c \in Conns, conn[c].status = "live",
           conn[c].m_address # NoAddress, Close(c)
    PROVE  LET a == conn[c].m_address
               h == conn[c].m_handle
               u == manager.by_address[a] IN
           /\ a \in Addresses /\ h \in Handles /\ u \in Users
           /\ manager.user[u].live /\ manager.user[u].m_address = a
           /\ \E m : /\ manager' = m /\ LeftElsewhere(m, u, a)
                     /\ LeftOthers(m, u, a, h) \/ LeftNobody(m, u, a, h)
<1>. DEFINE a == conn[c].m_address
            h == conn[c].m_handle
            u == manager.by_address[a]
            m1 == AddMsgConn(manager, u, h, NoConn)
<1>1. /\ a \in Addresses /\ h \in Handles /\ u \in Users \cup {NoUser}
      /\ manager \in CImUserManager
  BY Zenon DEF Rest, Types, CMsgSrvConn, ConnInv, ConnOK, CImUserManager
<1>2. u # NoUser
  <2>1. Keeps(manager, u, h, c)
    BY Zenon DEF Rest, UserInv, UsersOfConns
  <2>. HIDE DEF u
  <2>. QED
    BY <2>1, Zenon DEF Keeps
<1>3. u \in Users /\ manager.user[u].live /\ manager.user[u].m_address = a
  <2>1. Serves(manager, u, a)
    BY <1>1, <1>2, Zenon DEF Rest, UserInv, UsersOfAddresses
  <2>. HIDE DEF u, a
  <2>. QED
    BY <1>1, <1>2, <2>1, Zenon DEF Serves
<1>4. manager' = IF IsMsgConnEmpty(m1, u) THEN RemoveImUser(m1, u) ELSE m1
  BY <1>2, Zenon DEF Close, DelMsgConn, AddMsgConn
<1>. HIDE DEF a, h, u
<1>5. /\ m1 \in CImUserManager
      /\ m1.by_address = manager.by_address
      /\ m1.by_id = manager.by_id
      /\ \A v \in Users :
           /\ m1.user[v].live = manager.user[v].live
           /\ m1.user[v].m_address = manager.user[v].m_address
           /\ m1.user[v].m_user_id = manager.user[v].m_user_id
      /\ \A v \in Users : \A g \in Handles :
           m1.user[v].m_conn_map[g] = IF v = u /\ g = h THEN NoConn
                                     ELSE manager.user[v].m_conn_map[g]
  <2>1. NoConn \in Conns \cup {NoConn}
    BY Zenon
  <2>. QED
    BY <1>1, <1>3, <2>1, MsgConnEdit, SMTT(40)
<1>. HIDE DEF m1
<1>6. \E m : /\ manager' = m /\ LeftElsewhere(m, u, a)
             /\ LeftOthers(m, u, a, h) \/ LeftNobody(m, u, a, h)
  <2>1. CASE ~ IsMsgConnEmpty(m1, u)
    <3>1. \E g \in Handles : m1.user[u].m_conn_map[g] # NoConn
      BY <2>1, Zenon DEF IsMsgConnEmpty
    <3>2. manager' = m1
      BY <1>4, <2>1, Zenon
    <3>3. LeftElsewhere(m1, u, a)
      BY <1>5, Zenon DEF LeftElsewhere
    <3>4. LeftOthers(m1, u, a, h)
      <4>1. m1.by_address[a] = u
        BY <1>5, Zenon DEF u
      <4>. QED
        BY <1>1, <1>3, <1>5, <3>1, <4>1, SMTT(40) DEF LeftOthers
    <3>. QED
      BY <3>2, <3>3, <3>4, Zenon
  <2>2. CASE IsMsgConnEmpty(m1, u)
    <3>1. PICK m : m = RemoveImUser(m1, u)
      BY Zenon
    <3>2. m1.user[u].m_address = a /\ m1.user[u].m_user_id = manager.user[u].m_user_id
      BY <1>3, <1>5, Zenon
    <3>3. /\ m \in CImUserManager
          /\ \A b \in Addresses : m.by_address[b] =
               IF b = m1.user[u].m_address THEN NoUser ELSE m1.by_address[b]
          /\ \A i \in Ids : m.by_id[i] =
               IF i = m1.user[u].m_user_id THEN NoUser ELSE m1.by_id[i]
          /\ \A v \in Users \ {u} : m.user[v] = m1.user[v]
          /\ m.user[u].live = FALSE
      <4>1. m1 \in CImUserManager /\ u \in Users /\ m1.user[u].m_address \in Addresses
        BY <1>1, <1>3, <1>5, <3>2, Zenon
      <4>2. /\ RemoveImUser(m1, u) \in CImUserManager
            /\ \A b \in Addresses : RemoveImUser(m1, u).by_address[b] =
                 IF b = m1.user[u].m_address THEN NoUser ELSE m1.by_address[b]
            /\ \A i \in Ids : RemoveImUser(m1, u).by_id[i] =
                 IF i = m1.user[u].m_user_id THEN NoUser ELSE m1.by_id[i]
            /\ \A v \in Users \ {u} : RemoveImUser(m1, u).user[v] = m1.user[v]
            /\ RemoveImUser(m1, u).user[u].live = FALSE
        BY <4>1, RemoveFacts, ZenonT(60)
      <4>. QED
        BY <3>1, <4>2, Zenon
    <3>4. manager' = m
      BY <1>4, <2>2, <3>1, Zenon
    <3>5. LeftElsewhere(m, u, a)
      BY <1>5, <3>2, <3>3, SMTT(40) DEF LeftElsewhere
    <3>6. LeftNobody(m, u, a, h)
      <4>1. \A g \in Handles \ {h} : manager.user[u].m_conn_map[g] = NoConn
        BY <1>3, <1>5, <2>2, Zenon DEF IsMsgConnEmpty
      <4>2. m.by_address[a] = NoUser /\ ~ m.user[u].live
        BY <1>1, <3>2, <3>3, Zenon
      <4>3. \A i \in Ids : m.by_id[i] = IF i = manager.user[u].m_user_id THEN NoUser
                                        ELSE manager.by_id[i]
        BY <1>5, <3>2, <3>3, SMTT(40)
      <4>. QED
        BY <4>1, <4>2, <4>3, Zenon DEF LeftNobody
    <3>. QED
      BY <3>4, <3>5, <3>6, Zenon
  <2>. QED
    BY <2>1, <2>2, Zenon
<1>. QED
  BY <1>1, <1>3, <1>6, Zenon DEF a, h, u

(* The users are in order without the connection.                            *)
LEMMA CloseUsers ==
    ASSUME Rest(conn, manager, given), NEW c \in Conns, conn[c].status = "live",
           NEW k, NEW m, NEW u \in Users, NEW a \in Addresses, NEW h \in Handles,
           conn[c].m_address = a, conn[c].m_handle = h, manager.by_address[a] = u,
           manager.user[u].live, manager.user[u].m_address = a,
           ClosedConn(k, c), LeftElsewhere(m, u, a),
           LeftOthers(m, u, a, h) \/ LeftNobody(m, u, a, h)
    PROVE  UserInv(k, m)
<1>1. /\ manager \in CImUserManager /\ m \in CImUserManager /\ conn \in [Conns -> CMsgSrvConn]
      /\ ConnsOfUsers(conn, manager) /\ UsersOfConns(conn, manager)
      /\ UsersOfAddresses(manager) /\ AddressesOfUsers(manager) /\ Makers(conn, manager)
      /\ HandleInv(conn) /\ ConnInv(conn)
  BY Zenon DEF Rest, Types, UserInv, LeftElsewhere
<1>2. \A v \in Users : \A g \in Handles :
        manager.user[v].m_conn_map[g] \in Conns \cup {NoConn}
  BY <1>1, SMTT(40) DEF CImUserManager, CImUser
<1>3. \A d \in Conns \ {c} : k[d] = conn[d]
  BY Zenon DEF ClosedConn
\* Only its own user had it.
<1>4. ASSUME NEW v \in Users, NEW g \in Handles, manager.user[v].live,
             manager.user[v].m_conn_map[g] = c
      PROVE  v = u /\ g = h
  <2>1. Owned(conn, c, g, manager.user[v].m_address)
    BY <1>1, <1>4, NumberFacts, Zenon DEF ConnsOfUsers
  <2>2. manager.by_address[manager.user[v].m_address] = v
    BY <1>1, <1>4, Zenon DEF AddressesOfUsers
  <2>. QED
    BY <2>1, <2>2, Zenon DEF Owned
<1>5. ASSUME NEW b \in Addresses \ {a}, manager.by_address[b] # NoUser
      PROVE  /\ manager.by_address[b] \in Users \ {u}
             /\ m.by_address[b] = manager.by_address[b]
  <2>1. PICK v \in Users : v = manager.by_address[b]
    BY <1>1, <1>5, Zenon DEF CImUserManager
  <2>2. Serves(manager, v, b)
    BY <1>1, <1>5, <2>1, Zenon DEF UsersOfAddresses
  <2>3. v # u
    BY <2>2, Zenon DEF Serves
  <2>4. m.by_address[b] = manager.by_address[b]
    BY Zenon DEF LeftElsewhere
  <2>. QED
    BY <2>1, <2>3, <2>4, Zenon
<1>6. ConnsOfUsers(k, m)
  <2>. SUFFICES ASSUME NEW v \in Users, NEW g \in Handles, m.user[v].live,
                       m.user[v].m_conn_map[g] # NoConn
                PROVE  Owned(k, m.user[v].m_conn_map[g], g, m.user[v].m_address)
    BY Zenon DEF ConnsOfUsers
  <2>1. /\ ~ (v = u /\ g = h) /\ manager.user[v].live
        /\ m.user[v].m_conn_map[g] = manager.user[v].m_conn_map[g]
        /\ m.user[v].m_address = manager.user[v].m_address
    <3>1. CASE v # u
      BY <3>1, ZenonT(90) DEF LeftElsewhere
    <3>2. CASE v = u
      <4>1. LeftOthers(m, u, a, h)
        BY <3>2, Zenon DEF LeftNobody
      <4>. QED
        BY <3>2, <4>1, Zenon DEF LeftOthers
    <3>. QED
      BY <3>1, <3>2, Zenon
  <2>2. PICK e \in Conns \ {c} : e = manager.user[v].m_conn_map[g]
    BY <1>2, <1>4, <2>1, Zenon
  <2>3. PICK b : b = manager.user[v].m_address
    BY Zenon
  <2>4. Owned(conn, e, g, b)
    BY <1>1, <2>1, <2>2, <2>3, NumberFacts, Zenon DEF ConnsOfUsers
  <2>5. Owned(k, e, g, b)
    BY <1>3, <2>4, Zenon DEF Owned
  <2>. QED
    BY <2>1, <2>2, <2>3, <2>5, Zenon
<1>7. UsersOfConns(k, m)
  <2>. SUFFICES ASSUME NEW e \in Conns, k[e].status = "live", k[e].m_address # NoAddress
                PROVE  Keeps(m, m.by_address[k[e].m_address], k[e].m_handle, e)
    BY Zenon DEF UsersOfConns
  <2>1. e # c /\ k[e] = conn[e]
    BY <1>3, Zenon DEF ClosedConn
  <2>2. PICK b \in Addresses, g \in Handles : b = conn[e].m_address /\ g = conn[e].m_handle
    <3>1. conn[e].m_address \in Addresses
      BY <1>1, <2>1, ZenonT(90) DEF CMsgSrvConn
    <3>2. conn[e].m_handle \in Handles
      BY <1>1, <2>1, Zenon DEF ConnInv, ConnOK
    <3>. QED
      BY <3>1, <3>2, Zenon
  <2>3. Keeps(manager, manager.by_address[b], g, e)
    BY <1>1, <2>1, <2>2, Zenon DEF UsersOfConns
  <2>4. manager.by_address[b] # NoUser
    BY <2>3, Zenon DEF Keeps
  <2>5. Keeps(m, m.by_address[b], g, e)
    <3>1. CASE b = a
      <4>1. g # h
        BY <1>1, <2>1, <2>2, SMTT(40) DEF HandleInv
      <4>2. manager.user[u].m_conn_map[g] = e
        BY <2>3, <3>1, Zenon DEF Keeps
      <4>3. LeftOthers(m, u, a, h)
        BY <4>1, <4>2, NumberFacts, ZenonT(40) DEF LeftNobody
      <4>4. m.user[u].m_conn_map[g] = e /\ m.by_address[a] = u
        BY <4>1, <4>2, <4>3, Zenon DEF LeftOthers
      <4>. QED
        BY <3>1, <4>4, NumberFacts, Zenon DEF Keeps
    <3>2. CASE b # a
      <4>1. PICK v \in Users \ {u} : v = manager.by_address[b] /\ v = m.by_address[b]
        BY <1>5, <2>4, <3>2, Zenon
      <4>2. m.user[v].m_conn_map[g] = manager.user[v].m_conn_map[g]
        BY Zenon DEF LeftElsewhere
      <4>3. Keeps(m, v, g, e)
        BY <2>3, <4>1, <4>2, Zenon DEF Keeps
      <4>. QED
        BY <4>1, <4>3, Zenon
    <3>. QED
      BY <3>1, <3>2, Zenon
  <2>. QED
    BY <2>1, <2>2, <2>5, Zenon
<1>8. UsersOfAddresses(m)
  <2>. SUFFICES ASSUME NEW b \in Addresses, m.by_address[b] # NoUser
                PROVE  Serves(m, m.by_address[b], b)
    BY Zenon DEF UsersOfAddresses
  <2>1. CASE b = a
    <3>1. LeftOthers(m, u, a, h)
      BY <2>1, Zenon DEF LeftNobody
    <3>2. Serves(m, u, a) /\ m.by_address[a] = u
      BY <3>1, Zenon DEF LeftOthers, Serves
    <3>. QED
      BY <2>1, <3>2, Zenon
  <2>2. CASE b # a
    <3>1. manager.by_address[b] # NoUser
      BY <2>2, Zenon DEF LeftElsewhere
    <3>2. PICK v \in Users \ {u} : v = manager.by_address[b] /\ v = m.by_address[b]
      BY <1>5, <2>2, <3>1, Zenon
    <3>3. Serves(manager, v, b)
      BY <1>1, <3>1, <3>2, Zenon DEF UsersOfAddresses
    <3>4. Serves(m, v, b)
      BY <3>3, ZenonT(90) DEF LeftElsewhere, Serves
    <3>. QED
      BY <3>2, <3>4, Zenon
  <2>. QED
    BY <2>1, <2>2, Zenon
<1>9. AddressesOfUsers(m)
  <2>. SUFFICES ASSUME NEW v \in Users, m.user[v].live
                PROVE  /\ m.user[v].m_address \in Addresses
                       /\ m.by_address[m.user[v].m_address] = v
    BY Zenon DEF AddressesOfUsers
  <2>1. CASE v = u
    <3>1. LeftOthers(m, u, a, h)
      BY <2>1, Zenon DEF LeftNobody
    <3>. QED
      BY <2>1, <3>1, Zenon DEF LeftOthers
  <2>2. CASE v # u
    <3>1. manager.user[v].live /\ m.user[v].m_address = manager.user[v].m_address
      BY <2>2, Zenon DEF LeftElsewhere
    <3>2. /\ manager.user[v].m_address \in Addresses
          /\ manager.by_address[manager.user[v].m_address] = v
      BY <1>1, <3>1, Zenon DEF AddressesOfUsers
    <3>3. manager.user[v].m_address # a
      BY <2>2, <3>2, Zenon
    <3>. QED
      <4>. PICK b \in Addresses \ {a} : b = manager.user[v].m_address
        BY <3>2, <3>3, Zenon
      <4>1. m.by_address[b] = manager.by_address[b]
        BY Zenon DEF LeftElsewhere
      <4>. QED
        BY <3>1, <3>2, <4>1, Zenon
  <2>. QED
    BY <2>1, <2>2, Zenon
<1>10. Makers(k, m)
  <2>. SUFFICES ASSUME NEW v \in Users, m.user[v].live
                PROVE  k[v].m_address # NoAddress
    BY Zenon DEF Makers
  <2>1. manager.user[v].live
    <3>1. CASE v = u
      BY <3>1, Zenon
    <3>2. CASE v # u
      BY <3>2, Zenon DEF LeftElsewhere
    <3>. QED
      BY <3>1, <3>2, Zenon
  <2>2. v \in Conns /\ k[v].m_address = conn[v].m_address
    BY <1>3, Zenon DEF ClosedConn, Users
  <2>. QED
    BY <1>1, <2>1, <2>2, Zenon DEF Makers
<1>. QED
  BY <1>6, <1>7, <1>8, <1>9, <1>10, Zenon DEF UserInv

(* The ids of the other users lead to them still.                            *)
LEMMA CloseIds ==
    ASSUME Rest(conn, manager, given), NEW m, NEW u \in Users, NEW a \in Addresses,
           NEW h \in Handles, manager.user[u].live, manager.user[u].m_address = a,
           LeftElsewhere(m, u, a), LeftOthers(m, u, a, h) \/ LeftNobody(m, u, a, h)
    PROVE  IdInv(m, given)
<1>1. IdInv(manager, given) /\ manager \in CImUserManager
  BY Zenon DEF Rest, Types
<1>2. \A i \in Ids : manager.by_id[i] \in Users \cup {NoUser}
  BY <1>1, Zenon DEF CImUserManager
<1>3. ASSUME NEW v \in Users, m.user[v].live
      PROVE  /\ manager.user[v].live /\ m.user[v].m_address = manager.user[v].m_address
             /\ m.user[v].m_user_id = manager.user[v].m_user_id
  <2>1. CASE v = u
    BY <1>3, <2>1, Zenon DEF LeftOthers, LeftNobody
  <2>2. CASE v # u
    BY <1>3, <2>2, Zenon DEF LeftElsewhere
  <2>. QED
    BY <2>1, <2>2, Zenon
<1>4. \A v \in Users : m.user[v].live =>
        m.user[v].m_user_id = NoId \/ m.user[v].m_user_id \in given[m.user[v].m_address]
  BY <1>1, <1>3, Zenon DEF IdInv
<1>5. ASSUME NEW i \in Ids \ {ErrorId}, m.by_id[i] # NoUser
      PROVE  i \in given[i[1]] /\ (Several(given[i[1]]) \/ Bears(m, m.by_id[i], i))
  <2>1. /\ m.by_id[i] = manager.by_id[i]
        /\ LeftOthers(m, u, a, h) \/ manager.user[u].m_user_id # i
    BY <1>5, Zenon DEF LeftOthers, LeftNobody
  <2>2. PICK v \in Users : v = m.by_id[i] /\ v = manager.by_id[i]
    BY <1>2, <1>5, <2>1, Zenon
  <2>3. i \in given[i[1]] /\ (Several(given[i[1]]) \/ Bears(manager, v, i))
    BY <1>1, <1>5, <2>1, <2>2, Zenon DEF IdInv
  <2>4. Bears(manager, v, i) => Bears(m, v, i)
    <3>1. CASE v = u
      BY <2>1, <3>1, Zenon DEF LeftOthers, Bears
    <3>2. CASE v # u
      BY <3>2, Zenon DEF LeftElsewhere, Bears
    <3>. QED
      BY <3>1, <3>2, Zenon
  <2>. QED
    BY <2>2, <2>3, <2>4, Zenon
<1>6. \A b \in Addresses : given[b] \subseteq GivenIds(b)
  BY <1>1, Zenon DEF IdInv
<1>. QED
  BY <1>4, <1>5, <1>6, Zenon DEF IdInv

(* The other connections are found under their ids still.                    *)
LEMMA CloseFinds ==
    ASSUME Rest(conn, manager, given), \A e \in Conns : Finds(conn, manager, given, e),
           NEW c \in Conns, conn[c].status = "live",
           NEW k, NEW m, NEW u \in Users, NEW a \in Addresses, NEW h \in Handles,
           conn[c].m_address = a, conn[c].m_handle = h, manager.by_address[a] = u,
           manager.user[u].live, manager.user[u].m_address = a,
           ClosedConn(k, c), LeftElsewhere(m, u, a),
           LeftOthers(m, u, a, h) \/ LeftNobody(m, u, a, h),
           NEW d \in Conns
    PROVE  Finds(k, m, given, d)
<1>. SUFFICES ASSUME k[d].status = "live", k[d].validated, k[d].login = "answered",
                     k[d].m_user_id[1] = k[d].m_address
              PROVE  \/ Several(given[k[d].m_address])
                     \/ m.by_id[k[d].m_user_id] = m.by_address[k[d].m_address]
  BY Zenon DEF Finds
<1>1. d # c /\ k[d] = conn[d]
  BY Zenon DEF ClosedConn
<1>2. /\ ConnInv(conn) /\ HandleInv(conn) /\ UsersOfConns(conn, manager)
      /\ IdInv(manager, given) /\ conn \in [Conns -> CMsgSrvConn]
  BY Zenon DEF Rest, UserInv, Types
<1>3. /\ conn[d].m_address \in Addresses /\ conn[d].m_address # NoAddress
      /\ conn[d].m_handle \in Handles /\ conn[d].m_user_id \in Ids \cup {NoId}
      /\ conn[d].m_handle # h
  <2>1. conn[d] \in CMsgSrvConn /\ ConnOK(conn, d) /\ conn[d].status = "live"
        /\ conn[d].validated
    BY <1>1, <1>2, Zenon DEF ConnInv
  <2>2. conn[d].m_address # NoAddress /\ conn[d].m_handle \in Handles
    BY <2>1, Zenon DEF ConnOK
  <2>3. /\ conn[d].m_address \in Addresses \cup {NoAddress}
        /\ conn[d].m_user_id \in Ids \cup {NoId}
    BY <2>1, Zenon DEF CMsgSrvConn
  <2>4. g_msg_conn_map[conn[d].m_handle] = d /\ g_msg_conn_map[conn[c].m_handle] = c
    BY <1>2, <2>1, Zenon DEF HandleInv
  <2>. QED
    BY <1>1, <2>2, <2>3, <2>4, Zenon
<1>4. \/ Several(given[conn[d].m_address])
      \/ manager.by_id[conn[d].m_user_id] = manager.by_address[conn[d].m_address]
  BY <1>1, Zenon DEF Finds
<1>5. CASE LeftOthers(m, u, a, h)
  <2>1. m.by_address[conn[d].m_address] = manager.by_address[conn[d].m_address]
    <3>1. CASE conn[d].m_address = a
      BY <1>5, <3>1, Zenon DEF LeftOthers
    <3>2. CASE conn[d].m_address # a
      BY <1>3, <3>2, Zenon DEF LeftElsewhere
    <3>. QED
      BY <3>1, <3>2, Zenon
  <2>2. m.by_id[conn[d].m_user_id] = manager.by_id[conn[d].m_user_id]
    BY <1>5, Zenon DEF LeftOthers
  <2>. QED
    BY <1>1, <1>4, <2>1, <2>2, Zenon
<1>6. CASE LeftNobody(m, u, a, h)
  <2>1. conn[d].m_address # a
    <3>. SUFFICES ASSUME conn[d].m_address = a PROVE FALSE
      BY Zenon
    <3>1. Keeps(manager, u, conn[d].m_handle, d)
      BY <1>1, <1>2, <1>3, Zenon DEF UsersOfConns
    <3>2. manager.user[u].m_conn_map[conn[d].m_handle] = NoConn
      BY <1>3, <1>6, Zenon DEF LeftNobody
    <3>. QED
      BY <3>1, <3>2, NumberFacts, Zenon DEF Keeps
  <2>2. m.by_address[conn[d].m_address] = manager.by_address[conn[d].m_address]
    BY <1>3, <2>1, Zenon DEF LeftElsewhere
  <2>3. conn[d].m_user_id \in Ids /\ conn[d].m_user_id[1] = conn[d].m_address
    <3>1. conn[d].m_user_id[1] = conn[d].m_address
      BY <1>1, Zenon
    <3>2. conn[d].m_user_id # NoId
      BY <1>3, <3>1, IdFacts, Zenon
    <3>. QED
      BY <1>3, <3>1, <3>2, Zenon
  <2>4. manager.user[u].m_user_id[1] \in {a, NoAddress}
    <3>1. manager.user[u].m_user_id = NoId \/ manager.user[u].m_user_id \in GivenIds(a)
      BY <1>2, Zenon DEF IdInv
    <3>. QED
      BY <3>1, IdFacts, Zenon
  <2>5. m.by_id[conn[d].m_user_id] = manager.by_id[conn[d].m_user_id]
    <3>1. conn[d].m_user_id # manager.user[u].m_user_id
      BY <1>3, <2>1, <2>3, <2>4, Zenon
    <3>. QED
      BY <1>6, <2>3, <3>1, Zenon DEF LeftNobody
  <2>. QED
    BY <1>1, <1>4, <2>2, <2>5, ZenonT(40)
<1>. QED
  BY <1>5, <1>6, Zenon

(* A client goes away.                                                       *)
LEMMA OnCloseStep ==
    ASSUME Inv, NEW c \in Conns, OnClose(c), async' = async
    PROVE  Inv'
<1>1. /\ Rest(conn, manager, given) /\ FlightInv(conn, flight)
      /\ \A d \in Conns : Finds(conn, manager, given, d)
      /\ Types(conn, manager, given) /\ Plain /\ ConnInv(conn) /\ HandleInv(conn)
      /\ UserInv(conn, manager) /\ IdInv(manager, given)
      /\ OpenInv(conn) /\ conn \in [Conns -> CMsgSrvConn]
  BY Zenon DEF Inv, Rest, Types
<1>2. /\ conn[c].status = "live" /\ Close(c) /\ conn[c].m_handle \in Handles
      /\ UNCHANGED <<accepted, given, link, drops, flight>>
  BY <1>1, Zenon DEF OnClose, Live, ConnInv, ConnOK
<1>3. PICK k, h : k = conn' /\ h = conn[c].m_handle
  BY Zenon
<1>4. ClosedConn(k, c)
  <2>1. k = [conn EXCEPT ![c] = [conn[c] EXCEPT !.status = "closed"]]
    BY <1>1, <1>2, <1>3, Zenon DEF Close
  <2>. QED
    BY <1>1, <2>1, ZenonT(40) DEF ClosedConn, CMsgSrvConn
<1>5. g_msg_conn_map' = [g_msg_conn_map EXCEPT ![h] = NoConn] /\ h \in Handles
  BY <1>2, <1>3, Zenon DEF Close
<1>6. /\ k \in [Conns -> CMsgSrvConn] /\ k[c].status = "closed" /\ k[c].m_handle = h
      /\ \A d \in Conns \ {c} : k[d] = conn[d]
  BY <1>3, <1>4, Zenon DEF ClosedConn
<1>7. \A d \in Conns :
        /\ k[d].validated = conn[d].validated /\ k[d].m_bOpen = conn[d].m_bOpen
        /\ k[d].m_handle = conn[d].m_handle /\ k[d].m_address = conn[d].m_address
        /\ k[d].m_captcha = conn[d].m_captcha /\ k[d].m_prv_key = conn[d].m_prv_key
        /\ k[d].login = conn[d].login
        /\ k[d].status = "new" <=> conn[d].status = "new"
        /\ k[d].status = "live" => conn[d].status = "live" /\ d # c
  BY <1>2, <1>4, Zenon DEF ClosedConn
<1>8. Plain'
  BY <1>1, <1>2, <1>5, Zenon DEF Plain
<1>9. ConnInv(k)'
  <2>1. ConnInv(k)
    <3>. SUFFICES ASSUME NEW d \in Conns PROVE ConnOK(k, d)
      BY Zenon DEF ConnInv
    <3>1. ConnOK(conn, d)
      BY <1>1, Zenon DEF ConnInv
    <3>. QED
      BY <1>7, <3>1, Zenon DEF ConnOK
  <2>. QED
    BY <1>2, <2>1, Zenon DEF ConnInv, ConnOK
<1>10. HandleInv(k)'
  <2>. DEFINE g == g_msg_conn_map'
  <2>1. /\ \A x \in Handles \ {h} : g[x] = g_msg_conn_map[x]
        /\ g[h] = NoConn
        /\ \A x \in Handles : g_msg_conn_map[x] \in Conns \cup {NoConn}
    BY <1>1, <1>5, Zenon DEF Plain
  <2>2. g_msg_conn_map[h] = c
    BY <1>1, <1>2, <1>3, Zenon DEF HandleInv
  <2>. HIDE DEF g
  <2>3. \A x \in Handles : g[x] # NoConn => k[g[x]].status = "live" /\ k[g[x]].m_handle = x
    <3>. SUFFICES ASSUME NEW x \in Handles, g[x] # NoConn
                  PROVE  k[g[x]].status = "live" /\ k[g[x]].m_handle = x
      BY Zenon
    <3>1. PICK e \in Conns : e = g[x] /\ e = g_msg_conn_map[x] /\ x # h
      BY <2>1
    <3>2. conn[e].status = "live" /\ conn[e].m_handle = x
      BY <1>1, <3>1, NumberFacts, ZenonT(40) DEF HandleInv
    <3>3. e # c
      BY <1>3, <3>1, <3>2, Zenon
    <3>. QED
      BY <1>6, <3>1, <3>2, <3>3, Zenon
  <2>4. \A d \in Conns : k[d].status = "live" => g[k[d].m_handle] = d
    <3>. SUFFICES ASSUME NEW d \in Conns, k[d].status = "live"
                  PROVE  g[k[d].m_handle] = d
      BY Zenon
    <3>1. /\ conn[d].status = "live" /\ d # c /\ k[d].m_handle = conn[d].m_handle
          /\ conn[d].m_handle \in Handles /\ g_msg_conn_map[conn[d].m_handle] = d
      BY <1>1, <1>7, Zenon DEF HandleInv, ConnInv, ConnOK
    <3>. QED
      BY <2>1, <2>2, <3>1, Zenon
  <2>5. \A d, e \in Conns :
          k[d].status = "live" /\ k[e].status # "new" /\ k[d].m_handle = k[e].m_handle
          => e <= d
    <3>. SUFFICES ASSUME NEW d \in Conns, NEW e \in Conns, k[d].status = "live",
                         k[e].status # "new", k[d].m_handle = k[e].m_handle
                  PROVE  e <= d
      BY Zenon
    <3>1. /\ conn[d].status = "live" /\ conn[e].status # "new"
          /\ conn[d].m_handle = conn[e].m_handle
      BY <1>7, Zenon
    <3>. QED
      BY <1>1, <3>1, Zenon DEF HandleInv
  <2>. QED
    BY <2>3, <2>4, <2>5, Zenon DEF HandleInv, g
<1>11. OpenInv(k)'
  <2>1. \A d \in Conns : 1 .. d - 1 \subseteq Conns
    BY NumberFacts DEF Conns
  <2>2. OpenInv(k)
    <3>. SUFFICES ASSUME NEW d \in Conns, k[d].m_bOpen
                  PROVE  \/ k[d].validated
                         \/ async /\ \E e \in 1 .. d - 1 :
                                        k[e].m_handle = k[d].m_handle /\ k[e].validated
      BY Zenon DEF OpenInv
    <3>1. \/ conn[d].validated
          \/ async /\ \E e \in 1 .. d - 1 :
                         conn[e].m_handle = conn[d].m_handle /\ conn[e].validated
      BY <1>1, <1>7, Zenon DEF OpenInv
    <3>2. CASE conn[d].validated
      BY <1>7, <3>2, Zenon
    <3>3. CASE async /\ \E e \in 1 .. d - 1 :
                          conn[e].m_handle = conn[d].m_handle /\ conn[e].validated
      <4>1. PICK e \in 1 .. d - 1 : conn[e].m_handle = conn[d].m_handle /\ conn[e].validated
        BY <3>3, Zenon
      <4>2. e \in Conns
        BY <2>1, <4>1, Zenon
      <4>3. k[e].m_handle = k[d].m_handle /\ k[e].validated
        BY <1>7, <4>1, <4>2, Zenon
      <4>. QED
        BY <3>3, <4>3, Zenon
    <3>. QED
      BY <3>1, <3>2, <3>3, Zenon
  <2>. QED
    BY <2>2, Zenon DEF OpenInv
<1>12. FlightInv(k, flight)
  <2>1. \A r \in flight : r.conn \in Conns
    BY <1>1, Zenon DEF FlightInv
  <2>2. \A r \in flight : /\ k[r.conn].status # "new" /\ k[r.conn].m_handle = r.handle
                           /\ k[r.conn].m_address = r.address
                           /\ k[r.conn].validated = r.ok
    <3>. SUFFICES ASSUME NEW r \in flight
                  PROVE  /\ k[r.conn].status # "new" /\ k[r.conn].m_handle = r.handle
                         /\ k[r.conn].m_address = r.address /\ k[r.conn].validated = r.ok
      BY Zenon
    <3>1. /\ conn[r.conn].status # "new" /\ conn[r.conn].m_handle = r.handle
          /\ conn[r.conn].m_address = r.address /\ conn[r.conn].validated = r.ok
      BY <1>1, Zenon DEF FlightInv
    <3>. QED
      BY <1>7, <2>1, <3>1, Zenon
  <2>3. \A d \in Conns : k[d].status = "live" /\ k[d].login = "sent"
                         => \E r \in flight : r.conn = d
    <3>. SUFFICES ASSUME NEW d \in Conns, k[d].status = "live", k[d].login = "sent"
                  PROVE  \E r \in flight : r.conn = d
      BY Zenon
    <3>1. conn[d].status = "live" /\ conn[d].login = "sent"
      BY <1>7, Zenon
    <3>. QED
      BY <1>1, <3>1, Zenon DEF FlightInv
  <2>. QED
    BY <1>1, <2>2, <2>3, Zenon DEF FlightInv
<1>14. PICK m : /\ m = manager' /\ m \in CImUserManager
                /\ UserInv(k, m) /\ IdInv(m, given)
                /\ \A d \in Conns : Finds(k, m, given, d)
  <2>1. CASE conn[c].m_address = NoAddress
    <3>1. manager' = manager
      BY <1>2, <2>1, Zenon DEF Close
    <3>2. \A d \in Conns : Finds(k, manager, given, d)
      <4>. SUFFICES ASSUME NEW d \in Conns PROVE Finds(k, manager, given, d)
        BY Zenon
      <4>1. CASE d = c
        BY <1>6, <4>1, Zenon DEF Finds
      <4>2. CASE d # c
        BY <1>1, <1>6, <4>2, Zenon DEF Finds
      <4>. QED
        BY <4>1, <4>2, Zenon
    <3>4. ConnsOfUsers(k, manager)
      <4>. SUFFICES ASSUME NEW v \in Users, NEW x \in Handles, manager.user[v].live,
                           manager.user[v].m_conn_map[x] # NoConn
                    PROVE  Owned(k, manager.user[v].m_conn_map[x], x, manager.user[v].m_address)
        BY Zenon DEF ConnsOfUsers
      <4>1. PICK e \in Conns, b \in Addresses :
              e = manager.user[v].m_conn_map[x] /\ b = manager.user[v].m_address
        <5>1. manager.user[v].m_conn_map[x] \in Conns
          BY <1>1 DEF Types, CImUserManager, CImUser
        <5>2. manager.user[v].m_address \in Addresses
          BY <1>1, Zenon DEF UserInv, AddressesOfUsers
        <5>. QED
          BY <5>1, <5>2, Zenon
      <4>2. Owned(conn, e, x, b)
        BY <1>1, <4>1, Zenon DEF UserInv, ConnsOfUsers
      <4>3. e # c
        BY <2>1, <4>2, NamesAssumption, Zenon DEF Owned
      <4>4. Owned(k, e, x, b)
        BY <1>6, <4>2, <4>3, Zenon DEF Owned
      <4>. QED
        BY <4>1, <4>4, Zenon
    <3>5. UsersOfConns(k, manager) /\ Makers(k, manager)
      <4>1. \A e \in Conns : k[e].status = "live" => k[e] = conn[e]
        BY <1>6, Zenon
      <4>2. UsersOfConns(conn, manager) /\ Makers(conn, manager)
        BY <1>1, Zenon DEF UserInv
      <4>3. UsersOfConns(k, manager)
        BY <4>1, <4>2, Zenon DEF UsersOfConns
      <4>4. Makers(k, manager)
        BY <1>7, <4>2, Zenon DEF Makers, Users
      <4>. QED
        BY <4>3, <4>4, Zenon
    <3>6. UserInv(k, manager)
      BY <1>1, <3>4, <3>5, Zenon DEF UserInv
    <3>. QED
      BY <1>1, <3>1, <3>2, <3>6, Zenon DEF Types
  <2>2. CASE conn[c].m_address # NoAddress
    <3>1. PICK a, u : a = conn[c].m_address /\ u = manager.by_address[a]
      BY Zenon
    <3>2. /\ a \in Addresses /\ u \in Users
          /\ manager.user[u].live /\ manager.user[u].m_address = a
          /\ \E m : /\ manager' = m /\ LeftElsewhere(m, u, a)
                    /\ LeftOthers(m, u, a, h) \/ LeftNobody(m, u, a, h)
      BY <1>1, <1>2, <1>3, <2>2, <3>1, CloseManager, Zenon
    <3>3. PICK m : /\ manager' = m /\ LeftElsewhere(m, u, a)
                   /\ LeftOthers(m, u, a, h) \/ LeftNobody(m, u, a, h)
      BY <3>2, Zenon
    <3>4. UserInv(k, m)
      BY <1>1, <1>2, <1>3, <1>4, <3>1, <3>2, <3>3, CloseUsers, Zenon
    <3>5. IdInv(m, given)
      BY <1>1, <1>2, <1>3, <3>2, <3>3, CloseIds, Zenon
    <3>6. \A d \in Conns : Finds(k, m, given, d)
      BY <1>1, <1>2, <1>3, <1>4, <3>1, <3>2, <3>3, CloseFinds, Zenon
    <3>7. m \in CImUserManager
      BY <3>3, Zenon DEF LeftElsewhere
    <3>. QED
      BY <3>3, <3>4, <3>5, <3>6, <3>7, Zenon
  <2>. QED
    BY <2>1, <2>2, Zenon
<1>15. Types(k, m, given)
  BY <1>1, <1>6, <1>14, Zenon DEF Types
<1>16. PICK gv, fl : gv = given /\ fl = flight
  BY Zenon
<1>. QED
  BY <1>2, <1>3, <1>8, <1>9, <1>10, <1>11, <1>12, <1>14, <1>15, <1>16, Assembled, Zenon

-----------------------------------------------------------------------------
(* A new connection.                                                         *)

(* The connection as it starts.                                              *)
LEMMA NewConnFacts ==
    ASSUME NEW h \in Handles \cup {NoHandle}
    PROVE  /\ NewConn(h) \in CMsgSrvConn /\ NewConn(h).status = "live"
           /\ NewConn(h).m_handle = h /\ NewConn(h).m_address = NoAddress
           /\ ~ NewConn(h).validated /\ ~ NewConn(h).m_bOpen /\ ~ NewConn(h).m_captcha
           /\ NewConn(h).login = "none"
  BY Zenon DEF NewConn, CMsgSrvConn

(* A client connects and gets a descriptor that is free.                     *)
LEMMA OnConnectStep ==
    ASSUME Inv, NEW h \in Handles, OnConnect(h), async' = async
    PROVE  Inv'
<1>1. /\ Rest(conn, manager, given) /\ FlightInv(conn, flight)
      /\ \A d \in Conns : Finds(conn, manager, given, d)
      /\ Types(conn, manager, given) /\ Plain /\ ConnInv(conn) /\ HandleInv(conn)
      /\ UserInv(conn, manager) /\ IdInv(manager, given)
      /\ OpenInv(conn) /\ conn \in [Conns -> CMsgSrvConn] /\ accepted \in Nat
  BY SMTT(40) DEF Inv, Rest, Types, Plain
<1>2. PICK c, k : c = accepted + 1 /\ k = conn'
  BY Zenon
<1>3. /\ c \in Conns /\ accepted' = c /\ c \in 0 .. MaxConn
      /\ g_msg_conn_map' = [g_msg_conn_map EXCEPT ![h] = c] /\ g_msg_conn_map[h] = NoConn
      /\ UNCHANGED <<manager, given, link, drops, flight>>
      /\ k = [conn EXCEPT ![c] = NewConn(h)]
  BY <1>1, <1>2, NumberFacts DEF OnConnect, Conns
<1>4. /\ k \in [Conns -> CMsgSrvConn] /\ \A d \in Conns \ {c} : k[d] = conn[d]
      /\ k[c].status = "live" /\ k[c].m_handle = h /\ k[c].m_address = NoAddress
      /\ ~ k[c].validated /\ ~ k[c].m_bOpen /\ ~ k[c].m_captcha /\ k[c].login = "none"
  BY <1>1, <1>3, NewConnFacts, Zenon
<1>5. conn[c].status = "new" /\ conn[c].m_address = NoAddress
      /\ ~ conn[c].validated /\ conn[c].login = "none"
  BY <1>1, <1>2, <1>3, SMTT(40) DEF ConnInv, ConnOK
<1>6. Plain'
  BY <1>1, <1>3, Zenon DEF Plain
<1>7. ConnInv(k)'
  <2>1. \A d \in Conns : d # c => (d > accepted <=> d > c)
    BY <1>1, <1>2, <1>3, NumberFacts
  <2>2. ~ (c > c)
    BY <1>3, NumberFacts
  <2>. QED
    BY <1>1, <1>3, <1>4, <2>1, <2>2, Zenon DEF ConnInv, ConnOK
<1>8. HandleInv(k)'
  <2>. DEFINE g == g_msg_conn_map'
  <2>1. /\ \A x \in Handles \ {h} : g[x] = g_msg_conn_map[x]
        /\ g[h] = c
        /\ \A x \in Handles : g_msg_conn_map[x] \in Conns \cup {NoConn}
    BY <1>1, <1>3, Zenon DEF Plain
  <2>. HIDE DEF g
  <2>2. \A x \in Handles : g[x] # NoConn => k[g[x]].status = "live" /\ k[g[x]].m_handle = x
    <3>. SUFFICES ASSUME NEW x \in Handles, g[x] # NoConn, x # h
                  PROVE  k[g[x]].status = "live" /\ k[g[x]].m_handle = x
      BY <1>4, <2>1, ZenonT(90)
    <3>1. PICK e \in Conns : e = g[x] /\ e = g_msg_conn_map[x]
      BY <2>1, Zenon
    <3>2. conn[e].status = "live" /\ conn[e].m_handle = x
      BY <1>1, <3>1, NumberFacts, ZenonT(40) DEF HandleInv
    <3>. QED
      BY <1>4, <1>5, <3>1, <3>2, Zenon
  <2>3. \A d \in Conns : k[d].status = "live" => g[k[d].m_handle] = d
    <3>. SUFFICES ASSUME NEW d \in Conns, k[d].status = "live", d # c
                  PROVE  g[k[d].m_handle] = d
      BY <1>4, <2>1, Zenon
    <3>1. /\ conn[d].status = "live" /\ k[d].m_handle = conn[d].m_handle
          /\ conn[d].m_handle \in Handles /\ g_msg_conn_map[conn[d].m_handle] = d
      <4>1. k[d] = conn[d] /\ conn[d].status = "live" /\ ConnOK(conn, d)
        BY <1>1, <1>4, Zenon DEF ConnInv
      <4>2. conn[d].m_handle \in Handles
        BY <4>1, Zenon DEF ConnOK
      <4>3. g_msg_conn_map[conn[d].m_handle] = d
        BY <1>1, <4>1, Zenon DEF HandleInv
      <4>. QED
        BY <4>1, <4>2, <4>3, Zenon
    <3>. QED
      BY <1>3, <2>1, <3>1, NumberFacts, Zenon
  <2>4. ASSUME NEW d \in Conns, NEW e \in Conns,
               k[d].status = "live", k[e].status # "new", k[d].m_handle = k[e].m_handle
        PROVE  e <= d
    <3>1. CASE d = c
      <4>1. CASE e = c
        BY <3>1, <4>1, NumberFacts
      <4>2. CASE e # c
        <5>1. ~ (e > accepted)
          BY <1>1, <1>4, <2>4, <4>2, Zenon DEF ConnInv, ConnOK
        <5>. QED
          BY <1>1, <1>2, <3>1, <5>1, NumberFacts
      <4>. QED
        BY <4>1, <4>2, Zenon
    <3>2. CASE d # c
      <4>1. conn[d].status = "live" /\ conn[d].m_handle # h
        <5>1. k[d] = conn[d] /\ conn[d].status = "live"
          BY <1>4, <2>4, <3>2, Zenon
        <5>2. g_msg_conn_map[conn[d].m_handle] = d
          BY <1>1, <5>1, Zenon DEF HandleInv
        <5>. QED
          BY <1>3, <5>1, <5>2, NumberFacts, Zenon
      <4>2. e # c
        BY <1>4, <2>4, <3>2, <4>1, Zenon
      <4>. QED
        <5>1. k[d] = conn[d] /\ k[e] = conn[e]
          BY <1>4, <3>2, <4>2, Zenon
        <5>. QED
          BY <1>1, <2>4, <5>1, Zenon DEF HandleInv
    <3>. QED
      BY <3>1, <3>2, Zenon
  <2>. QED
    BY <2>2, <2>3, <2>4, Zenon DEF HandleInv, g
<1>9. OpenInv(k)'
  <2>1. \A d \in Conns : 1 .. d - 1 \subseteq Conns
    BY NumberFacts DEF Conns
  <2>2. \A d \in Conns : conn[d].validated => k[d].validated /\ k[d].m_handle = conn[d].m_handle
    BY <1>4, <1>5, Zenon
  <2>3. OpenInv(k)
    <3>. SUFFICES ASSUME NEW d \in Conns, k[d].m_bOpen
                  PROVE  \/ k[d].validated
                         \/ async /\ \E e \in 1 .. d - 1 :
                                        k[e].m_handle = k[d].m_handle /\ k[e].validated
      BY Zenon DEF OpenInv
    <3>1. d # c /\ k[d] = conn[d]
      BY <1>4, Zenon
    <3>2. \/ conn[d].validated
          \/ async /\ \E e \in 1 .. d - 1 :
                         conn[e].m_handle = conn[d].m_handle /\ conn[e].validated
      BY <1>1, <3>1, Zenon DEF OpenInv
    <3>. QED
      BY <2>1, <2>2, <3>1, <3>2, Zenon
  <2>. QED
    BY <2>3, Zenon DEF OpenInv
<1>10. FlightInv(k, flight)
  <2>1. \A r \in flight : r.conn \in Conns \ {c}
    BY <1>1, <1>5, Zenon DEF FlightInv
  <2>. QED
    BY <1>1, <1>4, <2>1, Zenon DEF FlightInv
<1>11. UserInv(k, manager)
  <2>1. \A v \in Users : \A x \in Handles :
          manager.user[v].m_conn_map[x] \in Conns \cup {NoConn}
    BY <1>1, SMTT(40) DEF Types, CImUserManager, CImUser
  <2>2. ConnsOfUsers(conn, manager) /\ UsersOfConns(conn, manager)
        /\ UsersOfAddresses(manager) /\ AddressesOfUsers(manager) /\ Makers(conn, manager)
    BY <1>1, Zenon DEF UserInv
  <2>3. \A e \in Conns : conn[e].status = "live" => k[e] = conn[e]
    BY <1>4, <1>5, Zenon
  <2>4. ConnsOfUsers(k, manager)
    <3>. SUFFICES ASSUME NEW v \in Users, NEW x \in Handles, manager.user[v].live,
                         manager.user[v].m_conn_map[x] # NoConn
                  PROVE  Owned(k, manager.user[v].m_conn_map[x], x, manager.user[v].m_address)
      BY Zenon DEF ConnsOfUsers
    <3>1. PICK e \in Conns : e = manager.user[v].m_conn_map[x]
      BY <2>1, Zenon
    <3>2. Owned(conn, e, x, manager.user[v].m_address)
      BY <2>2, <3>1, Zenon DEF ConnsOfUsers
    <3>3. Owned(k, e, x, manager.user[v].m_address)
      BY <2>3, <3>2, Zenon DEF Owned
    <3>. QED
      BY <3>1, <3>3, Zenon
  <2>5. \A e \in Conns : k[e].m_address # NoAddress => k[e] = conn[e]
    BY <1>4, Zenon
  <2>6. UsersOfConns(k, manager)
    BY <2>2, <2>5, Zenon DEF UsersOfConns
  <2>7. Makers(k, manager)
    BY <1>4, <1>5, <2>2, Zenon DEF Makers, Users
  <2>. QED
    BY <2>2, <2>4, <2>6, <2>7, Zenon DEF UserInv
<1>13. \A d \in Conns : Finds(k, manager, given, d)
  BY <1>1, <1>4, Zenon DEF Finds
<1>14. Types(k, manager, given)
  BY <1>1, <1>4, Zenon DEF Types
<1>15. PICK m, gv, fl : m = manager /\ gv = given /\ fl = flight
  BY Zenon
<1>. QED
  BY <1>1, <1>2, <1>3, <1>6, <1>7, <1>8, <1>9, <1>10, <1>11, <1>13, <1>14, <1>15,
     Assembled, Zenon

-----------------------------------------------------------------------------
(* The invariant holds when the server starts.                               *)
LEMMA InvInit == Init => Inv
<1>. SUFFICES ASSUME Init PROVE Inv
  BY Zenon
<1>1. PICK r, u : r = [NewConn(NoHandle) EXCEPT !.status = "new"]
                  /\ u = [NewUser(NoAddress) EXCEPT !.live = FALSE]
  BY Zenon
<1>2. /\ r \in CMsgSrvConn /\ r.status = "new" /\ r.m_address = NoAddress /\ r.login = "none"
      /\ ~ r.validated /\ ~ r.m_captcha /\ ~ r.m_bOpen
  BY <1>1, Zenon DEF NewConn, CMsgSrvConn
<1>3. u \in CImUser /\ ~ u.live
  BY <1>1, Zenon DEF NewUser, CImUser
<1>4. conn \in [Conns -> CMsgSrvConn] /\ \A c \in Conns : conn[c] = r
  BY <1>1, <1>2, Zenon DEF Init
<1>5. /\ manager \in CImUserManager
      /\ \A v \in Users : manager.user[v] = u
      /\ \A a \in Addresses : manager.by_address[a] = NoUser
      /\ \A i \in Ids : manager.by_id[i] = NoUser
  BY <1>1, <1>3, NumberFacts, Zenon DEF Init, CImUserManager
<1>6. Types(conn, manager, given) /\ \A a \in Addresses : given[a] = {}
  BY <1>4, <1>5, Zenon DEF Init, Types
<1>7. Plain
  BY ModesAssumption, BoundsAssumption DEF Init, Plain
<1>8. \A c \in Conns : c > accepted
  BY NumberFacts DEF Init
<1>9. ConnInv(conn)
  BY <1>2, <1>4, <1>8, Zenon DEF ConnInv, ConnOK
<1>10. HandleInv(conn)
  BY <1>2, <1>4, Zenon DEF Init, HandleInv
<1>11. UserInv(conn, manager)
  BY <1>2, <1>3, <1>4, <1>5, Zenon DEF UserInv, ConnsOfUsers, UsersOfConns, UsersOfAddresses,
     AddressesOfUsers, Makers
<1>13. IdInv(manager, given)
  BY <1>3, <1>5, <1>6, Zenon DEF IdInv
<1>14. OpenInv(conn) /\ \A c \in Conns : Finds(conn, manager, given, c)
  BY <1>2, <1>4, Zenon DEF OpenInv, Finds
<1>15. FlightInv(conn, flight)
  BY <1>2, <1>4, Zenon DEF Init, FlightInv
<1>. QED
  BY <1>6, <1>7, <1>9, <1>10, <1>11, <1>13, <1>14, <1>15, Zenon DEF Inv, Rest

(* Every step keeps it.                                                      *)
LEMMA InvStep == Inv /\ [Next]_vars => Inv'
<1>. SUFFICES ASSUME Inv, [Next]_vars PROVE Inv'
  BY Zenon
<1>0. /\ Rest(conn, manager, given) /\ FlightInv(conn, flight)
      /\ \A d \in Conns : Finds(conn, manager, given, d)
      /\ async \in BOOLEAN /\ link \in BOOLEAN /\ drops \in 0 .. MaxLinkDrops
  BY ModesAssumption, Zenon DEF Inv, Rest, Plain
<1>1. ASSUME Next PROVE async' = async
  BY <1>1, Zenon DEF Next
<1>2. ASSUME NEW h \in Handles, OnConnect(h), Next PROVE Inv'
  BY <1>1, <1>2, OnConnectStep, Zenon
<1>3. ASSUME NEW c \in Conns, Client(c), Next PROVE Inv'
  <2>1. CASE OnClose(c)
    BY <1>1, <1>3, <2>1, OnCloseStep, Zenon
  <2>2. CASE AuthCaptchaReq(c)
    BY <1>1, <1>3, <2>2, AuthCaptchaReqStep, Zenon
  <2>3. ASSUME NEW a \in Addresses, NEW ok \in BOOLEAN, AuthLoginReq(c, a, ok) PROVE Inv'
    BY <1>0, <1>1, <1>3, <2>3, AuthLoginReqStep, Zenon
  <2>. QED
    BY <1>3, <2>1, <2>2, <2>3, Zenon DEF Client
<1>4. ASSUME NEW r \in flight, HandlePdu(r), Next PROVE Inv'
  BY <1>1, <1>4, HandlePduStep, Zenon
<1>5. CASE LinkDown /\ Next
  BY <1>1, <1>5, LinkDownStep, Zenon
<1>6. CASE (LinkUp /\ Next) \/ UNCHANGED vars
  <2>1. PICK k, m, gv, fl : k = conn /\ m = manager /\ gv = given /\ fl = flight
    BY Zenon
  <2>2. /\ UNCHANGED <<async, accepted, conn, g_msg_conn_map, manager, given, flight>>
        /\ link' \in BOOLEAN /\ drops' \in 0 .. MaxLinkDrops
    <3>1. CASE UNCHANGED vars
      BY <1>0, <3>1, Zenon DEF vars, connVars
    <3>2. CASE LinkUp /\ Next
      BY <1>0, <1>1, <3>2, Zenon DEF LinkUp, connVars
    <3>. QED
      BY <1>6, <3>1, <3>2, Zenon
  <2>. QED
    BY <1>0, <2>1, <2>2, Stored, Zenon
<1>. QED
  BY <1>2, <1>3, <1>4, <1>5, <1>6, Zenon DEF Next

(* The variables of the message server keep their types: the flags, the      *)
(* descriptors and the users are what the handlers take them for.            *)
THEOREM ServerTypeCorrect == Spec => []TypeOK
<1>1. Inv => TypeOK
  <2>. SUFFICES ASSUME Inv PROVE TypeOK
    BY Zenon
  <2>1. /\ conn \in [Conns -> CMsgSrvConn] /\ manager \in CImUserManager
        /\ given \in [Addresses -> SUBSET Ids]
    BY Zenon DEF Inv, Rest, Types
  <2>. QED
    BY <2>1, Zenon DEF Inv, Rest, Plain, FlightInv, TypeOK
<1>. QED
  BY <1>1, InvInit, InvStep, PTL DEF Spec

(* The users know exactly their live connections, and the manager its users, *)
(* whatever connections come and go and whichever descriptors they get:      *)
(* Close leaves no dangling pointer in CImUser and CImUserManager.           *)
THEOREM UsersCorrect == Spec => [](UserConnsLive /\ UserMapsLive)
<1>1. Inv => UserConnsLive /\ UserMapsLive
  <2>. SUFFICES ASSUME Inv PROVE UserConnsLive /\ UserMapsLive
    BY Zenon
  <2>1. /\ ConnsOfUsers(conn, manager) /\ UsersOfConns(conn, manager)
        /\ UsersOfAddresses(manager) /\ AddressesOfUsers(manager)
        /\ IdInv(manager, given) /\ ConnInv(conn) /\ accepted \in Nat
        /\ manager \in CImUserManager
    BY DEF Inv, Rest, UserInv, Plain, Types
  <2>2. \A c \in Conns : Live(c) <=> conn[c].status = "live"
    <3>1. \A c \in Conns : c \in 1 .. accepted <=> ~ (c > accepted)
      BY <2>1, NumberFacts
    <3>. QED
      BY <2>1, <3>1, Zenon DEF Live, ConnInv, ConnOK
  <2>3. \A u \in Users : \A h \in Handles :
          manager.user[u].m_conn_map[h] \in Conns \cup {NoConn}
    BY <2>1 DEF CImUserManager, CImUser
  <2>4. UserConnsLive
    <3>1. \A u \in Users : \A h \in Handles :
            LET c == manager.user[u].m_conn_map[h]
            IN  manager.user[u].live /\ c # NoConn =>
                  /\ Live(c)
                  /\ conn[c].m_handle = h
                  /\ conn[c].m_address = manager.user[u].m_address
      <4>. SUFFICES ASSUME NEW u \in Users, NEW h \in Handles, manager.user[u].live,
                           manager.user[u].m_conn_map[h] # NoConn
                    PROVE  /\ Live(manager.user[u].m_conn_map[h])
                           /\ conn[manager.user[u].m_conn_map[h]].m_handle = h
                           /\ conn[manager.user[u].m_conn_map[h]].m_address = manager.user[u].m_address
        BY Zenon
      <4>1. PICK c \in Conns : c = manager.user[u].m_conn_map[h]
        BY <2>3, Zenon
      <4>2. Owned(conn, c, h, manager.user[u].m_address)
        BY <2>1, <4>1, Zenon DEF ConnsOfUsers
      <4>3. Live(c) /\ conn[c].m_handle = h /\ conn[c].m_address = manager.user[u].m_address
        BY <2>2, <4>2, Zenon DEF Owned
      <4>. QED
        BY <4>1, <4>3, Zenon
    <3>2. \A c \in Conns : Live(c) /\ conn[c].m_address # NoAddress =>
            LET u == manager.by_address[conn[c].m_address]
            IN  u # NoUser /\ manager.user[u].m_conn_map[conn[c].m_handle] = c
      BY <2>1, <2>2, Zenon DEF UsersOfConns, Keeps
    <3>. QED
      BY <3>1, <3>2, Zenon DEF UserConnsLive
  <2>5. UserMapsLive
    <3>1. \A a \in Addresses : LET u == manager.by_address[a] IN u # NoUser =>
            /\ manager.user[u].live /\ manager.user[u].m_address = a
            /\ ~IsMsgConnEmpty(manager, u)
      BY <2>1, Zenon DEF UsersOfAddresses, Serves, IsMsgConnEmpty
    <3>2. \A u \in Users : manager.user[u].live =>
            manager.by_address[manager.user[u].m_address] = u
      BY <2>1, Zenon DEF AddressesOfUsers
    <3>3. \A i \in Ids \ {ErrorId} : LET u == manager.by_id[i] IN u # NoUser =>
            \/ manager.user[u].live /\ manager.user[u].m_address = i[1]
            \/ Several(given[i[1]])
      BY <2>1, Zenon DEF IdInv, Bears
    <3>. QED
      BY <3>1, <3>2, <3>3, Zenon DEF UserMapsLive
  <2>. QED
    BY <2>4, <2>5, Zenon
<1>. QED
  BY <1>1, InvInit, InvStep, PTL DEF Spec

(* A connection whose login was answered is found under its id, is open only *)
(* if a login on its descriptor was validated, and while it waits has an     *)
(* answer coming that HandlePdu will give to it and to no other.             *)
THEOREM LoginsCorrect == Spec => [](OnlineFindable /\ OpenByDescriptor /\ LoginPending)
<1>1. Inv => OnlineFindable /\ OpenByDescriptor /\ LoginPending
  <2>. SUFFICES ASSUME Inv PROVE OnlineFindable /\ OpenByDescriptor /\ LoginPending
    BY Zenon
  <2>1. /\ UsersOfConns(conn, manager) /\ UsersOfAddresses(manager)
        /\ ConnInv(conn) /\ accepted \in Nat /\ HandleInv(conn) /\ FlightInv(conn, flight)
        /\ conn \in [Conns -> CMsgSrvConn] /\ OpenInv(conn)
        /\ \A c \in Conns : Finds(conn, manager, given, c)
    BY SMTT(40) DEF Inv, Rest, UserInv, Plain, Types
  <2>2. OnlineFindable
    <3>. SUFFICES ASSUME NEW c \in Conns, Live(c), conn[c].validated,
                         conn[c].login = "answered",
                         conn[c].m_user_id[1] = conn[c].m_address,
                         ~ Several(given[conn[c].m_user_id[1]])
                  PROVE  LET u == manager.by_id[conn[c].m_user_id]
                         IN  /\ u # NoUser /\ manager.user[u].live
                             /\ manager.user[u].m_conn_map[conn[c].m_handle] = c
      BY Zenon DEF OnlineFindable
    <3>1. /\ conn[c].status = "live" /\ conn[c].m_address # NoAddress
          /\ conn[c].m_address \in Addresses
      BY <2>1, Zenon DEF Live, ConnInv, ConnOK, CMsgSrvConn
    <3>2. PICK u : u = manager.by_address[conn[c].m_address]
      BY Zenon
    <3>3. manager.by_id[conn[c].m_user_id] = u
      BY <2>1, <3>1, <3>2, Zenon DEF Finds
    <3>4. Keeps(manager, u, conn[c].m_handle, c)
      BY <2>1, <3>1, <3>2, Zenon DEF UsersOfConns
    <3>5. Serves(manager, u, conn[c].m_address)
      <4>1. u # NoUser
        BY <3>4, Zenon DEF Keeps
      <4>. QED
        BY <2>1, <3>1, <3>2, <4>1, Zenon DEF UsersOfAddresses
    <3>6. /\ u # NoUser /\ manager.user[u].live
          /\ manager.user[u].m_conn_map[conn[c].m_handle] = c
      BY <3>4, <3>5, Zenon DEF Keeps, Serves
    <3>. QED
      BY <3>3, <3>6, Zenon
  <2>3. OpenByDescriptor
    BY <2>1, Zenon DEF OpenByDescriptor, OpenInv
  <2>4. LoginPending
    <3>. SUFFICES ASSUME NEW c \in Conns, Live(c), conn[c].login = "sent"
                  PROVE  \E r \in flight : /\ r.conn = c /\ r.address = conn[c].m_address
                                           /\ g_msg_conn_map[r.handle] = c
      BY Zenon DEF LoginPending
    <3>1. PICK r \in flight : r.conn = c
      BY <2>1, Zenon DEF Live, FlightInv
    <3>2. conn[c].m_handle = r.handle /\ conn[c].m_address = r.address
      BY <2>1, <3>1, Zenon DEF FlightInv
    <3>3. g_msg_conn_map[r.handle] = c
      BY <2>1, <3>2, Zenon DEF HandleInv, Live
    <3>. QED
      BY <3>1, <3>2, <3>3, Zenon
  <2>. QED
    BY <2>2, <2>3, <2>4, Zenon
<1>. QED
  BY <1>1, InvInit, InvStep, PTL DEF Spec

\* No descriptor has been given to two of the connections accepted so far.
DescriptorsDiffer ==
    \A c, d \in 1 .. accepted : conn[c].m_handle = conn[d].m_handle => c = d

\* What MsgSrvConn.h:70 says of m_bOpen, "only DB validate passed will be set to
\* true", is so in synchronous mode, and in asynchronous mode until the kernel gives
\* a descriptor to a second connection.
THEOREM OpenWhenValidated ==
    Spec => []((~async \/ DescriptorsDiffer) => OpenOnlyIfValidated)
<1>1. ASSUME TypeOK, OpenByDescriptor, ~async \/ DescriptorsDiffer,
             NEW c \in Conns, Live(c), conn[c].m_bOpen
      PROVE  conn[c].validated
  <2>1. SUFFICES ASSUME NEW d \in 1 .. c - 1, conn[d].m_handle = conn[c].m_handle,
                        DescriptorsDiffer
                 PROVE  FALSE
    BY <1>1, Zenon DEF OpenByDescriptor
  <2>2. c \in 1 .. accepted
    BY <1>1, Zenon DEF Live
  <2>3. d \in 1 .. accepted /\ d # c
    BY <1>1, <2>2 DEF TypeOK
  <2>. QED
    BY <2>1, <2>2, <2>3, Zenon DEF DescriptorsDiffer
<1>2. TypeOK /\ OpenByDescriptor =>
          ((~async \/ DescriptorsDiffer) => OpenOnlyIfValidated)
  BY <1>1, Zenon DEF OpenOnlyIfValidated
<1>. QED
  BY <1>2, ServerTypeCorrect, LoginsCorrect, PTL

=============================================================================
