---------------------------- MODULE LoginService ----------------------------
(***************************************************************************)
(* CInterLoginStrategy::ServerLogin as the worker threads of the business  *)
(* server run it: a connection from the CachePool, the check of the        *)
(* signature, and five Redis commands that find or allocate the user id of *)
(* an address.  Each command is one step; commands of different workers    *)
(* interleave in the Redis server, which executes one at a time.           *)
(*                                                                         *)
(* A command may fail on the way (CacheConn::Init cannot reconnect, or     *)
(* redisCommand returns no reply, before or after the server executed it). *)
(* The CacheConn methods then return what they also return for a missing   *)
(* key, or -1.                                                             *)
(***************************************************************************)
EXTENDS CachePool, Integers

CONSTANTS Addresses,
          FirstId,     \* 100000 in the code: the first id the service hands out
          MaxLogins,   \* bound: logins started in a behaviour
          MaxFaults    \* bound: Redis commands that fail in a behaviour

ASSUME LoginAssumption == /\ Addresses # {}
                          /\ FirstId \in Nat /\ FirstId > 1
                          /\ MaxLogins \in Nat /\ MaxFaults \in Nat

VARIABLES
    user_id_incr,         \* CACHE_INCR_USER_ID
    user_adr_id,          \* CACHE_USER_ADR_ID_PREFIX + address
    user_id_adr,          \* CACHE_USER_ID_ADR_PREFIX + id, as pairs
    step, address, genuine, user_id,   \* locals of each thread's ServerLogin
    logins, faults,
    blind,                \* history: the thread's GET failed
    raced,                \* history: another login stored its address since its GET
    given,                \* history: the ids that logins returned, with their addresses
    up                    \* FALSE once the process has crashed

redis == <<user_id_incr, user_adr_id, user_id_adr>>
local == <<step, address, genuine, user_id>>
history == <<blind, raced, given>>
vars == <<poolVars, redis, local, history, logins, faults, up>>

NoId == 0
ErrorId == -1    \* what incr and incrBy return without a reply
Steps == {"none", "verify", "get", "incr", "incrby", "mset", "mget", "rel"}

Init ==
    /\ PoolInit
    /\ user_id_incr = 0
    /\ user_adr_id = [a \in Addresses |-> NoId]
    /\ user_id_adr = {}
    /\ step = [t \in Threads |-> "none"]
    /\ address = [t \in Threads |-> CHOOSE a \in Addresses : TRUE]
    /\ genuine = [t \in Threads |-> TRUE]
    /\ user_id = [t \in Threads |-> NoId]
    /\ logins = 0 /\ faults = 0
    /\ blind = [t \in Threads |-> FALSE]
    /\ raced = [t \in Threads |-> FALSE]
    /\ given = {}
    /\ up = TRUE

\* A ServerLoginReq reaches a worker; its signature is that of the address or not.
Start(t, a, good) ==
    /\ step[t] = "none" /\ logins < MaxLogins
    /\ CallGet(t)
    /\ step' = [step EXCEPT ![t] = "verify"]
    /\ address' = [address EXCEPT ![t] = a]
    /\ genuine' = [genuine EXCEPT ![t] = good]
    /\ user_id' = [user_id EXCEPT ![t] = NoId]
    /\ blind' = [blind EXCEPT ![t] = FALSE]
    /\ raced' = [raced EXCEPT ![t] = FALSE]
    /\ logins' = logins + 1
    /\ UNCHANGED <<redis, given, faults, up>>

\* GetCacheConn.  When it returns NULL the login ends with E_SYSTEM.
Get(t) ==
    /\ GetCacheConn(t)
    /\ step' = [step EXCEPT ![t] = IF at'[t] = "out" THEN "none" ELSE @]
    /\ UNCHANGED <<redis, address, genuine, user_id, history, logins, faults, up>>

At(t, s) == at[t] = "use" /\ step[t] = s
Goto(t, s) == step' = [step EXCEPT ![t] = s]

\* recover_pub_key_and_address_from_sig and the comparison of addresses: the two
\* early exits leave the loop without RelCacheConn.
Verify(t) ==
    /\ At(t, "verify")
    /\ IF genuine[t] THEN Goto(t, "get") /\ UNCHANGED poolVars
                     ELSE Goto(t, "none") /\ Forget(t)
    /\ UNCHANGED <<redis, address, genuine, user_id, history, logins, faults, up>>

\* How a Redis command ends: with its reply, or without one and not executed, or
\* without one although executed.
Outcomes == {"reply"} \cup (IF faults < MaxFaults THEN {"unsent", "unheard"} ELSE {})
Fault(o) == faults' = IF o = "reply" THEN faults ELSE faults + 1

\* Mutant of GetUserId: the stored id is not looked at.
GetUserIdAlwaysNew(t, o) ==
    /\ At(t, "get") /\ o \in Outcomes /\ Fault(o)
    /\ user_id' = [user_id EXCEPT ![t] = NoId]
    /\ blind' = [blind EXCEPT ![t] = o # "reply"]
    /\ Goto(t, "incr")
    /\ UNCHANGED <<poolVars, redis, address, genuine, raced, given, logins, up>>

\* pCacheConn->get: an empty string for a missing key and for no reply alike.
GetUserId(t, o) ==
    /\ At(t, "get") /\ o \in Outcomes /\ Fault(o)
    /\ user_id' = [user_id EXCEPT
           ![t] = IF o = "reply" THEN user_adr_id[address[t]] ELSE NoId]
    /\ blind' = [blind EXCEPT ![t] = o # "reply"]
    /\ Goto(t, IF user_id'[t] = NoId THEN "incr" ELSE "mget")
    /\ UNCHANGED <<poolVars, redis, address, genuine, raced, given, logins, up>>

\* INCR; the very first id is moved up to FirstId by a second command.
Incr(t, o) ==
    /\ At(t, "incr") /\ o \in Outcomes /\ Fault(o)
    /\ user_id_incr' = IF o = "unsent" THEN user_id_incr ELSE user_id_incr + 1
    /\ user_id' = [user_id EXCEPT
           ![t] = IF o = "reply" THEN user_id_incr + 1 ELSE ErrorId]
    /\ Goto(t, IF user_id'[t] = 1 THEN "incrby" ELSE "mset")
    /\ UNCHANGED <<poolVars, user_adr_id, user_id_adr, address, genuine, history,
                   logins, up>>

\* Mutant of IncrBy: the first id is taken for granted, not read from the reply.
IncrByUnread(t, o) ==
    /\ At(t, "incrby") /\ o \in Outcomes /\ Fault(o)
    /\ user_id_incr' =
           IF o = "unsent" THEN user_id_incr ELSE user_id_incr + (FirstId - 1)
    /\ user_id' = [user_id EXCEPT ![t] = IF o = "reply" THEN FirstId ELSE ErrorId]
    /\ Goto(t, "mset")
    /\ UNCHANGED <<poolVars, user_adr_id, user_id_adr, address, genuine, history,
                   logins, up>>

IncrBy(t, o) ==
    /\ At(t, "incrby") /\ o \in Outcomes /\ Fault(o)
    /\ user_id_incr' =
           IF o = "unsent" THEN user_id_incr ELSE user_id_incr + (FirstId - 1)
    /\ user_id' = [user_id EXCEPT
           ![t] = IF o = "reply" THEN user_id_incr + (FirstId - 1) ELSE ErrorId]
    /\ Goto(t, "mset")
    /\ UNCHANGED <<poolVars, user_adr_id, user_id_adr, address, genuine, history,
                   logins, up>>

\* MSET of the keys by address and by id; exec's result is not looked at.
MSet(t, o) ==
    /\ At(t, "mset") /\ o \in Outcomes /\ Fault(o)
    /\ IF o = "unsent" THEN UNCHANGED <<user_adr_id, user_id_adr, raced>>
       ELSE /\ user_adr_id' = [user_adr_id EXCEPT ![address[t]] = user_id[t]]
            /\ user_id_adr' = {p \in user_id_adr : p[1] # user_id[t]}
                                  \cup {<<user_id[t], address[t]>>}
            /\ raced' = [u \in Threads |->
                   raced[u] \/ (u # t /\ step[u] \in {"incr", "incrby", "mset"}
                                      /\ address[u] = address[t])]
    /\ Goto(t, "mget")
    /\ UNCHANGED <<poolVars, user_id_incr, address, genuine, user_id, blind,
                   given, logins, up>>

\* MGET of the profile.  Without a reply list_ret is empty and its elements are
\* read all the same: the process may crash, or go on with what it finds.
MGet(t, o) ==
    /\ At(t, "mget") /\ o \in Outcomes /\ Fault(o)
    /\ up' \in (IF o = "reply" THEN {TRUE} ELSE BOOLEAN)
    /\ Goto(t, "rel")
    /\ UNCHANGED <<poolVars, redis, address, genuine, user_id, history, logins>>

\* RelCacheConn, and E_OK with the user's id for the caller to answer with.
Release(t) ==
    /\ At(t, "rel")
    /\ RelCacheConn(t)
    /\ Goto(t, "none")
    /\ given' = given \cup {<<user_id[t], address[t]>>}
    /\ UNCHANGED <<redis, address, genuine, user_id, blind, raced, logins, faults, up>>

\* What the thread itself does next, as opposed to being given a login.
Advance(t) ==
    \/ Get(t) \/ Verify(t) \/ Release(t)
    \/ \E o \in {"reply", "unsent", "unheard"} :
          GetUserId(t, o) \/ Incr(t, o) \/ IncrBy(t, o) \/ MSet(t, o) \/ MGet(t, o)

Next == up /\ \E t \in Threads :
    \/ \E a \in Addresses, good \in BOOLEAN : Start(t, a, good)
    \/ Advance(t)

Spec == Init /\ [][Next]_vars

-----------------------------------------------------------------------------
(* Properties.                                                             *)

\* The types of Redis and of the workers' locals; TypeOK adds the pool's.
LoginTypeOK ==
    /\ user_id_incr \in Nat
    /\ user_adr_id \in [Addresses -> Int]
    /\ user_id_adr \subseteq Int \X Addresses
    /\ step \in [Threads -> Steps]
    /\ address \in [Threads -> Addresses]
    /\ genuine \in [Threads -> BOOLEAN]
    /\ user_id \in [Threads -> Int]
    /\ logins \in 0 .. MaxLogins /\ faults \in 0 .. MaxFaults
    /\ blind \in [Threads -> BOOLEAN] /\ raced \in [Threads -> BOOLEAN]
    /\ given \subseteq Int \X Addresses
    /\ up \in BOOLEAN

TypeOK == PoolTypeOK /\ LoginTypeOK

\* Redis never holds the same user id for two addresses, however the INCR, INCRBY
\* and MSET of their logins interleave and whichever of them fail: the one id that
\* can be stored twice is the -1 that stands for "no reply".
IdNotShared ==
    \A a, b \in Addresses :
        a # b /\ user_adr_id[a] = user_adr_id[b]
            => user_adr_id[a] \in {NoId, ErrorId}

\* What Redis holds by address and what it holds by id agree: the id stored for an
\* address leads back to that address.
IdLeadsBack ==
    \A a \in Addresses : user_adr_id[a] \notin {NoId, ErrorId}
        => <<user_adr_id[a], a>> \in user_id_adr

\* No two addresses are ever told the same user id, not even by logins whose MSET
\* was lost or whose id was replaced since: again only -1 can be told to two.  And
\* a login that succeeds tells some id.
GivenOnce ==
    /\ \A p, q \in given : p[1] = q[1] /\ p[1] # ErrorId => p[2] = q[2]
    /\ \A p \in given : p[1] # NoId

\* While no Redis command has failed, every id that was ever told leads back to the
\* address it was told to: also one that a racing login of that address replaced.
GivenRecorded == faults = 0 => given \subseteq user_id_adr

\* An id belongs to one address: in Redis by address, in Redis by id, and in the
\* answers to all the logins there have been.
IdsSound == IdNotShared /\ IdLeadsBack /\ GivenOnce /\ GivenRecorded

\* The id of an address, once stored, is replaced only by a login whose GET failed,
\* or that overlapped with another login of the same address.
IdReplacedOnlyBlindOrRaced ==
    [][\A a \in Addresses :
          user_adr_id[a] # NoId /\ user_adr_id'[a] # user_adr_id[a] =>
              \E t \in Threads : At(t, "mset") /\ address[t] = a
                                 /\ (blind[t] \/ raced[t])]_vars

=============================================================================
