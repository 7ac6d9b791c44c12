----------------------------- MODULE CachePool -----------------------------
(***************************************************************************)
(* CachePool: the Redis connections that the worker threads share, with a  *)
(* free list, a limit on how many may exist, and a condition variable for  *)
(* the threads that find none.  CDBPool has the same algorithm.            *)
(*                                                                         *)
(* GetCacheConn and RelCacheConn hold m_free_notify's mutex from their     *)
(* first to their last line, so what one of them does between two waits is *)
(* one step.  Connections are numbered in the order they are created.      *)
(***************************************************************************)
EXTENDS Naturals, Sequences, FiniteSets

CONSTANTS Threads,
          MinConnCnt,   \* MIN_CACHE_CONN_CNT: connections made by Init
          MaxConnCnt    \* <pool>_maxconncnt of the configuration

ASSUME ConnCntAssumption == MinConnCnt \in Nat /\ MaxConnCnt \in Nat
ASSUME ThreadsAssumption == IsFiniteSet(Threads)

VARIABLES
    m_free_list, m_cur_conn_cnt,
    at,      \* where each thread is, see ThreadStates
    held,    \* the connection each thread got, or NoConn
    leaked   \* connections a caller dropped without RelCacheConn

poolVars == <<m_free_list, m_cur_conn_cnt, at, held, leaked>>

\* "out": outside the pool; "get": inside GetCacheConn, before its first test;
\* "wait": in pthread_cond_wait; "woken": signalled, but without the mutex yet;
\* "use": holds a connection.
ThreadStates == {"out", "get", "wait", "woken", "use"}
NoConn == 0
Conns == 1 .. m_cur_conn_cnt
Waiting == {t \in Threads : at[t] = "wait"}
Woken == {t \in Threads : at[t] = "woken"}

PoolInit ==
    /\ m_free_list = [i \in 1 .. MinConnCnt |-> i]
    /\ m_cur_conn_cnt = MinConnCnt
    /\ at = [t \in Threads |-> "out"]
    /\ held = [t \in Threads |-> NoConn]
    /\ leaked = {}

CallGet(t) ==
    /\ at[t] = "out"
    /\ at' = [at EXCEPT ![t] = "get"]
    /\ UNCHANGED <<m_free_list, m_cur_conn_cnt, held, leaked>>

\* The thread has the mutex and is at the test of the while loop.
AtLoop(t) == at[t] \in {"get", "woken"}

\* Mutant of TakeFree: the connection stays on the list.
TakeFreeKeeps(t) ==
    /\ AtLoop(t) /\ m_free_list # <<>>
    /\ held' = [held EXCEPT ![t] = Head(m_free_list)]
    /\ at' = [at EXCEPT ![t] = "use"]
    /\ UNCHANGED <<m_free_list, m_cur_conn_cnt, leaked>>

\* The free list is not empty: take its front.
TakeFree(t) ==
    /\ AtLoop(t) /\ m_free_list # <<>>
    /\ held' = [held EXCEPT ![t] = Head(m_free_list)]
    /\ m_free_list' = Tail(m_free_list)
    /\ at' = [at EXCEPT ![t] = "use"]
    /\ UNCHANGED <<m_cur_conn_cnt, leaked>>

WaitFree(t) ==
    /\ AtLoop(t) /\ m_free_list = <<>> /\ m_cur_conn_cnt >= MaxConnCnt
    /\ at' = [at EXCEPT ![t] = "wait"]
    /\ UNCHANGED <<m_free_list, m_cur_conn_cnt, held, leaked>>

\* A new connection is made, put on the free list and taken from it again.
Grow(t) ==
    /\ AtLoop(t) /\ m_free_list = <<>> /\ m_cur_conn_cnt < MaxConnCnt
    /\ m_cur_conn_cnt' = m_cur_conn_cnt + 1
    /\ held' = [held EXCEPT ![t] = m_cur_conn_cnt + 1]
    /\ at' = [at EXCEPT ![t] = "use"]
    /\ UNCHANGED <<m_free_list, leaked>>

\* Init of the new connection fails: GetCacheConn returns NULL.
GrowFails(t) ==
    /\ AtLoop(t) /\ m_free_list = <<>> /\ m_cur_conn_cnt < MaxConnCnt
    /\ at' = [at EXCEPT ![t] = "out"]
    /\ UNCHANGED <<m_free_list, m_cur_conn_cnt, held, leaked>>

\* Mutant of Signal: nobody is woken.
SignalNobody(a) == {a}

\* Signal wakes one of the waiting threads, if there is one.
Signal(a) ==
    IF Waiting = {} THEN {a} ELSE {[a EXCEPT ![u] = "woken"] : u \in Waiting}

RelCacheConn(t) ==
    /\ at[t] = "use"
    /\ m_free_list' =
           IF \E i \in 1 .. Len(m_free_list) : m_free_list[i] = held[t]
           THEN m_free_list ELSE Append(m_free_list, held[t])
    /\ held' = [held EXCEPT ![t] = NoConn]
    /\ at' \in Signal([at EXCEPT ![t] = "out"])
    /\ UNCHANGED <<m_cur_conn_cnt, leaked>>

\* The caller returns without RelCacheConn, as CInterLoginStrategy::ServerLogin
\* does when the signature or the address does not verify.
Forget(t) ==
    /\ at[t] = "use"
    /\ leaked' = leaked \cup {held[t]}
    /\ held' = [held EXCEPT ![t] = NoConn]
    /\ at' = [at EXCEPT ![t] = "out"]
    /\ UNCHANGED <<m_free_list, m_cur_conn_cnt>>

\* pthread_cond_wait may return without a signal.
SpuriousWakeup(t) ==
    /\ at[t] = "wait"
    /\ at' = [at EXCEPT ![t] = "woken"]
    /\ UNCHANGED <<m_free_list, m_cur_conn_cnt, held, leaked>>

GetCacheConn(t) ==
    TakeFree(t) \/ WaitFree(t) \/ Grow(t) \/ GrowFails(t) \/ SpuriousWakeup(t)

PoolNext == \E t \in Threads :
    CallGet(t) \/ GetCacheConn(t) \/ RelCacheConn(t) \/ Forget(t)

PoolSpec == PoolInit /\ [][PoolNext]_poolVars

-----------------------------------------------------------------------------
(* Properties.                                                             *)

PoolTypeOK ==
    /\ m_cur_conn_cnt \in Nat
    /\ m_free_list \in Seq(Conns)
    /\ at \in [Threads -> ThreadStates]
    /\ held \in [Threads -> Conns \cup {NoConn}]
    /\ leaked \subseteq Conns

\* A connection is in one place: on the free list once, with one thread, or
\* leaked.  Two threads never use the same Redis connection, although a woken
\* thread and a newcomer race for the one RelCacheConn has put back.
OneOwner ==
    /\ \A i, j \in 1 .. Len(m_free_list) :
           m_free_list[i] = m_free_list[j] => i = j
    /\ \A t, u \in Threads : held[t] # NoConn /\ held[t] = held[u] => t = u
    /\ \A t \in Threads, i \in 1 .. Len(m_free_list) :
           held[t] # m_free_list[i]
    /\ \A t \in Threads : held[t] \notin leaked
    /\ \A i \in 1 .. Len(m_free_list) : m_free_list[i] \notin leaked

\* No connection is lost by the pool: each one counted in m_cur_conn_cnt is free,
\* in use, or was dropped by its caller; and the limit is kept.
Accounted ==
    /\ \A c \in Conns :
          \/ \E i \in 1 .. Len(m_free_list) : m_free_list[i] = c
          \/ \E t \in Threads : held[t] = c
          \/ c \in leaked
    /\ m_cur_conn_cnt <= MaxConnCnt \/ m_cur_conn_cnt = MinConnCnt

\* Every connection of the pool is in exactly one place.
PoolSound == OneOwner /\ Accounted

\* No lost wakeup: while threads sleep in GetCacheConn there are at least as many
\* threads on their way to the free list as there are connections on it.
NoLostWakeup == Waiting # {} => Len(m_free_list) <= Cardinality(Woken)

\* A thread sleeps for good (nobody holds a connection that would be released,
\* and nobody was woken) only when MaxConnCnt callers have forgotten theirs.
BlockedOnlyByLeak ==
    Waiting # {} /\ (\A t \in Threads : at[t] \notin {"use", "woken"})
        => /\ Conns \subseteq leaked
           /\ m_cur_conn_cnt >= MaxConnCnt

=============================================================================
