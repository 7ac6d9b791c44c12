------------------------- MODULE LoginServiceProofs -------------------------
(***************************************************************************)
(* Proofs about CachePool for any finite set of threads and any pool size: *)
(* a connection has one owner, none is lost, no wakeup is lost, and a      *)
(* thread sleeps for good only when every connection has been leaked.      *)
(* Then about LoginService for any number of workers, addresses, logins    *)
(* and failing Redis commands: the workers use the pool as CachePool says, *)
(* and the ids they hand out are never shared, lead back to their address  *)
(* and are replaced only by a login that was blind or raced.               *)
(***************************************************************************)
EXTENDS LoginService, FiniteSetTheorems, TLAPS

\* A thread holds a connection exactly while it uses it.
Holding == \A t \in Threads : held[t] # NoConn <=> at[t] = "use"

\* Threads sleep only once the pool is at its limit, which it never leaves.
FullWhileWaiting == Waiting # {} => m_cur_conn_cnt >= MaxConnCnt

\* The inductive invariant.
PoolInv ==
    /\ PoolTypeOK /\ Holding /\ FullWhileWaiting
    /\ OneOwner /\ Accounted /\ NoLostWakeup

\* The woken threads are finitely many, and one more or one less counts as one.
LEMMA WokenCount ==
    ASSUME NEW A \in SUBSET Threads
    PROVE  /\ IsFiniteSet(A) /\ Cardinality(A) \in Nat
           /\ \A t \in Threads \ A : Cardinality(A \cup {t}) = Cardinality(A) + 1
           /\ \A t \in A : Cardinality(A \ {t}) = Cardinality(A) - 1
<1>1. IsFiniteSet(A)
  BY ThreadsAssumption, FS_Subset, Zenon
<1>. QED
  BY <1>1, FS_CardinalityType, FS_AddElement, FS_RemoveElement, Zenon

\* What taking the front of the free list and appending to it do to its elements.
LEMMA FreeList ==
    ASSUME NEW S, NEW s \in Seq(S)
    PROVE  /\ Len(s) \in Nat
           /\ s # <<>> =>
                /\ Len(s) > 0 /\ Head(s) = s[1] /\ s[1] \in S
                /\ Tail(s) \in Seq(S) /\ Len(Tail(s)) = Len(s) - 1
                /\ \A i \in 1 .. Len(Tail(s)) : Tail(s)[i] = s[i + 1]
           /\ \A c \in S :
                /\ Append(s, c) \in Seq(S) /\ Len(Append(s, c)) = Len(s) + 1
                /\ Append(s, c)[Len(s) + 1] = c
                /\ \A i \in 1 .. Len(s) : Append(s, c)[i] = s[i]
           /\ \A i \in 1 .. Len(s) : s[i] \in S
  OBVIOUS

\* The pool starts with MinConnCnt free connections and no thread inside.
LEMMA PoolInitInv == PoolInit => PoolInv
<1>. SUFFICES ASSUME PoolInit PROVE PoolInv
  BY Zenon
<1>. USE DEF PoolInit
<1>1. m_free_list \in Seq(Conns) /\ Len(m_free_list) = MinConnCnt
  BY ConnCntAssumption DEF Conns
<1>2. \A i \in 1 .. Len(m_free_list) : m_free_list[i] = i
  BY <1>1, Zenon
<1>3. PoolTypeOK
  BY <1>1, ConnCntAssumption, Zenon DEF PoolTypeOK, ThreadStates, Conns, NoConn
<1>4. Waiting = {}
  BY Zenon DEF Waiting
<1>5. Holding /\ FullWhileWaiting /\ NoLostWakeup
  BY <1>4, Zenon DEF Holding, FullWhileWaiting, NoLostWakeup
<1>6. OneOwner
  BY <1>1, <1>2, ConnCntAssumption DEF OneOwner, NoConn
<1>7. Accounted
  BY <1>1, <1>2, ConnCntAssumption, Zenon DEF Accounted, Conns
<1>. QED
  BY <1>3, <1>5, <1>6, <1>7, Zenon DEF PoolInv

\* Steps that move one thread and leave the connections where they are: entering
\* GetCacheConn, going to sleep, waking up without a signal, giving up.
LEMMA MoveStep ==
    ASSUME PoolInv, NEW t \in Threads,
           CallGet(t) \/ WaitFree(t) \/ GrowFails(t) \/ SpuriousWakeup(t)
    PROVE  PoolInv'
<1>. USE DEF PoolInv
<1>1. /\ UNCHANGED <<m_free_list, m_cur_conn_cnt, held, leaked>>
      /\ at[t] # "use" /\ at'[t] \in ThreadStates \ {"use"}
      /\ \A u \in Threads \ {t} : at'[u] = at[u]
      /\ at' \in [Threads -> ThreadStates]
  BY Zenon DEF PoolTypeOK, CallGet, WaitFree, GrowFails, SpuriousWakeup, AtLoop,
         ThreadStates
<1>2. PoolTypeOK'
  BY <1>1, Zenon DEF PoolTypeOK, Conns
<1>3. Holding'
  BY <1>1, Zenon DEF Holding
<1>4. OneOwner' /\ Accounted'
  BY <1>1 DEF OneOwner, Accounted, Conns
<1>5. FullWhileWaiting'
  <2>1. CASE WaitFree(t)
    BY <2>1, <1>1, Zenon DEF WaitFree, FullWhileWaiting
  <2>2. CASE ~ WaitFree(t)
    <3>1. at'[t] # "wait"
      BY <2>2, Zenon DEF PoolTypeOK, CallGet, GrowFails, SpuriousWakeup
    <3>. QED
      BY <3>1, <1>1, Zenon DEF FullWhileWaiting, Waiting
  <2>. QED
    BY <2>1, <2>2, Zenon
<1>6. NoLostWakeup'
  <2>1. Len(m_free_list) \in Nat
    BY FreeList, Zenon DEF PoolTypeOK
  <2>2. Woken \in SUBSET Threads /\ Woken' \in SUBSET Threads
    BY Zenon DEF Woken
  <2>3. CASE WaitFree(t) \/ GrowFails(t)
    <3>1. Len(m_free_list') = 0
      BY <2>3 DEF WaitFree, GrowFails
    <3>. QED
      BY <3>1, <2>2, WokenCount DEF NoLostWakeup
  <2>4. CASE CallGet(t)
    <3>1. Woken' = Woken /\ Waiting' = Waiting
      BY <2>4, <1>1, Zenon DEF PoolTypeOK, CallGet, Woken, Waiting
    <3>. QED
      BY <3>1, <1>1, Zenon DEF NoLostWakeup
  <2>5. CASE SpuriousWakeup(t)
    <3>1. /\ Waiting # {} /\ t \in Threads \ Woken
          /\ Woken' = Woken \cup {t}
      BY <2>5, <1>1, Zenon DEF PoolTypeOK, SpuriousWakeup, Woken, Waiting
    <3>. QED
      BY <3>1, <1>1, <2>1, <2>2, WokenCount DEF NoLostWakeup
  <2>. QED
    BY <2>3, <2>4, <2>5, Zenon
<1>. QED
  BY <1>2, <1>3, <1>4, <1>5, <1>6, Zenon

\* A thread takes the front of the free list, whether it came anew or was woken.
LEMMA TakeStep ==
    ASSUME PoolInv, NEW t \in Threads, TakeFree(t)
    PROVE  PoolInv'
<1>. USE DEF PoolInv
<1>. DEFINE s == m_free_list
<1>1. /\ s \in Seq(Conns) /\ s # <<>> /\ Len(s) \in Nat /\ Len(s) > 0
      /\ s' \in Seq(Conns) /\ Len(s') = Len(s) - 1
      /\ \A i \in 1 .. Len(s') : s'[i] = s[i + 1]
      /\ s[1] \in Conns
  BY FreeList, Zenon DEF PoolTypeOK, TakeFree
<1>2. /\ UNCHANGED <<m_cur_conn_cnt, leaked>>
      /\ at[t] \in {"get", "woken"} /\ at'[t] = "use" /\ held'[t] = s[1]
      /\ \A u \in Threads \ {t} : at'[u] = at[u] /\ held'[u] = held[u]
      /\ at' \in [Threads -> ThreadStates]
      /\ held' \in [Threads -> Conns \cup {NoConn}]
  BY <1>1, FreeList, Zenon DEF PoolTypeOK, TakeFree, AtLoop, ThreadStates
<1>. HIDE DEF s
<1>3. PoolTypeOK'
  BY <1>1, <1>2, Zenon DEF PoolTypeOK, Conns, s
<1>4. s[1] # NoConn
  BY <1>1 DEF Conns, NoConn, PoolTypeOK
<1>5. Holding'
  BY <1>2, <1>4, Zenon DEF Holding
<1>6. Waiting' = Waiting
  BY <1>2, Zenon DEF Waiting
<1>7. FullWhileWaiting'
  BY <1>2, <1>6, Zenon DEF FullWhileWaiting
<1>8. /\ \A i, j \in 1 .. Len(s) : s[i] = s[j] => i = j
      /\ \A u \in Threads, i \in 1 .. Len(s) : held[u] # s[i]
      /\ \A u \in Threads : held[u] \notin leaked
      /\ \A i \in 1 .. Len(s) : s[i] \notin leaked
      /\ \A u, v \in Threads : held[u] # NoConn /\ held[u] = held[v] => u = v
  BY Zenon DEF OneOwner, s
<1>9. OneOwner'
  <2>0. /\ \A i \in 1 .. Len(s') : i + 1 \in 1 .. Len(s) /\ i + 1 # 1 /\ s'[i] = s[i + 1]
        /\ \A i, j \in 1 .. Len(s') : i + 1 = j + 1 => i = j
        /\ 1 \in 1 .. Len(s)
    <3>1. /\ \A i \in 1 .. Len(s') : i + 1 \in 1 .. Len(s) /\ i + 1 # 1
          /\ \A i, j \in 1 .. Len(s') : i + 1 = j + 1 => i = j
          /\ 1 \in 1 .. Len(s)
      <4>. PICK n \in Nat : n = Len(s) /\ n > 0 /\ Len(s') = n - 1
        BY <1>1, Zenon
      <4>. QED
        OBVIOUS
    <3>. QED
      BY <1>1, <3>1, Zenon
  <2>1. \A i, j \in 1 .. Len(s') : s'[i] = s'[j] => i = j
    <3>. SUFFICES ASSUME NEW i \in 1 .. Len(s'), NEW j \in 1 .. Len(s'), s'[i] = s'[j]
                  PROVE  i = j
      BY Zenon
    <3>1. s[i + 1] = s[j + 1] /\ i + 1 \in 1 .. Len(s) /\ j + 1 \in 1 .. Len(s)
      BY <2>0, Zenon
    <3>2. i + 1 = j + 1
      BY <1>8, <3>1, Zenon
    <3>. QED
      BY <2>0, <3>2, Zenon
  <2>2. \A i \in 1 .. Len(s') : s'[i] # s[1] /\ s'[i] \notin leaked
    BY <1>8, <2>0, Zenon
  <2>3. /\ \A u \in Threads, i \in 1 .. Len(s') : held'[u] # s'[i]
        /\ \A u \in Threads : held'[u] \notin leaked
    <3>. SUFFICES ASSUME NEW u \in Threads
                  PROVE  /\ \A i \in 1 .. Len(s') : held'[u] # s'[i]
                         /\ held'[u] \notin leaked
      BY Zenon
    <3>1. CASE u = t
      <4>1. s[1] \notin leaked
        BY <1>1, <1>8
      <4>. QED
        BY <1>2, <2>2, <3>1, <4>1, Zenon
    <3>2. CASE u # t
      <4>1. \A i \in 1 .. Len(s') : i + 1 \in 1 .. Len(s)
        BY <1>1
      <4>. QED
        <5>1. held'[u] = held[u] /\ held[u] \notin leaked
          BY <1>2, <1>8, <3>2, Zenon
        <5>2. ASSUME NEW i \in 1 .. Len(s') PROVE held'[u] # s'[i]
          <6>1. s'[i] = s[i + 1] /\ i + 1 \in 1 .. Len(s)
            BY <1>1, <4>1, Zenon
          <6>. QED
            BY <1>8, <5>1, <6>1, Zenon
        <5>. QED
          BY <5>1, <5>2, Zenon
    <3>. QED
      BY <3>1, <3>2, Zenon
  <2>4. \A u, v \in Threads : held'[u] # NoConn /\ held'[u] = held'[v] => u = v
    BY <1>1, <1>2, <1>8
  <2>. QED
    BY <2>1, <2>2, <2>3, <2>4, <1>2, Zenon DEF OneOwner, s
<1>10. Accounted'
  <2>1. ASSUME NEW c \in Conns
        PROVE  \/ \E i \in 1 .. Len(s') : s'[i] = c
               \/ \E u \in Threads : held'[u] = c
               \/ c \in leaked
    <3>1. CASE \E i \in 1 .. Len(s) : s[i] = c
      <4>1. PICK i \in 1 .. Len(s) : s[i] = c
        BY <3>1, Zenon
      <4>2. CASE i = 1
        BY <4>1, <4>2, <1>2, Zenon
      <4>3. CASE i # 1
        <5>1. i - 1 \in 1 .. Len(s') /\ s'[i - 1] = c
          BY <4>1, <4>3, <1>1
        <5>. QED
          BY <5>1, Zenon
      <4>. QED
        BY <4>2, <4>3, Zenon
    <3>2. CASE \E u \in Threads : held[u] = c
      <4>1. PICK u \in Threads : held[u] = c
        BY <3>2, Zenon
      <4>2. u # t
        BY <4>1, <1>2 DEF Holding, Conns, NoConn, PoolTypeOK
      <4>. QED
        BY <4>1, <4>2, <1>2, Zenon
    <3>. QED
      BY <3>1, <3>2, Zenon DEF Accounted, s
  <2>. QED
    BY <2>1, <1>2, Zenon DEF Accounted, s, Conns
<1>11. NoLostWakeup'
  <2>1. Woken \in SUBSET Threads
    BY Zenon DEF Woken
  <2>2. CASE at[t] = "get"
    <3>1. Woken' = Woken
      BY <2>2, <1>2, Zenon DEF Woken
    <3>. QED
      BY <3>1, <2>1, <1>1, <1>6, WokenCount DEF NoLostWakeup, s
  <2>3. CASE at[t] = "woken"
    <3>1. t \in Woken /\ Woken' = Woken \ {t}
      BY <2>3, <1>2, Zenon DEF Woken
    <3>. QED
      BY <3>1, <2>1, <1>1, <1>6, WokenCount DEF NoLostWakeup, s
  <2>. QED
    BY <2>2, <2>3, <1>2, Zenon
<1>. QED
  BY <1>3, <1>5, <1>7, <1>9, <1>10, <1>11, Zenon

\* The pool grows by one connection, which goes to the thread that made it.
LEMMA GrowStep ==
    ASSUME PoolInv, NEW t \in Threads, Grow(t)
    PROVE  PoolInv'
<1>. USE DEF PoolInv
<1>. DEFINE n == m_cur_conn_cnt
<1>1. /\ n \in Nat /\ n' = n + 1 /\ n < MaxConnCnt
      /\ m_free_list = <<>> /\ m_free_list' = <<>> /\ leaked' = leaked
      /\ at[t] # "use" /\ at'[t] = "use" /\ held'[t] = n + 1
      /\ \A u \in Threads \ {t} : at'[u] = at[u] /\ held'[u] = held[u]
      /\ at' \in [Threads -> ThreadStates]
      /\ DOMAIN held' = Threads /\ held' = [u \in Threads |-> held'[u]]
  BY Zenon DEF PoolTypeOK, Grow, AtLoop, ThreadStates
<1>2. /\ \A u \in Threads : held[u] \in 0 .. n
      /\ \A c \in leaked : c \in 1 .. n
  BY DEF PoolTypeOK, Conns, NoConn
<1>3. PoolTypeOK'
  <2>1. \A u \in Threads : held'[u] \in 0 .. n + 1
    BY <1>1, <1>2
  <2>2. held' \in [Threads -> 0 .. n + 1]
    BY <1>1, <2>1, Zenon
  <2>3. leaked' \subseteq 1 .. n'
    BY <1>1, <1>2
  <2>4. (Conns \cup {NoConn})' = 0 .. n + 1
    BY <1>1 DEF Conns, NoConn
  <2>. QED
    BY <1>1, <2>2, <2>3, <2>4 DEF PoolTypeOK, Conns
<1>4. Holding'
  BY <1>1 DEF Holding, NoConn
<1>5. Waiting = {} /\ Waiting' = {}
  BY <1>1, ConnCntAssumption DEF FullWhileWaiting, Waiting
<1>6. FullWhileWaiting' /\ NoLostWakeup'
  BY <1>5, Zenon DEF FullWhileWaiting, NoLostWakeup
<1>7. OneOwner'
  <2>1. \A u, v \in Threads : held'[u] # NoConn /\ held'[u] = held'[v] => u = v
    BY <1>1, <1>2 DEF OneOwner
  <2>2. \A u \in Threads : held'[u] \notin leaked'
    <3>1. n + 1 \notin leaked
      BY <1>1, <1>2
    <3>2. \A u \in Threads : held[u] \notin leaked
      BY Zenon DEF OneOwner
    <3>. QED
      BY <1>1, <3>1, <3>2
  <2>. QED
    BY <1>1, <2>1, <2>2 DEF OneOwner
<1>8. Accounted'
  <2>1. ASSUME NEW c \in 1 .. n'
        PROVE  (\E u \in Threads : held'[u] = c) \/ c \in leaked'
    <3>1. CASE c = n + 1
      BY <3>1, <1>1, Zenon
    <3>2. CASE c \in 1 .. n
      <4>1. (\E u \in Threads : held[u] = c) \/ c \in leaked
        BY <3>2, <1>1 DEF Accounted, Conns
      <4>2. held[t] # c
        BY <3>2, <1>1 DEF Holding, NoConn
      <4>. QED
        BY <4>1, <4>2, <1>1, Zenon
    <3>. QED
      BY <3>1, <3>2, <1>1
  <2>2. n' <= MaxConnCnt
    BY <1>1, ConnCntAssumption
  <2>. QED
    BY <2>1, <2>2, Zenon DEF Accounted, Conns
<1>. QED
  BY <1>3, <1>4, <1>6, <1>7, <1>8, Zenon

\* A caller drops its connection: it is leaked, and nobody is woken.
LEMMA ForgetStep ==
    ASSUME PoolInv, NEW t \in Threads, Forget(t)
    PROVE  PoolInv'
<1>. USE DEF PoolInv
<1>1. /\ UNCHANGED <<m_free_list, m_cur_conn_cnt>>
      /\ leaked' = leaked \cup {held[t]}
      /\ at[t] = "use" /\ at'[t] = "out" /\ held'[t] = NoConn
      /\ \A u \in Threads \ {t} : at'[u] = at[u] /\ held'[u] = held[u]
      /\ at' \in [Threads -> ThreadStates]
      /\ held' \in [Threads -> Conns \cup {NoConn}]
  BY Zenon DEF PoolTypeOK, Forget, ThreadStates
<1>2. held[t] \in Conns /\ held[t] # NoConn
  BY <1>1, Zenon DEF PoolTypeOK, Holding
<1>3. PoolTypeOK'
  BY <1>1, <1>2, Zenon DEF PoolTypeOK, Conns
<1>4. Holding'
  BY <1>1, Zenon DEF Holding
<1>5. Waiting' = Waiting /\ Woken' = Woken
  BY <1>1, Zenon DEF Waiting, Woken
<1>6. FullWhileWaiting' /\ NoLostWakeup'
  BY <1>1, <1>5, Zenon DEF FullWhileWaiting, NoLostWakeup
<1>7. OneOwner'
  <2>1. NoConn \notin leaked'
    BY <1>1, <1>2 DEF PoolTypeOK, Conns, NoConn
  <2>2. \A u \in Threads : held'[u] = NoConn \/ (u # t /\ held'[u] = held[u])
    BY <1>1, Zenon
  <2>3. \A u \in Threads \ {t} : held[u] # held[t]
    BY <1>2, Zenon DEF OneOwner
  <2>4. \A i \in 1 .. Len(m_free_list) : m_free_list[i] \in Conns
    BY FreeList, Zenon DEF PoolTypeOK
  <2>5. \A i \in 1 .. Len(m_free_list) : m_free_list[i] # NoConn
    BY <2>4 DEF PoolTypeOK, Conns, NoConn
  <2>. QED
    BY <1>1, <2>1, <2>2, <2>3, <2>5 DEF OneOwner
<1>8. Accounted'
  <2>1. \A c \in Conns : (\E u \in Threads : held[u] = c)
            => (\E u \in Threads : held'[u] = c) \/ c \in leaked'
    BY <1>1, Zenon
  <2>. QED
    BY <2>1, <1>1, Zenon DEF Accounted, Conns
<1>. QED
  BY <1>3, <1>4, <1>6, <1>7, <1>8, Zenon

\* A connection is put back and, if threads sleep, one of them is woken for it.
LEMMA RelStep ==
    ASSUME PoolInv, NEW t \in Threads, RelCacheConn(t)
    PROVE  PoolInv'
<1>. USE DEF PoolInv
<1>. DEFINE s == m_free_list
            a == [at EXCEPT ![t] = "out"]
<1>1. held[t] \in Conns /\ held[t] # NoConn /\ at[t] = "use"
  BY Zenon DEF PoolTypeOK, Holding, RelCacheConn
<1>2. /\ s \in Seq(Conns) /\ s' = Append(s, held[t])
      /\ Len(s) \in Nat /\ Len(s') = Len(s) + 1 /\ s' \in Seq(Conns)
      /\ s'[Len(s) + 1] = held[t]
      /\ \A i \in 1 .. Len(s) : s'[i] = s[i]
  <2>1. s' = Append(s, held[t])
    BY Zenon DEF RelCacheConn, OneOwner
  <2>2. s \in Seq(Conns)
    BY Zenon DEF PoolTypeOK
  <2>. QED
    BY <1>1, <2>1, <2>2, FreeList
<1>3. /\ UNCHANGED <<m_cur_conn_cnt, leaked>>
      /\ held'[t] = NoConn /\ \A u \in Threads \ {t} : held'[u] = held[u]
      /\ held' \in [Threads -> Conns \cup {NoConn}]
      /\ at' \in Signal(a)
  BY Zenon DEF PoolTypeOK, RelCacheConn
<1>4. /\ a \in [Threads -> ThreadStates] /\ a[t] = "out"
      /\ \A u \in Threads \ {t} : a[u] = at[u]
  BY Zenon DEF PoolTypeOK, ThreadStates
<1>5. Waiting \in SUBSET Threads /\ Woken \in SUBSET Threads /\ t \notin Waiting
      /\ t \notin Woken
  BY <1>1, Zenon DEF Waiting, Woken
<1>. HIDE DEF a, s
<1>6. \/ Waiting = {} /\ at' = a
      \/ \E u \in Waiting : at' = [a EXCEPT ![u] = "woken"]
  BY <1>3, Zenon DEF Signal
<1>7. /\ at' \in [Threads -> ThreadStates] /\ at'[t] = "out"
      /\ \A u \in Threads \ {t} : at'[u] = "use" <=> at[u] = "use"
      /\ Waiting' \subseteq Waiting
      /\ Waiting # {} => \E u \in Threads \ Woken : Woken' = Woken \cup {u}
  <2>1. CASE Waiting = {} /\ at' = a
    BY <2>1, <1>4, Zenon DEF Waiting
  <2>2. CASE \E u \in Waiting : at' = [a EXCEPT ![u] = "woken"]
    <3>1. PICK u \in Waiting : at' = [a EXCEPT ![u] = "woken"]
      BY <2>2, Zenon
    <3>2. u \in Threads /\ u # t /\ at[u] = "wait"
      BY <3>1, <1>5, Zenon DEF Waiting
    <3>3. /\ at' \in [Threads -> ThreadStates] /\ at'[u] = "woken"
          /\ \A v \in Threads \ {u} : at'[v] = a[v]
      BY <3>1, <3>2, <1>4, Zenon DEF ThreadStates
    <3>4. Woken' = Woken \cup {u} /\ u \notin Woken
      BY <3>2, <3>3, <1>1, <1>4, Zenon DEF Woken
    <3>5. Waiting' \subseteq Waiting
      BY <3>2, <3>3, <1>4, Zenon DEF Waiting
    <3>. QED
      BY <3>2, <3>3, <3>4, <3>5, <1>4, Zenon
  <2>. QED
    BY <2>1, <2>2, <1>6, Zenon
<1>8. PoolTypeOK'
  BY <1>2, <1>3, <1>7, Zenon DEF PoolTypeOK, Conns, s
<1>9. Holding'
  BY <1>3, <1>7, Zenon DEF Holding
<1>10. FullWhileWaiting'
  BY <1>3, <1>7, Zenon DEF FullWhileWaiting
<1>11. NoLostWakeup'
  <2>1. CASE Waiting' = {}
    BY <2>1, Zenon DEF NoLostWakeup
  <2>2. CASE Waiting' # {}
    <3>1. PICK u \in Threads \ Woken : Woken' = Woken \cup {u}
      BY <1>7, <2>2, Zenon
    <3>2. Cardinality(Woken') = Cardinality(Woken) + 1 /\ Cardinality(Woken) \in Nat
      BY <1>5, <3>1, WokenCount, Zenon
    <3>3. Len(s) <= Cardinality(Woken)
      BY <1>7, <2>2, Zenon DEF NoLostWakeup, s
    <3>4. Len(s') <= Cardinality(Woken')
      BY <1>2, <3>2, <3>3
    <3>. QED
      BY <3>4, Zenon DEF NoLostWakeup, s
  <2>. QED
    BY <2>1, <2>2, Zenon
<1>12. OneOwner'
  <2>1. \A i \in 1 .. Len(s') : i = Len(s) + 1 \/ i \in 1 .. Len(s)
    BY <1>2
  <2>2. /\ \A i, j \in 1 .. Len(s) : s[i] = s[j] => i = j
        /\ \A i \in 1 .. Len(s) : s[i] # held[t] /\ s[i] \notin leaked
        /\ \A u \in Threads, i \in 1 .. Len(s) : held[u] # s[i]
        /\ \A u \in Threads : held[u] \notin leaked
        /\ \A u, v \in Threads : held[u] # NoConn /\ held[u] = held[v] => u = v
    BY Zenon DEF OneOwner, s
  <2>3. \A i, j \in 1 .. Len(s') : s'[i] = s'[j] => i = j
    BY <1>2, <2>1, <2>2
  <2>4. \A i \in 1 .. Len(s') : s'[i] \notin leaked'
    BY <1>2, <1>3, <2>1, <2>2, Zenon
  <2>5. NoConn \notin leaked /\ \A i \in 1 .. Len(s') : s'[i] # NoConn
    <3>1. \A i \in 1 .. Len(s') : s'[i] \in Conns
      BY <1>2, FreeList, Zenon
    <3>. QED
      BY <3>1 DEF PoolTypeOK, Conns, NoConn
  <2>6. \A u \in Threads : held'[u] = NoConn \/ (u # t /\ held'[u] = held[u])
    BY <1>3, Zenon
  <2>7. \A u \in Threads, i \in 1 .. Len(s') : held'[u] # s'[i]
    BY <1>1, <1>2, <2>1, <2>2, <2>5, <2>6
  <2>8. \A u \in Threads : held'[u] \notin leaked'
    BY <1>3, <2>2, <2>5, <2>6, Zenon
  <2>9. \A u, v \in Threads : held'[u] # NoConn /\ held'[u] = held'[v] => u = v
    BY <2>2, <2>6, Zenon
  <2>. QED
    BY <2>3, <2>4, <2>7, <2>8, <2>9, Zenon DEF OneOwner, s
<1>13. Accounted'
  <2>1. \A c \in Conns : (\E i \in 1 .. Len(s) : s[i] = c)
            => (\E i \in 1 .. Len(s') : s'[i] = c)
    BY <1>2
  <2>2. \A c \in Conns : (\E u \in Threads : held[u] = c)
            => \/ \E u \in Threads : held'[u] = c
               \/ \E i \in 1 .. Len(s') : s'[i] = c
    BY <1>2, <1>3
  <2>. QED
    BY <2>1, <2>2, <1>3, Zenon DEF Accounted, Conns, s
<1>. QED
  BY <1>8, <1>9, <1>10, <1>11, <1>12, <1>13, Zenon

\* Every step of the pool keeps the invariant.
LEMMA PoolStep == PoolInv /\ [PoolNext]_poolVars => PoolInv'
<1>. SUFFICES ASSUME PoolInv, [PoolNext]_poolVars PROVE PoolInv'
  BY Zenon
<1>1. CASE PoolNext
  BY <1>1, MoveStep, TakeStep, GrowStep, ForgetStep, RelStep, Zenon
     DEF PoolNext, GetCacheConn
<1>2. CASE UNCHANGED poolVars
  BY <1>2 DEF poolVars, PoolInv, PoolTypeOK, Holding, FullWhileWaiting, OneOwner,
              Accounted, NoLostWakeup, Waiting, Woken, Conns
<1>. QED
  BY <1>1, <1>2, Zenon

\* While all who sleep are past waking, every connection is leaked and the pool is
\* full: GetCacheConn blocks for good for no other reason.
LEMMA PoolBlocked == PoolInv => BlockedOnlyByLeak
<1>. SUFFICES ASSUME PoolInv, Waiting # {},
                     \A t \in Threads : at[t] \notin {"use", "woken"}
              PROVE  Conns \subseteq leaked /\ m_cur_conn_cnt >= MaxConnCnt
  BY Zenon DEF BlockedOnlyByLeak
<1>. USE DEF PoolInv
<1>1. Woken = {}
  BY Zenon DEF Woken
<1>2. Len(m_free_list) = 0
  BY <1>1, FS_EmptySet, FreeList DEF NoLostWakeup, PoolTypeOK
<1>3. \A t \in Threads : held[t] = NoConn
  BY Zenon DEF Holding
<1>4. \A c \in Conns : c # NoConn
  BY DEF Conns, NoConn, PoolTypeOK
<1>. QED
  BY <1>2, <1>3, <1>4 DEF Accounted, FullWhileWaiting

\* The pool alone, with threads that get, release and forget connections in any
\* order: one owner for each connection, none lost, the limit kept, no wakeup
\* lost, and nobody blocked for good unless MaxConnCnt callers forgot theirs.
THEOREM PoolCorrect ==
    PoolSpec => [](PoolSound /\ NoLostWakeup /\ BlockedOnlyByLeak)
<1>1. PoolInv => PoolSound /\ NoLostWakeup /\ BlockedOnlyByLeak
  BY PoolBlocked, Zenon DEF PoolInv, PoolSound
<1>. QED
  BY <1>1, PoolInitInv, PoolStep, PTL DEF PoolSpec


-----------------------------------------------------------------------------
(* The login service. *)

\* What follows the look at the stored id, up to the MSET that stores a new one.
Storing(t) == step[t] \in {"incr", "incrby", "mset"}

\* From the MSET on a login has the id it will return.
Told(t) == step[t] \in {"mset", "mget", "rel"}

\* Address a has id i: in Redis, on the way in a login, or told by an earlier one.
Claim(i, a) ==
    \/ user_adr_id[a] = i
    \/ \E t \in Threads : Told(t) /\ user_id[t] = i /\ address[t] = a
    \/ <<i, a>> \in given

\* The counter has passed every id that any address has: what it returns next is new.
Counted == \A i \in Int, a \in Addresses : Claim(i, a) => i <= user_id_incr

\* An id is of one address, whichever way the address has it.
OneClaim ==
    \A i \in Int \ {NoId, ErrorId}, a, b \in Addresses : Claim(i, a) /\ Claim(i, b) => a = b

\* A login that has an id has one, and so has one that told it.
RealIds ==
    /\ \A t \in Threads : Told(t) => user_id[t] # NoId
    /\ \A p \in given : p[1] # NoId

\* While no command has failed, no id is -1, and a login past its MSET, like one
\* that found an id, has the id that Redis records for its address.
Recorded ==
    faults = 0 =>
        /\ \A a \in Addresses : user_adr_id[a] # ErrorId
        /\ \A t \in Threads : Told(t) => user_id[t] # ErrorId
        /\ \A t \in Threads : step[t] \in {"mget", "rel"} =>
               <<user_id[t], address[t]>> \in user_id_adr
        /\ given \subseteq user_id_adr

\* A worker on its way to store an id has seen that its address has none, unless
\* its GET failed or another login has stored one since.
NoneStored ==
    \A t \in Threads : Storing(t) /\ ~blind[t] /\ ~raced[t]
        => user_adr_id[address[t]] = NoId

\* The inductive invariant about ids, without the types.
IdInv == Counted /\ OneClaim /\ RealIds /\ Recorded /\ NoneStored /\ IdLeadsBack

\* Whatever a worker does to the pool is a step of CachePool.
LEMMA PoolUse == Next => [PoolNext]_poolVars
<1>. SUFFICES ASSUME NEW t \in Threads,
                     \/ \E a \in Addresses, good \in BOOLEAN : Start(t, a, good)
                     \/ Advance(t)
              PROVE  [PoolNext]_poolVars
  BY Zenon DEF Next
<1>1. CASE \E a \in Addresses, good \in BOOLEAN : Start(t, a, good)
  BY <1>1, Zenon DEF Start, PoolNext
<1>2. CASE Get(t) \/ Verify(t) \/ Release(t)
  BY <1>2, Zenon DEF Get, Verify, Release, PoolNext
<1>3. CASE \E o \in {"reply", "unsent", "unheard"} :
          GetUserId(t, o) \/ Incr(t, o) \/ IncrBy(t, o) \/ MSet(t, o) \/ MGet(t, o)
  BY <1>3, Zenon DEF GetUserId, Incr, IncrBy, MSet, MGet
<1>. QED
  BY <1>1, <1>2, <1>3, Zenon DEF Advance

\* ServerLogin on many workers implements the pool's specification: it never gets
\* or releases a connection in a way CachePool does not describe.
THEOREM LoginImplementsPool == Spec => PoolSpec
<1>1. Init => PoolInit
  BY Zenon DEF Init
<1>2. [Next]_vars => [PoolNext]_poolVars
  <2>1. UNCHANGED vars => UNCHANGED poolVars
    BY Zenon DEF vars
  <2>. QED
    BY <2>1, PoolUse, Zenon
<1>. QED
  BY <1>1, <1>2, PTL DEF Spec, PoolSpec

\* So the pool's guarantees hold for the login workers: no two of them share a
\* Redis connection, and one sleeps for good only when logins with signatures
\* that do not verify have taken every connection away.
THEOREM LoginPoolCorrect ==
    Spec => [](PoolSound /\ NoLostWakeup /\ BlockedOnlyByLeak)
  BY LoginImplementsPool, PoolCorrect, PTL

\* A worker's locals and Redis keep their types whatever it does.
LEMMA LoginTypeStep ==
    ASSUME LoginTypeOK, NEW t \in Threads,
           \/ \E a \in Addresses, good \in BOOLEAN : Start(t, a, good)
           \/ Advance(t)
    PROVE  LoginTypeOK'
<1>. USE LoginAssumption DEF LoginTypeOK, Steps
<1>1. CASE \E a \in Addresses, good \in BOOLEAN : Start(t, a, good)
  BY <1>1 DEF Start, redis, NoId
<1>2. CASE Get(t)
  BY <1>2, Zenon DEF Get, redis, history
<1>3. CASE Verify(t)
  BY <1>3, Zenon DEF Verify, Goto, redis, history
<1>4. CASE Release(t)
  <2>1. <<user_id[t], address[t]>> \in Int \X Addresses
    BY Zenon
  <2>2. given' \subseteq Int \X Addresses
    BY <1>4, <2>1, Zenon DEF Release
  <2>. QED
    BY <1>4, <2>2, Zenon DEF Release, Goto, redis
<1>5. ASSUME NEW o \in {"reply", "unsent", "unheard"}, o \in Outcomes, Fault(o)
      PROVE  faults' \in 0 .. MaxFaults
  BY <1>5 DEF Outcomes, Fault
<1>6. ASSUME NEW o \in {"reply", "unsent", "unheard"}, GetUserId(t, o)
      PROVE  LoginTypeOK'
  <2>1. user_adr_id[address[t]] \in Int /\ NoId \in Int
    BY DEF NoId
  <2>. QED
    BY <1>5, <1>6, <2>1, Zenon DEF GetUserId, Goto, redis
<1>7. ASSUME NEW o \in {"reply", "unsent", "unheard"}, Incr(t, o)
      PROVE  LoginTypeOK'
  BY <1>5, <1>7 DEF Incr, Goto, history, ErrorId
<1>8. ASSUME NEW o \in {"reply", "unsent", "unheard"}, IncrBy(t, o)
      PROVE  LoginTypeOK'
  BY <1>5, <1>8 DEF IncrBy, Goto, history, ErrorId
<1>9. ASSUME NEW o \in {"reply", "unsent", "unheard"}, MSet(t, o)
      PROVE  LoginTypeOK'
  <2>1. CASE o = "unsent"
    BY <1>5, <1>9, <2>1, Zenon DEF MSet, Goto
  <2>2. CASE o # "unsent"
    <3>1. raced' \in [Threads -> BOOLEAN]
      BY <1>9, <2>2, Zenon DEF MSet
    <3>2. user_id_adr' \subseteq Int \X Addresses
      BY <1>9, <2>2 DEF MSet
    <3>. QED
      BY <1>5, <1>9, <2>2, <3>1, <3>2, Zenon DEF MSet, Goto
  <2>. QED
    BY <2>1, <2>2, Zenon
<1>10. ASSUME NEW o \in {"reply", "unsent", "unheard"}, MGet(t, o)
       PROVE  LoginTypeOK'
  BY <1>5, <1>10, Zenon DEF MGet, Goto, redis, history
<1>. QED
  BY <1>1, <1>2, <1>3, <1>4, <1>6, <1>7, <1>8, <1>9, <1>10, Zenon DEF Advance

\* A step that brings in at most one claim keeps ids apart if that claim is to -1
\* or to an id the counter has just passed.
LEMMA ClaimStep ==
    ASSUME LoginTypeOK, LoginTypeOK', Counted, OneClaim,
           NEW t \in Threads, NEW n \in Int, NEW c \in Addresses,
           n = ErrorId \/ (n > user_id_incr /\ n <= user_id_incr'),
           user_id_incr' >= user_id_incr,
           \A a \in Addresses : Claim(user_adr_id'[a], a),
           \A u \in Threads \ {t} : Told(u)' =>
               Told(u) /\ user_id'[u] = user_id[u] /\ address'[u] = address[u],
           Told(t)' => \/ Claim(user_id'[t], address'[t])
                       \/ user_id'[t] = n /\ address'[t] = c,
           \A i \in Int, a \in Addresses : <<i, a>> \in given' => Claim(i, a)
    PROVE  Counted' /\ OneClaim'
<1>1. ASSUME NEW i \in Int, NEW a \in Addresses, Claim(i, a)'
      PROVE  Claim(i, a) \/ (i = n /\ a = c)
  <2>1. CASE user_adr_id'[a] = i
    BY <2>1, Zenon
  <2>2. CASE \E u \in Threads : Told(u)' /\ user_id'[u] = i /\ address'[u] = a
    <3>1. PICK u \in Threads : Told(u)' /\ user_id'[u] = i /\ address'[u] = a
      BY <2>2, Zenon
    <3>2. CASE u = t
      BY <3>1, <3>2, Zenon
    <3>3. CASE u # t
      BY <3>1, <3>3, Zenon DEF Claim
    <3>. QED
      BY <3>2, <3>3, Zenon
  <2>3. CASE <<i, a>> \in given'
    BY <2>3, Zenon
  <2>. QED
    BY <1>1, <2>1, <2>2, <2>3, Zenon DEF Claim
<1>2. user_id_incr \in Nat /\ user_id_incr' \in Nat
  BY Zenon DEF LoginTypeOK
<1>3. ASSUME NEW i \in Int, NEW a \in Addresses, Claim(i, a)' PROVE i <= user_id_incr'
  <2>1. CASE Claim(i, a)
    <3>1. i <= user_id_incr
      BY <2>1, Zenon DEF Counted
    <3>. QED
      BY <1>2, <3>1
  <2>2. CASE i = n
    BY <1>2, <2>2 DEF ErrorId
  <2>. QED
    BY <1>1, <1>3, <2>1, <2>2, Zenon
<1>4. ASSUME NEW i \in Int \ {NoId, ErrorId}, NEW a \in Addresses, NEW b \in Addresses,
             Claim(i, a)', Claim(i, b)'
      PROVE  a = b
  <2>1. i = n => ~ Claim(i, a) /\ ~ Claim(i, b)
    <3>1. i = n => i > user_id_incr
      BY <1>4, Zenon
    <3>2. (Claim(i, a) => i <= user_id_incr) /\ (Claim(i, b) => i <= user_id_incr)
      BY Zenon DEF Counted
    <3>3. ~ (i > user_id_incr /\ i <= user_id_incr)
      BY <1>2
    <3>. QED
      BY <3>1, <3>2, <3>3, Zenon
  <2>2. Claim(i, a) /\ Claim(i, b) => a = b
    BY Zenon DEF OneClaim
  <2>. QED
    BY <1>1, <1>4, <2>1, <2>2, Zenon
<1>. QED
  BY <1>3, <1>4, Zenon DEF Counted, OneClaim

\* A step of one worker leaves the locals of the others alone.
LEMMA LocalStep ==
    ASSUME LoginTypeOK, NEW t \in Threads,
           \/ \E a \in Addresses, good \in BOOLEAN : Start(t, a, good)
           \/ Advance(t)
    PROVE  \A u \in Threads \ {t} :
               step'[u] = step[u] /\ user_id'[u] = user_id[u] /\ address'[u] = address[u]
<1>. USE DEF LoginTypeOK
<1>1. CASE \E a \in Addresses, good \in BOOLEAN : Start(t, a, good)
  BY <1>1, Zenon DEF Start
<1>2. CASE Get(t) \/ Verify(t) \/ Release(t)
  BY <1>2, Zenon DEF Get, Verify, Release, Goto
<1>3. CASE \E o \in {"reply", "unsent", "unheard"} :
          GetUserId(t, o) \/ Incr(t, o) \/ IncrBy(t, o) \/ MSet(t, o) \/ MGet(t, o)
  BY <1>3, Zenon DEF GetUserId, Incr, IncrBy, MSet, MGet, Goto
<1>. QED
  BY <1>1, <1>2, <1>3, Zenon DEF Advance

\* A command that leaves no fault behind got its reply.
LEMMA FaultReply ==
    ASSUME LoginTypeOK, NEW o, Fault(o), faults' = 0
    PROVE  o = "reply" /\ faults = 0
  BY DEF LoginTypeOK, Fault

\* Faults are counted, never forgotten.
LEMMA FaultStep ==
    ASSUME LoginTypeOK, NEW t \in Threads,
           \/ \E a \in Addresses, good \in BOOLEAN : Start(t, a, good)
           \/ Advance(t)
    PROVE  faults' = 0 => faults = 0
<1>1. CASE \E a \in Addresses, good \in BOOLEAN : Start(t, a, good)
  BY <1>1, Zenon DEF Start
<1>2. CASE Get(t) \/ Verify(t) \/ Release(t)
  BY <1>2, Zenon DEF Get, Verify, Release
<1>3. CASE \E o \in {"reply", "unsent", "unheard"} :
          GetUserId(t, o) \/ Incr(t, o) \/ IncrBy(t, o) \/ MSet(t, o) \/ MGet(t, o)
  BY <1>3, FaultReply, Zenon DEF GetUserId, Incr, IncrBy, MSet, MGet
<1>. QED
  BY <1>1, <1>2, <1>3, Zenon DEF Advance

\* Steps that neither take an id from the counter nor store one: a login that
\* begins or ends, and the commands that only read.
LEMMA ReadStep ==
    ASSUME LoginTypeOK, LoginTypeOK', IdInv, NEW t \in Threads,
           \/ \E a \in Addresses, good \in BOOLEAN : Start(t, a, good)
           \/ Get(t) \/ Verify(t) \/ Release(t)
           \/ \E o \in {"reply", "unsent", "unheard"} : GetUserId(t, o) \/ MGet(t, o)
    PROVE  IdInv'
<1>. USE DEF IdInv
<1>1. /\ UNCHANGED redis
      /\ \/ ~ Storing(t)'
         \/ /\ step'[t] = step[t] /\ address'[t] = address[t]
            /\ blind'[t] = blind[t] /\ raced'[t] = raced[t]
         \/ blind'[t] \/ user_adr_id[address'[t]] = NoId
      /\ \/ ~ Told(t)'
         \/ /\ step'[t] = step[t] \/ step[t] = "mget"
            /\ Told(t) /\ user_id'[t] = user_id[t] /\ address'[t] = address[t]
         \/ user_id'[t] = user_adr_id[address'[t]] /\ user_id'[t] # NoId
      /\ \/ given' = given
         \/ /\ Told(t) /\ step[t] = "rel"
            /\ given' = given \cup {<<user_id[t], address[t]>>}
      /\ \A u \in Threads \ {t} : blind'[u] = blind[u] /\ raced'[u] = raced[u]
  <2>. USE DEF LoginTypeOK
  <2>1. CASE \E a \in Addresses, good \in BOOLEAN : Start(t, a, good)
    <3>1. step'[t] = "verify"
      BY <2>1, Zenon DEF Start
    <3>2. ~ Storing(t)' /\ ~ Told(t)'
      BY <3>1, Zenon DEF Storing, Told
    <3>3. UNCHANGED redis /\ given' = given
      BY <2>1, Zenon DEF Start
    <3>4. \A u \in Threads \ {t} : blind'[u] = blind[u] /\ raced'[u] = raced[u]
      <4>1. blind' = [blind EXCEPT ![t] = FALSE] /\ raced' = [raced EXCEPT ![t] = FALSE]
        BY <2>1, Zenon DEF Start
      <4>. QED
        BY <4>1, Zenon
    <3>. QED
      BY <3>2, <3>3, <3>4, Zenon
  <2>2. CASE Get(t)
    <3>1. step'[t] = step[t] \/ step'[t] = "none"
      BY <2>2, Zenon DEF Get
    <3>2. step'[t] = step[t] \/ (~ Storing(t)' /\ ~ Told(t)')
      BY <3>1, Zenon DEF Storing, Told
    <3>. QED
      BY <2>2, <3>2, Zenon DEF Get, history, Told
  <2>3. CASE Verify(t)
    <3>1. step'[t] = "get" \/ step'[t] = "none"
      BY <2>3, Zenon DEF Verify, Goto
    <3>2. ~ Storing(t)' /\ ~ Told(t)'
      BY <3>1, Zenon DEF Storing, Told
    <3>. QED
      BY <2>3, <3>2, Zenon DEF Verify, history
  <2>4. CASE Release(t)
    <3>1. step'[t] = "none" /\ step[t] = "rel"
      BY <2>4, Zenon DEF Release, Goto, At
    <3>2. ~ Storing(t)' /\ ~ Told(t)' /\ Told(t)
      BY <3>1, Zenon DEF Storing, Told
    <3>. QED
      BY <2>4, <3>1, <3>2, Zenon DEF Release
  <2>5. CASE \E o \in {"reply", "unsent", "unheard"} : MGet(t, o)
    <3>1. step'[t] = "rel" /\ step[t] = "mget"
      BY <2>5, Zenon DEF MGet, Goto, At
    <3>2. ~ Storing(t)' /\ Told(t)
      BY <3>1, Zenon DEF Storing, Told
    <3>. QED
      BY <2>5, <3>1, <3>2, Zenon DEF MGet, history
  <2>6. CASE \E o \in {"reply", "unsent", "unheard"} : GetUserId(t, o)
    <3>1. PICK o \in {"reply", "unsent", "unheard"} : GetUserId(t, o)
      BY <2>6, Zenon
    <3>2. /\ UNCHANGED <<redis, address, raced, given>>
          /\ \A u \in Threads \ {t} : blind'[u] = blind[u]
          /\ blind'[t] = (o # "reply")
      BY <3>1, Zenon DEF GetUserId
    <3>3. user_id'[t] = IF o = "reply" THEN user_adr_id[address[t]] ELSE NoId
      BY <3>1, Zenon DEF GetUserId
    <3>4. step'[t] = IF user_id'[t] = NoId THEN "incr" ELSE "mget"
      BY <3>1, Zenon DEF GetUserId, Goto
    <3>5. CASE user_id'[t] = NoId
      <4>1. ~ Told(t)'
        BY <3>4, <3>5, Zenon DEF Told
      <4>. QED
        BY <3>2, <3>3, <3>5, <4>1, Zenon
    <3>6. CASE user_id'[t] # NoId
      <4>1. ~ Storing(t)'
        BY <3>4, <3>6, Zenon DEF Storing
      <4>. QED
        BY <3>2, <3>3, <3>6, <4>1, Zenon
    <3>. QED
      BY <3>5, <3>6, Zenon
  <2>. QED
    BY <2>1, <2>2, <2>3, <2>4, <2>5, <2>6, Zenon
<1>2. /\ user_adr_id' = user_adr_id /\ user_id_incr' = user_id_incr
      /\ user_id_adr' = user_id_adr
  BY <1>1, Zenon DEF redis
<1>3. \A u \in Threads \ {t} :
          step'[u] = step[u] /\ user_id'[u] = user_id[u] /\ address'[u] = address[u]
  BY LocalStep, Zenon DEF Advance
<1>4. Counted' /\ OneClaim'
  <2>1. ErrorId \in Int /\ user_id_incr' >= user_id_incr
    BY <1>2 DEF ErrorId, LoginTypeOK
  <2>2. \A a \in Addresses : Claim(user_adr_id'[a], a)
    BY <1>2, Zenon DEF Claim
  <2>3. Told(t)' => Claim(user_id'[t], address'[t])
    BY <1>1, Zenon DEF Claim
  <2>4. \A i \in Int, a \in Addresses : <<i, a>> \in given' => Claim(i, a)
    <3>1. \A i, a : <<i, a>> = <<user_id[t], address[t]>> => i = user_id[t] /\ a = address[t]
      BY Zenon
    <3>2. \A x \in given' : x \in given \/ (Told(t) /\ x = <<user_id[t], address[t]>>)
      BY <1>1, Zenon
    <3>. QED
      BY <3>1, <3>2, Zenon DEF Claim
  <2>5. \A u \in Threads \ {t} : Told(u)' =>
            Told(u) /\ user_id'[u] = user_id[u] /\ address'[u] = address[u]
    BY <1>3, Zenon DEF Told
  <2>6. address[t] \in Addresses
    BY Zenon DEF LoginTypeOK
  <2>. QED
    BY <2>1, <2>2, <2>3, <2>4, <2>5, <2>6, ClaimStep, Zenon
<1>5. RealIds'
  <2>1. \A u \in Threads : Told(u)' => user_id'[u] # NoId
    BY <1>1, <1>3, ZenonT(40) DEF RealIds, Told
  <2>2. Told(t) => <<user_id[t], address[t]>>[1] # NoId
    <3>1. <<user_id[t], address[t]>>[1] = user_id[t]
      BY Zenon
    <3>. QED
      BY <3>1, Zenon DEF RealIds
  <2>3. \A p \in given' : p[1] # NoId
    BY <1>1, <2>2, Zenon DEF RealIds
  <2>. QED
    BY <2>1, <2>3, Zenon DEF RealIds
<1>6. NoneStored'
  <2>1. ASSUME NEW u \in Threads, Storing(u)', ~ blind'[u], ~ raced'[u]
        PROVE  user_adr_id'[address'[u]] = NoId
    <3>1. \/ user_adr_id[address'[u]] = NoId
          \/ /\ step'[u] = step[u] /\ address'[u] = address[u]
             /\ blind'[u] = blind[u] /\ raced'[u] = raced[u]
      <4>1. CASE u = t
        BY <1>1, <2>1, <4>1, Zenon
      <4>2. CASE u # t
        BY <1>1, <1>3, <4>2, Zenon
      <4>. QED
        BY <4>1, <4>2, Zenon
    <3>. QED
      BY <1>2, <2>1, <3>1, Zenon DEF NoneStored, Storing
  <2>. QED
    BY <2>1, Zenon DEF NoneStored
<1>7. IdLeadsBack'
  BY <1>2, Zenon DEF IdLeadsBack
<1>8. Recorded'
  <2>1. SUFFICES ASSUME faults' = 0 PROVE Recorded'
    BY Zenon DEF Recorded
  <2>2. faults = 0
    BY <2>1, FaultStep, Zenon DEF Advance
  <2>3. \A a \in Addresses : user_adr_id'[a] # ErrorId
    BY <1>2, <2>2, Zenon DEF Recorded
  <2>4. ASSUME NEW u \in Threads, Told(u)'
        PROVE  /\ user_id'[u] # ErrorId
               /\ step'[u] \in {"mget", "rel"} =>
                      <<user_id'[u], address'[u]>> \in user_id_adr'
    <3>1. CASE /\ Told(u) /\ user_id'[u] = user_id[u] /\ address'[u] = address[u]
               /\ step'[u] = step[u] \/ step[u] = "mget"
      BY <1>2, <2>2, <3>1, Zenon DEF Recorded
    <3>2. CASE user_id'[u] = user_adr_id[address'[u]] /\ user_id'[u] # NoId
      <4>1. address'[u] \in Addresses
        BY Zenon DEF LoginTypeOK
      <4>. QED
        BY <1>2, <2>2, <3>2, <4>1, Zenon DEF Recorded, IdLeadsBack
    <3>. QED
      BY <1>1, <1>3, <2>4, <3>1, <3>2, Zenon DEF Told
  <2>5. given' \subseteq user_id_adr'
    BY <1>1, <1>2, <2>2, Zenon DEF Recorded
  <2>6. \A u \in Threads : step'[u] \in {"mget", "rel"} => Told(u)'
    BY Zenon DEF Told
  <2>. QED
    BY <2>3, <2>4, <2>5, <2>6, Zenon DEF Recorded
<1>. QED
  BY <1>4, <1>5, <1>6, <1>7, <1>8, Zenon

\* INCR and INCRBY: what they return is above every id handed out before.
LEMMA CountStep ==
    ASSUME LoginTypeOK, LoginTypeOK', IdInv, NEW t \in Threads,
           \E o \in {"reply", "unsent", "unheard"} : Incr(t, o) \/ IncrBy(t, o)
    PROVE  IdInv'
<1>. USE DEF IdInv, LoginTypeOK
<1>1. /\ UNCHANGED <<user_adr_id, user_id_adr, address, blind, raced, given>>
      /\ \A u \in Threads \ {t} : step'[u] = step[u] /\ user_id'[u] = user_id[u]
      /\ Storing(t)
      /\ user_id_incr' \in Nat /\ user_id_incr' >= user_id_incr
      /\ \/ user_id'[t] = ErrorId
         \/ user_id'[t] = user_id_incr' /\ user_id'[t] > user_id_incr
      /\ step'[t] \in {"incrby", "mset"}
      /\ faults' = 0 => faults = 0 /\ user_id'[t] # ErrorId
  <2>1. CASE \E o \in {"reply", "unsent", "unheard"} : Incr(t, o)
    <3>1. PICK o \in {"reply", "unsent", "unheard"} : Incr(t, o)
      BY <2>1, Zenon
    <3>2. /\ UNCHANGED <<user_adr_id, user_id_adr, address, blind, raced, given>>
          /\ \A u \in Threads \ {t} : step'[u] = step[u]
          /\ Storing(t) /\ step'[t] \in {"incrby", "mset"} /\ Fault(o)
      BY <3>1, Zenon DEF Incr, Goto, At, history, Storing
    <3>3. /\ user_id_incr' = IF o = "unsent" THEN user_id_incr ELSE user_id_incr + 1
          /\ user_id'[t] = IF o = "reply" THEN user_id_incr + 1 ELSE ErrorId
          /\ \A u \in Threads \ {t} : user_id'[u] = user_id[u]
      BY <3>1, Zenon DEF Incr
    <3>4. /\ user_id_incr' \in Nat /\ user_id_incr' >= user_id_incr
          /\ \/ user_id'[t] = ErrorId
             \/ user_id'[t] = user_id_incr' /\ user_id'[t] > user_id_incr
      <4>1. CASE o = "reply"
        BY <3>3, <4>1
      <4>2. CASE o # "reply"
        BY <3>3, <4>2
      <4>. QED
        BY <4>1, <4>2, Zenon
    <3>5. faults' = 0 => faults = 0 /\ user_id'[t] # ErrorId
      <4>1. faults' = 0 => faults = 0 /\ o = "reply"
        BY <3>2, FaultReply, Zenon
      <4>2. o = "reply" => user_id'[t] # ErrorId
        BY <3>3, LoginAssumption DEF ErrorId
      <4>. QED
        BY <4>1, <4>2, Zenon
    <3>. QED
      BY <3>2, <3>3, <3>4, <3>5, Zenon
  <2>2. CASE \E o \in {"reply", "unsent", "unheard"} : IncrBy(t, o)
    <3>1. PICK o \in {"reply", "unsent", "unheard"} : IncrBy(t, o)
      BY <2>2, Zenon
    <3>2. /\ UNCHANGED <<user_adr_id, user_id_adr, address, blind, raced, given>>
          /\ \A u \in Threads \ {t} : step'[u] = step[u]
          /\ Storing(t) /\ step'[t] \in {"incrby", "mset"} /\ Fault(o)
      BY <3>1, Zenon DEF IncrBy, Goto, At, history, Storing
    <3>3. /\ user_id_incr' = IF o = "unsent" THEN user_id_incr
                              ELSE user_id_incr + (FirstId - 1)
          /\ user_id'[t] = IF o = "reply" THEN user_id_incr + (FirstId - 1)
                                           ELSE ErrorId
          /\ \A u \in Threads \ {t} : user_id'[u] = user_id[u]
      BY <3>1, Zenon DEF IncrBy
    <3>4. /\ user_id_incr' \in Nat /\ user_id_incr' >= user_id_incr
          /\ \/ user_id'[t] = ErrorId
             \/ user_id'[t] = user_id_incr' /\ user_id'[t] > user_id_incr
      <4>1. CASE o = "reply"
        BY <3>3, <4>1, LoginAssumption
      <4>2. CASE o # "reply"
        BY <3>3, <4>2, LoginAssumption
      <4>. QED
        BY <4>1, <4>2, Zenon
    <3>5. faults' = 0 => faults = 0 /\ user_id'[t] # ErrorId
      <4>1. faults' = 0 => faults = 0 /\ o = "reply"
        BY <3>2, FaultReply, Zenon
      <4>2. o = "reply" => user_id'[t] # ErrorId
        BY <3>3, LoginAssumption DEF ErrorId
      <4>. QED
        BY <4>1, <4>2, Zenon
    <3>. QED
      BY <3>2, <3>3, <3>4, <3>5, Zenon
  <2>. QED
    BY <2>1, <2>2, Zenon
<1>2. \A u \in Threads \ {t} : Told(u)' =>
          Told(u) /\ user_id'[u] = user_id[u] /\ address'[u] = address[u]
  BY <1>1, Zenon DEF Told
<1>3. Counted' /\ OneClaim'
  <2>1. \A a \in Addresses : Claim(user_adr_id'[a], a)
    BY <1>1, Zenon DEF Claim
  <2>2. \A i \in Int, a \in Addresses : <<i, a>> \in given' => Claim(i, a)
    BY <1>1, Zenon DEF Claim
  <2>3. PICK n \in Int : n = user_id'[t]
    BY Zenon
  <2>4. PICK c \in Addresses : c = address'[t]
    BY Zenon
  <2>5. n = ErrorId \/ (n > user_id_incr /\ n <= user_id_incr')
    BY <1>1, <2>3, SMTT(40)
  <2>. HIDE DEF IdInv, LoginTypeOK
  <2>6. LoginTypeOK /\ LoginTypeOK' /\ Counted /\ OneClaim
    BY Zenon DEF IdInv
  <2>7. user_id_incr' >= user_id_incr
    BY <1>1, Zenon
  <2>. QED
    BY <1>2, <2>1, <2>2, <2>3, <2>4, <2>5, <2>6, <2>7, ClaimStep, Zenon
<1>4. RealIds'
  <2>1. user_id'[t] # NoId
    BY <1>1 DEF NoId, ErrorId
  <2>. QED
    BY <1>1, <1>2, <2>1, Zenon DEF RealIds
<1>5. NoneStored'
  BY <1>1, Zenon DEF NoneStored, Storing
<1>6. IdLeadsBack'
  BY <1>1, Zenon DEF IdLeadsBack
<1>7. Recorded'
  <2>1. step'[t] \notin {"mget", "rel"}
    BY <1>1, Zenon
  <2>. HIDE DEF LoginTypeOK
  <2>. QED
    BY <1>1, <1>2, <2>1, Zenon DEF Recorded
<1>. QED
  BY <1>3, <1>4, <1>5, <1>6, <1>7, Zenon

\* MSET: the one step that stores an id.
LEMMA StoreStep ==
    ASSUME LoginTypeOK, LoginTypeOK', IdInv, NEW t \in Threads,
           NEW o \in {"reply", "unsent", "unheard"}, MSet(t, o)
    PROVE  IdInv'
<1>1. PICK a \in Addresses : a = address[t]
  BY Zenon DEF LoginTypeOK
<1>2. PICK n \in Int : n = user_id[t]
  BY Zenon DEF LoginTypeOK
<1>3. /\ UNCHANGED <<user_id_incr, address, user_id, blind, given>>
      /\ \A u \in Threads \ {t} : step'[u] = step[u]
      /\ step[t] = "mset" /\ step'[t] = "mget"
  BY Zenon DEF MSet, Goto, At, LoginTypeOK
<1>4. /\ Told(t) /\ ~ Storing(t)' /\ Claim(n, a) /\ n # NoId
      /\ \A u \in Threads \ {t} : Told(u)' => Told(u)
  <2>1. Told(t) /\ ~ Storing(t)'
    BY <1>3, Zenon DEF Told, Storing
  <2>. QED
    BY <1>1, <1>2, <1>3, <2>1, Zenon DEF Claim, Told, IdInv, RealIds
<1>5. \/ UNCHANGED <<user_adr_id, user_id_adr, raced>>
      \/ /\ user_adr_id'[a] = n
         /\ \A b \in Addresses \ {a} : user_adr_id'[b] = user_adr_id[b]
         /\ user_id_adr' = {p \in user_id_adr : p[1] # n} \cup {<<n, a>>}
         /\ \A u \in Threads : raced'[u] =
               (raced[u] \/ (u # t /\ Storing(u) /\ address[u] = a))
  <2>1. CASE o = "unsent"
    BY <2>1, Zenon DEF MSet
  <2>2. CASE o # "unsent"
    <3>1. /\ user_adr_id'[a] = n
          /\ \A b \in Addresses \ {a} : user_adr_id'[b] = user_adr_id[b]
      BY <1>1, <1>2, <2>2, Zenon DEF MSet, LoginTypeOK
    <3>2. user_id_adr' = {p \in user_id_adr : p[1] # n} \cup {<<n, a>>}
      BY <1>1, <1>2, <2>2, Zenon DEF MSet
    <3>3. \A u \in Threads : raced'[u] =
              (raced[u] \/ (u # t /\ Storing(u) /\ address[u] = a))
      BY <1>1, <2>2, Zenon DEF MSet, Storing
    <3>. QED
      BY <3>1, <3>2, <3>3, Zenon
  <2>. QED
    BY <2>1, <2>2, Zenon
<1>6. Counted' /\ OneClaim'
  <2>1. ErrorId \in Int /\ user_id_incr' >= user_id_incr
    BY <1>3 DEF ErrorId, LoginTypeOK
  <2>2. \A b \in Addresses : Claim(user_adr_id'[b], b)
    BY <1>4, <1>5, Zenon DEF Claim
  <2>3. Claim(user_id'[t], address'[t])
    BY <1>1, <1>2, <1>3, <1>4, Zenon
  <2>4. \A i \in Int, b \in Addresses : <<i, b>> \in given' => Claim(i, b)
    BY <1>3, Zenon DEF Claim
  <2>5. \A u \in Threads \ {t} : Told(u)' =>
            Told(u) /\ user_id'[u] = user_id[u] /\ address'[u] = address[u]
    BY <1>3, <1>4, Zenon
  <2>. QED
    BY <2>1, <2>2, <2>3, <2>4, <2>5, ClaimStep, Zenon DEF IdInv
<1>7. RealIds'
  BY <1>2, <1>3, <1>4, Zenon DEF RealIds, IdInv
<1>8. NoneStored'
  <2>1. ASSUME NEW u \in Threads, Storing(u)', ~ blind'[u], ~ raced'[u]
        PROVE  user_adr_id'[address'[u]] = NoId
    <3>1. /\ u # t /\ Storing(u) /\ ~ blind[u] /\ ~ raced[u]
          /\ UNCHANGED user_adr_id \/ address[u] # a
      BY <1>3, <1>4, <1>5, <2>1, Zenon DEF Storing
    <3>2. user_adr_id[address[u]] = NoId /\ address[u] \in Addresses
      BY <3>1, Zenon DEF NoneStored, IdInv, LoginTypeOK
    <3>. QED
      BY <1>3, <1>5, <3>1, <3>2, Zenon
  <2>. QED
    BY <2>1, Zenon DEF NoneStored
<1>9. ASSUME NEW i \in Int \ {NoId, ErrorId}, NEW b \in Addresses, Claim(i, b),
             <<i, b>> \in user_id_adr
      PROVE  <<i, b>> \in user_id_adr'
  <2>1. i = n => b = a
    BY <1>4, <1>9, Zenon DEF IdInv, OneClaim
  <2>2. <<i, b>>[1] = i
    BY Zenon
  <2>. QED
    BY <1>5, <1>9, <2>1, <2>2, Zenon
<1>10. IdLeadsBack'
  <2>1. ASSUME NEW b \in Addresses, user_adr_id'[b] \notin {NoId, ErrorId}
        PROVE  <<user_adr_id'[b], b>> \in user_id_adr'
    <3>1. CASE user_adr_id'[b] = user_adr_id[b]
      <4>1. /\ Claim(user_adr_id[b], b) /\ user_adr_id[b] \in Int
            /\ <<user_adr_id[b], b>> \in user_id_adr
        BY <2>1, <3>1, Zenon DEF Claim, LoginTypeOK, IdInv, IdLeadsBack
      <4>. QED
        BY <1>9, <2>1, <3>1, <4>1, Zenon
    <3>2. CASE b = a /\ user_adr_id'[b] # user_adr_id[b]
      BY <1>5, <3>2, Zenon
    <3>. QED
      BY <1>5, <3>1, <3>2, Zenon
  <2>. QED
    BY <2>1, Zenon DEF IdLeadsBack
<1>11. Recorded'
  <2>1. SUFFICES ASSUME faults' = 0 PROVE Recorded'
    BY Zenon DEF Recorded
  <2>2. faults = 0 /\ o = "reply"
    BY <2>1, FaultReply, Zenon DEF MSet
  <2>3. /\ user_adr_id'[a] = n
        /\ \A b \in Addresses \ {a} : user_adr_id'[b] = user_adr_id[b]
        /\ <<n, a>> \in user_id_adr'
    BY <1>1, <1>2, <2>2, Zenon DEF MSet, LoginTypeOK
  <2>4. n # ErrorId
    BY <1>2, <1>4, <2>2, Zenon DEF IdInv, Recorded
  <2>5. \A b \in Addresses : user_adr_id'[b] # ErrorId
    BY <2>2, <2>3, <2>4, Zenon DEF IdInv, Recorded
  <2>6. \A u \in Threads : Told(u)' => user_id'[u] # ErrorId
    BY <1>2, <1>3, <1>4, <2>2, <2>4, Zenon DEF IdInv, Recorded
  <2>7. ASSUME NEW u \in Threads, step'[u] \in {"mget", "rel"}
        PROVE  <<user_id'[u], address'[u]>> \in user_id_adr'
    <3>1. CASE u = t
      BY <1>1, <1>2, <1>3, <2>3, <3>1, Zenon
    <3>2. CASE u # t
      <4>1. step[u] \in {"mget", "rel"}
        BY <1>3, <2>7, <3>2, Zenon
      <4>2. Told(u)
        BY <4>1, Zenon DEF Told
      <4>3. /\ user_id[u] \in Int \ {NoId, ErrorId} /\ address[u] \in Addresses
            /\ Claim(user_id[u], address[u])
            /\ <<user_id[u], address[u]>> \in user_id_adr
        BY <2>2, <4>1, <4>2, Zenon DEF IdInv, Recorded, RealIds, Claim, LoginTypeOK
      <4>. QED
        BY <1>3, <1>9, <4>3, Zenon
    <3>. QED
      BY <3>1, <3>2, Zenon
  <2>8. ASSUME NEW p \in given' PROVE p \in user_id_adr'
    <3>1. p \in given /\ p \in user_id_adr
      BY <1>3, <2>2, <2>8, Zenon DEF IdInv, Recorded
    <3>2. p = <<p[1], p[2]>> /\ p[1] \in Int /\ p[2] \in Addresses
      BY <3>1 DEF LoginTypeOK
    <3>3. p[1] # NoId /\ Claim(p[1], p[2])
      BY <3>1, <3>2, Zenon DEF IdInv, RealIds, Claim
    <3>4. CASE p[1] = ErrorId
      <4>1. p[1] # n
        BY <2>4, <3>4, Zenon
      <4>. QED
        BY <1>5, <3>1, <4>1, Zenon
    <3>5. CASE p[1] # ErrorId
      BY <1>9, <3>1, <3>2, <3>3, <3>5, Zenon
    <3>. QED
      BY <3>4, <3>5, Zenon
  <2>. QED
    BY <2>5, <2>6, <2>7, <2>8, Zenon DEF Recorded
<1>. QED
  BY <1>6, <1>7, <1>8, <1>10, <1>11, Zenon DEF IdInv

\* At the start Redis is empty and no worker has a login.
LEMMA LoginInit == Init => LoginTypeOK /\ IdInv
<1>. SUFFICES ASSUME Init PROVE LoginTypeOK /\ IdInv
  BY Zenon
<1>1. (CHOOSE a \in Addresses : TRUE) \in Addresses
  BY LoginAssumption, Zenon
<1>2. LoginTypeOK
  BY <1>1, LoginAssumption DEF Init, LoginTypeOK, Steps, NoId
<1>3. Counted /\ OneClaim
  <2>1. \A i, a : a \in Addresses /\ Claim(i, a) => i = NoId
    BY Zenon DEF Init, Claim, Told
  <2>2. NoId \in Int /\ NoId <= user_id_incr
    BY DEF Init, NoId
  <2>. QED
    BY <2>1, <2>2, Zenon DEF Counted, OneClaim
<1>4. RealIds /\ NoneStored /\ IdLeadsBack
  BY Zenon DEF Init, RealIds, Told, NoneStored, Storing, IdLeadsBack
<1>5. Recorded
  BY DEF Init, Recorded, Told, NoId, ErrorId
<1>. QED
  BY <1>2, <1>3, <1>4, <1>5, Zenon DEF IdInv

\* Every step keeps the types and the invariant about ids.
LEMMA LoginStep ==
    LoginTypeOK /\ IdInv /\ [Next]_vars => (LoginTypeOK /\ IdInv)'
<1>. SUFFICES ASSUME LoginTypeOK, IdInv, [Next]_vars
              PROVE  LoginTypeOK' /\ IdInv'
  BY Zenon
<1>1. CASE Next
  <2>1. PICK t \in Threads :
            \/ \E a \in Addresses, good \in BOOLEAN : Start(t, a, good)
            \/ Advance(t)
    BY <1>1, Zenon DEF Next
  <2>2. LoginTypeOK'
    BY <2>1, LoginTypeStep, Zenon
  <2>3. IdInv'
    BY <2>1, <2>2, ReadStep, CountStep, StoreStep, Zenon DEF Advance
  <2>. QED
    BY <2>2, <2>3, Zenon
<1>2. CASE UNCHANGED vars
  <2>1. UNCHANGED <<redis, step, address, genuine, user_id, blind, raced, given,
                    logins, faults, up>>
    BY <1>2, Zenon DEF vars, local, history
  <2>2. LoginTypeOK'
    BY <2>1, Zenon DEF LoginTypeOK, redis
  <2>3. IdInv'
    <3>1. Counted' /\ OneClaim'
      BY <2>1, ZenonT(40) DEF IdInv, Counted, OneClaim, Claim, Told, redis
    <3>2. RealIds' /\ Recorded'
      BY <2>1, Zenon DEF IdInv, RealIds, Recorded, Told, redis
    <3>3. NoneStored' /\ IdLeadsBack'
      BY <2>1, Zenon DEF IdInv, NoneStored, Storing, IdLeadsBack, redis
    <3>. QED
      BY <3>1, <3>2, <3>3, Zenon DEF IdInv
  <2>. QED
    BY <2>2, <2>3, Zenon
<1>. QED
  BY <1>1, <1>2, Zenon

\* An id is replaced only by the MSET of a worker that was blind or raced: any
\* other worker at its MSET has an address without an id.
LEMMA ReplaceStep ==
    ASSUME LoginTypeOK, IdInv, [Next]_vars, NEW a \in Addresses,
           user_adr_id[a] # NoId, user_adr_id'[a] # user_adr_id[a]
    PROVE  \E t \in Threads : /\ At(t, "mset") /\ address[t] = a
                              /\ blind[t] \/ raced[t]
<1>1. Next
  <2>1. UNCHANGED vars => user_adr_id' = user_adr_id
    BY Zenon DEF vars, redis
  <2>. QED
    BY <2>1, Zenon
<1>2. PICK t \in Threads :
          \/ \E b \in Addresses, good \in BOOLEAN : Start(t, b, good)
          \/ Advance(t)
  BY <1>1, Zenon DEF Next
<1>3. \E o \in {"reply", "unsent", "unheard"} : MSet(t, o)
  <2>1. user_adr_id' # user_adr_id
    BY Zenon
  <2>. QED
    BY <1>2, <2>1, Zenon DEF Start, Advance, Get, Verify, Release, GetUserId, Incr, IncrBy,
                      MGet, redis
<1>4. At(t, "mset") /\ address[t] = a
  <2>1. PICK o \in {"reply", "unsent", "unheard"} : MSet(t, o)
    BY <1>3, Zenon
  <2>2. user_adr_id' = [user_adr_id EXCEPT ![address[t]] = user_id[t]]
    BY <2>1, Zenon DEF MSet
  <2>. QED
    BY <2>1, <2>2, Zenon DEF MSet, LoginTypeOK
<1>5. blind[t] \/ raced[t]
  BY <1>4, Zenon DEF IdInv, NoneStored, Storing, At
<1>. QED
  BY <1>4, <1>5, Zenon

\* The types of the pool, of Redis and of the workers' locals.
THEOREM LoginTypeCorrect == Spec => []TypeOK
<1>1. PoolSpec => []PoolInv
  BY PoolInitInv, PoolStep, PTL DEF PoolSpec
<1>2. Spec => []LoginTypeOK
  BY LoginInit, LoginStep, PTL DEF Spec
<1>3. PoolInv /\ LoginTypeOK => TypeOK
  BY Zenon DEF PoolInv, TypeOK
<1>. QED
  BY <1>1, <1>2, <1>3, LoginImplementsPool, PTL

\* An id of one address is neither stored for two nor told to two.
LEMMA ClaimsSound == LoginTypeOK /\ IdInv => IdsSound
<1>. SUFFICES ASSUME LoginTypeOK, IdInv PROVE IdsSound
  BY Zenon
<1>1. IdNotShared
  <2>1. \A a \in Addresses : Claim(user_adr_id[a], a) /\ user_adr_id[a] \in Int
    BY Zenon DEF Claim, LoginTypeOK
  <2>. QED
    BY <2>1, Zenon DEF IdInv, OneClaim, IdNotShared
<1>2. GivenOnce
  <2>1. \A p \in given : p[1] \in Int /\ p[2] \in Addresses /\ <<p[1], p[2]>> \in given
    BY DEF LoginTypeOK
  <2>2. \A p \in given : p[1] # NoId
    BY Zenon DEF IdInv, RealIds
  <2>3. ASSUME NEW p \in given, NEW q \in given, p[1] = q[1], p[1] # ErrorId
        PROVE  p[2] = q[2]
    <3>1. Claim(p[1], p[2]) /\ Claim(p[1], q[2])
      BY <2>1, <2>3, Zenon DEF Claim
    <3>. QED
      BY <2>1, <2>2, <2>3, <3>1, Zenon DEF IdInv, OneClaim
  <2>. QED
    BY <2>2, <2>3, Zenon DEF GivenOnce
<1>3. GivenRecorded
  BY Zenon DEF IdInv, Recorded, GivenRecorded
<1>. QED
  BY <1>1, <1>2, <1>3, Zenon DEF IdInv, IdsSound

\* However the GET, INCR, INCRBY and MSET of any number of logins interleave, and
\* whichever of them get no reply, no two addresses are stored with the same user id
\* or told the same one (but for the -1 of "no reply"), not even by logins far
\* apart; the stored id of an address leads back to it, and while no command failed
\* so does every id an address was ever told.
THEOREM IdsCorrect == Spec => []IdsSound
<1>. QED
  BY ClaimsSound, LoginInit, LoginStep, PTL DEF Spec

\* A stored id changes only in the MSET of a login whose GET failed or that
\* overlapped with another login of the same address.
THEOREM IdsKept == Spec => IdReplacedOnlyBlindOrRaced
<1>1. LoginTypeOK /\ IdInv /\ [Next]_vars =>
        [\A a \in Addresses :
            user_adr_id[a] # NoId /\ user_adr_id'[a] # user_adr_id[a] =>
                \E t \in Threads : At(t, "mset") /\ address[t] = a
                                   /\ (blind[t] \/ raced[t])]_vars
  BY ReplaceStep, Zenon
<1>. QED
  BY <1>1, LoginInit, LoginStep, PTL DEF Spec, IdReplacedOnlyBlindOrRaced

=============================================================================
