----------------------- MODULE BusinessServerTheorems -----------------------
(***************************************************************************)
(* Further proofs about BusinessServer: no request is lost or answered     *)
(* twice, and the server implements RequestReply.                          *)
(*                                                                         *)
(* To the invariants of BusinessServerProofs this adds that no PDU is in   *)
(* two of the places it passes through (NoCopies), which is what makes     *)
(* AtMostOneReply inductive and what Reply of RequestReply asks for.       *)
(***************************************************************************)
EXTENDS BusinessServerProofs

USE UuidModAssumption, BoundsAssumption
    DEF NoConn, NULL

-----------------------------------------------------------------------------
(* No PDU is in two places.                                                  *)

\* The places where a PDU can be: a socket's inbox, the buffer, a worker's list, a
\* worker, the list of responses, the response being sent, what was sent.
Places == ({"inbox", "sent"} \X Conns) \cup ({"task", "run"} \X Workers)
            \cup ({"buf", "list", "resp"} \X {0})

PdusIn(q) == [i \in 1 .. Len(q) |-> q[i].pdu]
Cell(x) == IF x.pdu = NULL THEN <<>> ELSE <<x.pdu>>

\* What each place holds.
HeldIn(in, out, tasks, run, buf, list, resp) ==
    [p \in Places |-> CASE p[1] = "inbox" -> in[p[2]]
                        [] p[1] = "sent" -> out[p[2]]
                        [] p[1] = "task" -> PdusIn(tasks[p[2]])
                        [] p[1] = "run" -> Cell(run[p[2]])
                        [] p[1] = "buf" -> buf
                        [] p[1] = "list" -> PdusIn(list)
                        [] p[1] = "resp" -> Cell(resp)]

Unique(C) ==
    \A p, q \in Places : \A i \in 1 .. Len(C[p]), j \in 1 .. Len(C[q]) :
        C[p][i] = C[q][j] /\ C[p][i] # NULL => p = q /\ i = j

NoCopies ==
    Unique(HeldIn(inbox, sent, m_task_list, running, m_in_buf, s_response_pdu_list, m_resp))

\* b is a stretch of a; b is the beginning of a followed by x; x is not in a.
Kept(a, b) == \E k \in Nat : \A i \in 1 .. Len(b) : i + k \in 1 .. Len(a) /\ b[i] = a[i + k]
Grown(a, b, x) ==
    \A i \in 1 .. Len(b) : \/ i = Len(b) /\ b[i] = x
                           \/ i \in 1 .. Len(a) /\ b[i] = a[i]
Lacks(a, x) == \A i \in 1 .. Len(a) : a[i] # x

\* A list is a stretch of itself, the empty list is a stretch of any.
LEMMA KeptSame == ASSUME NEW X, NEW a \in Seq(X) PROVE Kept(a, a)
<1>1. \A i \in 1 .. Len(a) : i + 0 \in 1 .. Len(a) /\ a[i] = a[i + 0]
  OBVIOUS
<1>. QED
  BY <1>1, Zenon DEF Kept

\* The empty list is a stretch of any list.
LEMMA KeptEmpty == ASSUME NEW a PROVE Kept(a, <<>>)
<1>1. \A i \in 1 .. Len(<<>>) : FALSE
  OBVIOUS
<1>. QED
  BY <1>1, Zenon DEF Kept

\* What a pop leaves is a stretch of the list.
LEMMA KeptTail == ASSUME NEW X, NEW a \in Seq(X), a # <<>> PROVE Kept(a, Tail(a))
<1>1. \A i \in 1 .. Len(Tail(a)) : i + 1 \in 1 .. Len(a) /\ Tail(a)[i] = a[i + 1]
  BY HeadTail, Zenon
<1>. QED
  BY <1>1, Zenon DEF Kept

\* What a push makes of a list.
LEMMA GrownAppend ==
    ASSUME NEW X, NEW a \in Seq(X), NEW x \in X
    PROVE  Grown(a, Append(a, x), x)
  BY AppendFacts DEF Grown

\* The same of the PDUs in a list of tasks or of responses.
LEMMA PdusKept ==
    ASSUME NEW a, NEW b, Kept(a, b), Len(a) \in Nat, Len(b) \in Nat
    PROVE  Kept(PdusIn(a), PdusIn(b))
<1>1. PICK k \in Nat : \A i \in 1 .. Len(b) : i + k \in 1 .. Len(a) /\ b[i] = a[i + k]
  BY Zenon DEF Kept
<1>2. /\ Len(PdusIn(a)) = Len(a) /\ \A i \in 1 .. Len(a) : PdusIn(a)[i] = a[i].pdu
      /\ Len(PdusIn(b)) = Len(b) /\ \A i \in 1 .. Len(b) : PdusIn(b)[i] = b[i].pdu
  BY DEF PdusIn
<1>3. \A i \in 1 .. Len(PdusIn(b)) :
        i + k \in 1 .. Len(PdusIn(a)) /\ PdusIn(b)[i] = PdusIn(a)[i + k]
  BY <1>1, <1>2, Zenon
<1>. QED
  BY <1>3, Zenon DEF Kept

\* The PDUs of a list after a push.
LEMMA PdusGrown ==
    ASSUME NEW a, NEW b, NEW x, Grown(a, b, x), Len(a) \in Nat, Len(b) \in Nat
    PROVE  Grown(PdusIn(a), PdusIn(b), x.pdu)
<1>2. /\ Len(PdusIn(a)) = Len(a) /\ \A i \in 1 .. Len(a) : PdusIn(a)[i] = a[i].pdu
      /\ Len(PdusIn(b)) = Len(b) /\ \A i \in 1 .. Len(b) : PdusIn(b)[i] = b[i].pdu
  BY DEF PdusIn
<1>. QED
  BY <1>2, Zenon DEF Grown

-----------------------------------------------------------------------------
(* Moves that copy nothing.                                                  *)

\* What is not new in its place was there, at an offset the place determines.
Old(C, D, p, i, k) == k \in Nat /\ i + k \in 1 .. Len(C[p]) /\ D[p][i] = C[p][i + k]

\* Two elements that were there before are the same only if they were the same before.
LEMMA OldsDiffer ==
    ASSUME NEW C, NEW D, Unique(C), NEW p \in Places, NEW q \in Places, NEW k, NEW l,
           NEW i \in Nat, NEW j \in Nat, Old(C, D, p, i, k), Old(C, D, q, j, l),
           p = q => k = l, D[p][i] = D[q][j], D[p][i] # NULL
    PROVE  p = q /\ i = j
<1>1. PICK a \in 1 .. Len(C[p]) : a = i + k /\ D[p][i] = C[p][a]
  BY Zenon DEF Old
<1>2. PICK b \in 1 .. Len(C[q]) : b = j + l /\ D[q][j] = C[q][b]
  BY Zenon DEF Old
<1>3. C[p][a] = C[q][b] /\ C[p][a] # NULL
  BY <1>1, <1>2, Zenon
<1>4. p = q /\ a = b
  BY <1>3 DEF Unique
<1>5. k = l
  BY <1>4, Zenon
<1>6. k \in Nat /\ l \in Nat
  BY Zenon DEF Old
<1>7. i + k = j + l
  BY <1>1, <1>2, <1>4, Zenon
<1>8. i = j
  BY <1>5, <1>6, <1>7
<1>. QED
  BY <1>4, <1>8, Zenon

\* Places that only lose elements hold no PDU twice.
LEMMA UniqueKept ==
    ASSUME NEW C, NEW D, Unique(C), \A p \in Places : Kept(C[p], D[p]),
           \A p \in Places : Len(D[p]) \in Nat
    PROVE  Unique(D)
<1>. SUFFICES ASSUME NEW p \in Places, NEW q \in Places,
                     NEW i \in 1 .. Len(D[p]), NEW j \in 1 .. Len(D[q]),
                     D[p][i] = D[q][j], D[p][i] # NULL
              PROVE  p = q /\ i = j
  BY DEF Unique
<1>1. PICK k : \A n \in 1 .. Len(D[p]) : Old(C, D, p, n, k)
  BY Zenon DEF Kept, Old
<1>2. PICK l : (\A n \in 1 .. Len(D[q]) : Old(C, D, q, n, l)) /\ (p = q => k = l)
  <2>1. CASE p = q
    BY <1>1, <2>1, Zenon
  <2>2. CASE p # q
    BY <2>2, Zenon DEF Kept, Old
  <2>. QED
    BY <2>1, <2>2, Zenon
<1>3. Old(C, D, p, i, k) /\ Old(C, D, q, j, l) /\ i \in Nat /\ j \in Nat
  BY <1>1, <1>2
<1>. QED
  BY <1>2, <1>3, OldsDiffer

\* One place is grown by something that is nowhere else.
LEMMA UniqueGrown ==
    ASSUME NEW C, NEW D, Unique(C), NEW t \in Places, NEW x, Grown(C[t], D[t], x),
           \A p \in Places \ {t} : Kept(C[p], D[p]), \A p \in Places : Len(D[p]) \in Nat,
           x # NULL => Lacks(C[t], x) /\ \A p \in Places \ {t} : Lacks(D[p], x)
    PROVE  Unique(D)
<1>. SUFFICES ASSUME NEW p \in Places, NEW q \in Places,
                     NEW i \in 1 .. Len(D[p]), NEW j \in 1 .. Len(D[q]),
                     D[p][i] = D[q][j], D[p][i] # NULL
              PROVE  p = q /\ i = j
  BY DEF Unique
<1>1. ASSUME NEW p1 \in Places
      PROVE  \E k : /\ \A n \in 1 .. Len(D[p1]) :
                         \/ p1 = t /\ n = Len(D[p1]) /\ D[p1][n] = x
                         \/ Old(C, D, p1, n, k)
                    /\ k \in Nat /\ (p1 = t => k = 0)
  <2>1. CASE p1 = t
    <3>1. \A n \in 1 .. Len(D[p1]) :
             (p1 = t /\ n = Len(D[p1]) /\ D[p1][n] = x) \/ Old(C, D, p1, n, 0)
      BY <1>1, <2>1 DEF Grown, Old
    <3>. QED
      BY <2>1, <3>1, Zenon
  <2>2. CASE p1 # t
    BY <1>1, <2>2, Zenon DEF Kept, Old
  <2>. QED
    BY <2>1, <2>2, Zenon
<1>2. PICK k : /\ \A n \in 1 .. Len(D[p]) :
                    (p = t /\ n = Len(D[p]) /\ D[p][n] = x) \/ Old(C, D, p, n, k)
               /\ k \in Nat
  BY <1>1, Zenon
<1>3. PICK l : /\ \A n \in 1 .. Len(D[q]) :
                    (q = t /\ n = Len(D[q]) /\ D[q][n] = x) \/ Old(C, D, q, n, l)
               /\ l \in Nat
               /\ p = q => k = l
  <2>1. CASE p = q
    BY <1>2, <2>1, Zenon
  <2>2. CASE p # q
    BY <1>1, <2>2, Zenon
  <2>. QED
    BY <2>1, <2>2, Zenon
<1>4. i \in Nat /\ j \in Nat
  OBVIOUS
<1>5. CASE Old(C, D, p, i, k) /\ Old(C, D, q, j, l)
  BY <1>3, <1>4, <1>5, OldsDiffer
<1>6. CASE p = t /\ i = Len(D[p]) /\ D[p][i] = x /\ q = t /\ j = Len(D[q]) /\ D[q][j] = x
  BY <1>6, Zenon
<1>7. CASE p = t /\ i = Len(D[p]) /\ D[p][i] = x /\ Old(C, D, q, j, l) /\ q # t
  BY <1>7, Zenon DEF Lacks
<1>8. CASE q = t /\ j = Len(D[q]) /\ D[q][j] = x /\ Old(C, D, p, i, k) /\ p # t
  BY <1>8, Zenon DEF Lacks
<1>9. CASE p = t /\ q = t /\ Old(C, D, p, i, k) /\ D[p][i] = x
  BY <1>9, Zenon DEF Lacks, Old
<1>10. CASE p = t /\ q = t /\ Old(C, D, q, j, l) /\ D[q][j] = x
  BY <1>10, Zenon DEF Lacks, Old
<1>. QED
  BY <1>2, <1>3, <1>5, <1>6, <1>7, <1>8, <1>9, <1>10, Zenon

\* The first of one place goes to the end of another.
Shorter(a, b) == \A i \in 1 .. Len(b) : i + 1 \in 1 .. Len(a) /\ b[i] = a[i + 1]

\* A PDU that goes from the head of one place to the end of another is in one of them.
LEMMA UniqueMoved ==
    ASSUME NEW C, NEW D, Unique(C), NEW s \in Places, NEW t \in Places, s # t, NEW x,
           Len(C[s]) \in Nat, 1 <= Len(C[s]), x = C[s][1] \/ x = NULL,
           Shorter(C[s], D[s]), Grown(C[t], D[t], x),
           \A p \in Places \ {s, t} : Kept(C[p], D[p]), \A p \in Places : Len(D[p]) \in Nat
    PROVE  Unique(D)
<1>1. Kept(C[s], D[s])
  BY Zenon DEF Shorter, Kept
<1>2. \A p \in Places \ {t} : Kept(C[p], D[p])
  BY <1>1, Zenon
<1>3. ASSUME x # NULL PROVE Lacks(C[t], x) /\ \A p \in Places \ {t} : Lacks(D[p], x)
  <2>0. 1 \in 1 .. Len(C[s]) /\ x = C[s][1]
    BY <1>3
  <2>1. \A p \in Places : \A i \in 1 .. Len(C[p]) : C[p][i] = x => p = s /\ i = 1
    BY <1>3, <2>0 DEF Unique
  <2>2. Lacks(C[t], x)
    BY <2>1, Zenon DEF Lacks
  <2>3. Lacks(D[s], x)
    <3>. SUFFICES ASSUME NEW i \in 1 .. Len(D[s]), D[s][i] = x PROVE FALSE
      BY Zenon DEF Lacks
    <3>1. PICK k \in 1 .. Len(C[s]) : k = i + 1 /\ C[s][k] = x
      BY Zenon DEF Shorter
    <3>2. k = 1
      BY <2>1, <3>1, Zenon
    <3>3. i \in Nat /\ i >= 1
      OBVIOUS
    <3>. QED
      BY <3>1, <3>2, <3>3
  <2>4. ASSUME NEW p \in Places \ {s, t} PROVE Lacks(D[p], x)
    <3>1. PICK k \in Nat : \A i \in 1 .. Len(D[p]) :
                             i + k \in 1 .. Len(C[p]) /\ D[p][i] = C[p][i + k]
      BY <2>4, Zenon DEF Kept
    <3>. QED
      BY <2>1, <2>4, <3>1, Zenon DEF Lacks
  <2>. QED
    BY <2>2, <2>3, <2>4, Zenon
<1>. QED
  BY <1>2, <1>3, UniqueGrown, Zenon

\* All of one place goes to another, empty place.
LEMMA UniqueTaken ==
    ASSUME NEW C, NEW D, Unique(C), NEW s \in Places, NEW t \in Places, s # t,
           D[t] = C[s], Len(D[s]) = 0, \A p \in Places \ {s, t} : D[p] = C[p]
    PROVE  Unique(D)
<1>. SUFFICES ASSUME NEW p \in Places, NEW q \in Places,
                     NEW i \in 1 .. Len(D[p]), NEW j \in 1 .. Len(D[q]),
                     D[p][i] = D[q][j], D[p][i] # NULL
              PROVE  p = q /\ i = j
  BY DEF Unique
<1>1. p # s /\ q # s
  OBVIOUS
<1>2. PICK p1 \in Places : D[p] = C[p1] /\ p1 = IF p = t THEN s ELSE p
  BY <1>1, Zenon
<1>3. PICK q1 \in Places : D[q] = C[q1] /\ q1 = IF q = t THEN s ELSE q
  BY <1>1, Zenon
<1>4. p1 = q1 /\ i = j
  <2>1. i \in 1 .. Len(C[p1]) /\ j \in 1 .. Len(C[q1]) /\ C[p1][i] = C[q1][j] /\ C[p1][i] # NULL
    BY <1>2, <1>3, Zenon
  <2>. QED
    BY <2>1 DEF Unique
<1>. QED
  BY <1>1, <1>2, <1>3, <1>4, Zenon

-----------------------------------------------------------------------------
(* The places of the server.                                                 *)

\* The seven kinds of places.
LEMMA PlaceFacts ==
    /\ \A c \in Conns : <<"inbox", c>> \in Places /\ <<"sent", c>> \in Places
    /\ \A w \in Workers : <<"task", w>> \in Places /\ <<"run", w>> \in Places
    /\ <<"buf", 0>> \in Places /\ <<"list", 0>> \in Places /\ <<"resp", 0>> \in Places
    /\ \A p \in Places : \/ \E c \in Conns : p = <<"inbox", c>>
                         \/ \E c \in Conns : p = <<"sent", c>>
                         \/ \E w \in Workers : p = <<"task", w>>
                         \/ \E w \in Workers : p = <<"run", w>>
                         \/ p = <<"buf", 0>>
                         \/ p = <<"list", 0>>
                         \/ p = <<"resp", 0>>
  BY DEF Places

\* What each place holds, one by one.
LEMMA HeldAt ==
    ASSUME NEW in, NEW out, NEW tasks, NEW run, NEW buf, NEW list, NEW resp,
           NEW C, C = HeldIn(in, out, tasks, run, buf, list, resp)
    PROVE  /\ \A c \in Conns : C[<<"inbox", c>>] = in[c] /\ C[<<"sent", c>>] = out[c]
           /\ \A w \in Workers : /\ C[<<"task", w>>] = PdusIn(tasks[w])
                                 /\ C[<<"run", w>>] = Cell(run[w])
           /\ C[<<"buf", 0>>] = buf /\ C[<<"list", 0>>] = PdusIn(list)
           /\ C[<<"resp", 0>>] = Cell(resp)
<1>1. \A c \in Conns : C[<<"inbox", c>>] = in[c] /\ C[<<"sent", c>>] = out[c]
  BY PlaceFacts, Zenon DEF HeldIn
<1>2. \A w \in Workers : /\ C[<<"task", w>>] = PdusIn(tasks[w])
                         /\ C[<<"run", w>>] = Cell(run[w])
  BY PlaceFacts, Zenon DEF HeldIn
<1>3. C[<<"buf", 0>>] = buf /\ C[<<"list", 0>>] = PdusIn(list) /\ C[<<"resp", 0>>] = Cell(resp)
  BY PlaceFacts, Zenon DEF HeldIn
<1>. QED
  BY <1>1, <1>2, <1>3, Zenon

\* The types of what the places hold.
HoldsTyped(in, out, tasks, run, buf, list, resp) ==
    /\ in \in [Conns -> Seq(Pdus)] /\ out \in [Conns -> Seq(Pdus)]
    /\ tasks \in [Workers -> Seq(InFlight)]
    /\ run \in [Workers -> InFlight \cup {NoTask}]
    /\ buf \in Seq(Pdus)
    /\ list \in Seq([uuid : Uuids, pdu : Pdus \cup {NULL}])
    /\ resp \in [uuid : Uuids, pdu : Pdus \cup {NULL}] \cup {NoTask}

\* Every place holds a list.
LEMMA HeldTyped ==
    ASSUME NEW in, NEW out, NEW tasks, NEW run, NEW buf, NEW list, NEW resp,
           HoldsTyped(in, out, tasks, run, buf, list, resp),
           NEW C, C = HeldIn(in, out, tasks, run, buf, list, resp)
    PROVE  \A p \in Places : Len(C[p]) \in Nat
<1>1. \A q : Len(q) \in Nat => Len(PdusIn(q)) \in Nat
  BY DEF PdusIn
<1>2. \A x : Len(Cell(x)) \in Nat
  BY Zenon DEF Cell
<1>3. \A c \in Conns : Len(in[c]) \in Nat /\ Len(out[c]) \in Nat
  BY DEF HoldsTyped
<1>4. \A w \in Workers : Len(tasks[w]) \in Nat
  BY DEF HoldsTyped
<1>5. Len(buf) \in Nat /\ Len(list) \in Nat
  BY DEF HoldsTyped
<1>. QED
  BY <1>1, <1>2, <1>3, <1>4, <1>5, HeldAt, PlaceFacts

\* Place by place.
LEMMA KeptAll ==
    ASSUME NEW C, NEW D, NEW T,
           \A c \in Conns : <<"inbox", c>> \in T \/ Kept(C[<<"inbox", c>>], D[<<"inbox", c>>]),
           \A c \in Conns : <<"sent", c>> \in T \/ Kept(C[<<"sent", c>>], D[<<"sent", c>>]),
           \A w \in Workers : <<"task", w>> \in T \/ Kept(C[<<"task", w>>], D[<<"task", w>>]),
           \A w \in Workers : <<"run", w>> \in T \/ Kept(C[<<"run", w>>], D[<<"run", w>>]),
           <<"buf", 0>> \in T \/ Kept(C[<<"buf", 0>>], D[<<"buf", 0>>]),
           <<"list", 0>> \in T \/ Kept(C[<<"list", 0>>], D[<<"list", 0>>]),
           <<"resp", 0>> \in T \/ Kept(C[<<"resp", 0>>], D[<<"resp", 0>>])
    PROVE  \A p \in Places \ T : Kept(C[p], D[p])
  BY PlaceFacts, Zenon

\* Every PDU that is somewhere was sent by a peer.
LEMMA HeldKnown ==
    ASSUME Inv, NEW C,
           C = HeldIn(inbox, sent, m_task_list, running, m_in_buf, s_response_pdu_list, m_resp)
    PROVE  \A p \in Places : \A i \in 1 .. Len(C[p]) : C[p][i] = NULL \/ C[p][i] \in 1 .. Len(request)
<1>a. TypeOK /\ FlightInv
  BY Zenon DEF Inv
<1>b. ASSUME NEW q, Len(q) \in Nat
      PROVE  Len(PdusIn(q)) = Len(q) /\ \A i \in 1 .. Len(q) : PdusIn(q)[i] = q[i].pdu
  BY <1>b DEF PdusIn
<1>c. \A x : \A i \in 1 .. Len(Cell(x)) : Cell(x)[i] = x.pdu /\ x.pdu # NULL
  BY DEF Cell
<1>1. ASSUME NEW c \in Conns
      PROVE  /\ \A i \in 1 .. Len(inbox[c]) : inbox[c][i] \in 1 .. Len(request)
             /\ \A i \in 1 .. Len(sent[c]) : sent[c][i] \in 1 .. Len(request)
  BY <1>a, Zenon DEF FlightInv, InboxKnown, SentKnown, Known
<1>2. ASSUME NEW w \in Workers
      PROVE  \A i \in 1 .. Len(PdusIn(m_task_list[w])) : PdusIn(m_task_list[w])[i] \in 1 .. Len(request)
  <2>1. Len(m_task_list[w]) \in Nat
    BY <1>a DEF TypeOK
  <2>2. \A i \in 1 .. Len(m_task_list[w]) : m_task_list[w][i].pdu \in 1 .. Len(request)
    BY <1>a, Zenon DEF FlightInv, TasksTagged, Tagged, Known
  <2>. QED
    BY <1>b, <2>1, <2>2, Zenon
<1>3. ASSUME NEW w \in Workers
      PROVE  \A i \in 1 .. Len(Cell(running[w])) : Cell(running[w])[i] \in 1 .. Len(request)
  <2>1. running[w].pdu # NULL => running[w].pdu \in 1 .. Len(request)
    BY <1>a DEF FlightInv, RunningTagged, Tagged, Known, NoTask
  <2>. QED
    BY <1>c, <2>1, Zenon
<1>4. \A i \in 1 .. Len(m_in_buf) : m_in_buf[i] \in 1 .. Len(request)
  BY <1>a, Zenon DEF FlightInv, BufferKnown, Known
<1>5. \A i \in 1 .. Len(PdusIn(s_response_pdu_list)) :
         \/ PdusIn(s_response_pdu_list)[i] = NULL
         \/ PdusIn(s_response_pdu_list)[i] \in 1 .. Len(request)
  <2>1. Len(s_response_pdu_list) \in Nat
    BY <1>a DEF TypeOK
  <2>2. \A i \in 1 .. Len(s_response_pdu_list) :
          \/ s_response_pdu_list[i].pdu = NULL
          \/ s_response_pdu_list[i].pdu \in 1 .. Len(request)
    BY <1>a, Zenon DEF FlightInv, ListTagged, Tagged, Known
  <2>. QED
    BY <1>b, <2>1, <2>2, Zenon
<1>6. \A i \in 1 .. Len(Cell(m_resp)) : Cell(m_resp)[i] \in 1 .. Len(request)
  BY <1>a, <1>c, Zenon DEF FlightInv, ResponseTagged, Tagged, Known
<1>. DEFINE Asked(a) == \A i \in 1 .. Len(a) : a[i] = NULL \/ a[i] \in 1 .. Len(request)
<1>7. /\ \A c \in Conns : Asked(inbox[c]) /\ Asked(sent[c])
      /\ \A w \in Workers : Asked(PdusIn(m_task_list[w])) /\ Asked(Cell(running[w]))
      /\ Asked(m_in_buf) /\ Asked(PdusIn(s_response_pdu_list)) /\ Asked(Cell(m_resp))
  BY <1>1, <1>2, <1>3, <1>4, <1>5, <1>6, Zenon
<1>8. \A p \in Places : Asked(C[p])
  <2>. HIDE DEF Asked
  <2>1. /\ \A c \in Conns : Asked(C[<<"inbox", c>>]) /\ Asked(C[<<"sent", c>>])
        /\ \A w \in Workers : Asked(C[<<"task", w>>]) /\ Asked(C[<<"run", w>>])
        /\ Asked(C[<<"buf", 0>>]) /\ Asked(C[<<"list", 0>>]) /\ Asked(C[<<"resp", 0>>])
    BY <1>7, HeldAt, SMTT(40)
  <2>. QED
    BY <2>1, PlaceFacts, Zenon
<1>. QED
  BY <1>8, Zenon

\* Lists that lose their first element, and what becomes of it.
LEMMA PdusShorter ==
    ASSUME NEW X, NEW a \in Seq(X), a # <<>>
    PROVE  /\ Shorter(PdusIn(a), PdusIn(Tail(a)))
           /\ Len(PdusIn(a)) \in Nat /\ 1 <= Len(PdusIn(a)) /\ PdusIn(a)[1] = Head(a).pdu
<1>1. /\ Head(a) = a[1] /\ Len(a) \in Nat /\ Len(a) >= 1 /\ 1 \in 1 .. Len(a)
      /\ Len(Tail(a)) = Len(a) - 1
      /\ \A i \in 1 .. Len(Tail(a)) : i + 1 \in 1 .. Len(a) /\ Tail(a)[i] = a[i + 1]
  BY HeadTail, Zenon
<1>2. PICK b : b = Tail(a)
  BY Zenon
<1>3. /\ Len(PdusIn(a)) = Len(a) /\ \A i \in 1 .. Len(a) : PdusIn(a)[i] = a[i].pdu
      /\ Len(PdusIn(b)) = Len(b) /\ \A i \in 1 .. Len(b) : PdusIn(b)[i] = b[i].pdu
  BY <1>1, <1>2 DEF PdusIn
<1>4. Shorter(PdusIn(a), PdusIn(b))
  BY <1>1, <1>2, <1>3 DEF Shorter
<1>. QED
  BY <1>1, <1>2, <1>3, <1>4, Zenon

\* A worker, or the event loop, that takes up a PDU.
LEMMA CellGrown ==
    ASSUME NEW a, NEW x
    PROVE  Grown(a, Cell(x), x.pdu)
  BY DEF Grown, Cell

\* A worker, or the event loop, that is done with its PDU.
LEMMA CellTaken ==
    ASSUME NEW x, x.pdu # NULL
    PROVE  /\ Shorter(Cell(x), Cell(NoTask)) /\ Len(Cell(x)) \in Nat /\ 1 <= Len(Cell(x))
           /\ Cell(x)[1] = x.pdu
  BY DEF Cell, NoTask, Shorter

\* Close empties inboxes and fills none.
LEMMA CloseKeeps ==
    ASSUME TypeOK, NEW S, Close(S)
    PROVE  \A c \in Conns : Kept(inbox[c], inbox'[c])
<1>1. \A c \in Conns : inbox'[c] = inbox[c] \/ inbox'[c] = <<>>
  BY Zenon DEF Close
<1>2. \A c \in Conns : inbox[c] \in Seq(Pdus)
  BY Zenon DEF TypeOK
<1>. QED
  BY <1>1, <1>2, KeptSame, KeptEmpty, Zenon

\* The PDUs of a list or of a cell that does not change.
LEMMA SameHeld ==
    ASSUME TypeOK
    PROVE  /\ \A c \in Conns : Kept(inbox[c], inbox[c]) /\ Kept(sent[c], sent[c])
           /\ \A w \in Workers : /\ Kept(PdusIn(m_task_list[w]), PdusIn(m_task_list[w]))
                                 /\ Kept(Cell(running[w]), Cell(running[w]))
           /\ Kept(m_in_buf, m_in_buf) /\ Kept(Cell(m_resp), Cell(m_resp))
           /\ Kept(PdusIn(s_response_pdu_list), PdusIn(s_response_pdu_list))
<1>1. ASSUME NEW q, Len(q) \in Nat PROVE Kept(PdusIn(q), PdusIn(q))
  <2>1. \A i \in 1 .. Len(PdusIn(q)) : i + 0 \in 1 .. Len(PdusIn(q)) /\ PdusIn(q)[i] = PdusIn(q)[i + 0]
    BY <1>1 DEF PdusIn
  <2>. QED
    BY <2>1, Zenon DEF Kept
<1>2. ASSUME NEW x PROVE Kept(Cell(x), Cell(x))
  <2>1. \A i \in 1 .. Len(Cell(x)) : i + 0 \in 1 .. Len(Cell(x)) /\ Cell(x)[i] = Cell(x)[i + 0]
    BY DEF Cell
  <2>. QED
    BY <2>1, Zenon DEF Kept
<1>3. \A w \in Workers : Len(m_task_list[w]) \in Nat
  BY DEF TypeOK
<1>4. Len(s_response_pdu_list) \in Nat /\ m_in_buf \in Seq(Pdus)
  BY DEF TypeOK
<1>5. \A c \in Conns : inbox[c] \in Seq(Pdus) /\ sent[c] \in Seq(Pdus)
  BY Zenon DEF TypeOK
<1>. QED
  BY <1>1, <1>2, <1>3, <1>4, <1>5, KeptSame, Zenon

\* No step copies a PDU: HandlePduBuf, Execute, run and SendResponsePduList move it.
LEMMA CopiesStep ==
    ASSUME Inv, TypeOK', NoCopies, [Next]_vars
    PROVE  NoCopies'
<1>. DEFINE before == HeldIn(inbox, sent, m_task_list, running, m_in_buf,
                             s_response_pdu_list, m_resp)
            after == HeldIn(inbox', sent', m_task_list', running', m_in_buf',
                            s_response_pdu_list', m_resp')
<1>a. TypeOK /\ FlightInv /\ LoopInv
  BY Zenon DEF Inv
<1>b. PICK C : C = before
  BY Zenon
<1>c. PICK D : D = after
  BY Zenon
<1>d. Unique(C)
  BY <1>b, Zenon DEF NoCopies
<1>e. /\ \A p \in Places : Len(C[p]) \in Nat
      /\ \A p \in Places : Len(D[p]) \in Nat
  <2>1. HoldsTyped(inbox, sent, m_task_list, running, m_in_buf, s_response_pdu_list, m_resp)
    BY <1>a, Zenon DEF TypeOK, HoldsTyped
  <2>2. HoldsTyped(inbox', sent', m_task_list', running', m_in_buf', s_response_pdu_list', m_resp')
    BY Zenon DEF TypeOK, HoldsTyped
  <2>. QED
    BY <1>b, <1>c, <2>1, <2>2, HeldTyped, Zenon
<1>f. /\ \A c \in Conns : C[<<"inbox", c>>] = inbox[c] /\ C[<<"sent", c>>] = sent[c]
      /\ \A w \in Workers : /\ C[<<"task", w>>] = PdusIn(m_task_list[w])
                            /\ C[<<"run", w>>] = Cell(running[w])
      /\ C[<<"buf", 0>>] = m_in_buf /\ C[<<"list", 0>>] = PdusIn(s_response_pdu_list)
      /\ C[<<"resp", 0>>] = Cell(m_resp)
  BY <1>b, HeldAt, SMTT(40)
<1>g. /\ \A c \in Conns : D[<<"inbox", c>>] = inbox'[c] /\ D[<<"sent", c>>] = sent'[c]
      /\ \A w \in Workers : /\ D[<<"task", w>>] = PdusIn(m_task_list'[w])
                            /\ D[<<"run", w>>] = Cell(running'[w])
      /\ D[<<"buf", 0>>] = m_in_buf' /\ D[<<"list", 0>>] = PdusIn(s_response_pdu_list')
      /\ D[<<"resp", 0>>] = Cell(m_resp')
  BY <1>c, HeldAt, SMTT(40)
<1>. SUFFICES Unique(D)
  BY <1>c, Zenon DEF NoCopies
<1>. HIDE DEF before, after
<1>h. /\ UNCHANGED inbox => \A c \in Conns : Kept(C[<<"inbox", c>>], D[<<"inbox", c>>])
      /\ UNCHANGED sent => \A c \in Conns : Kept(C[<<"sent", c>>], D[<<"sent", c>>])
      /\ UNCHANGED m_task_list => \A w \in Workers : Kept(C[<<"task", w>>], D[<<"task", w>>])
      /\ UNCHANGED running => \A w \in Workers : Kept(C[<<"run", w>>], D[<<"run", w>>])
      /\ UNCHANGED m_in_buf => Kept(C[<<"buf", 0>>], D[<<"buf", 0>>])
      /\ UNCHANGED s_response_pdu_list => Kept(C[<<"list", 0>>], D[<<"list", 0>>])
      /\ UNCHANGED m_resp => Kept(C[<<"resp", 0>>], D[<<"resp", 0>>])
  <2>1. UNCHANGED inbox => \A c \in Conns : Kept(C[<<"inbox", c>>], D[<<"inbox", c>>])
    BY <1>a, <1>f, <1>g, SameHeld, ZenonT(40)
  <2>2. UNCHANGED sent => \A c \in Conns : Kept(C[<<"sent", c>>], D[<<"sent", c>>])
    BY <1>a, <1>f, <1>g, SameHeld, ZenonT(40)
  <2>3. UNCHANGED m_task_list => \A w \in Workers : Kept(C[<<"task", w>>], D[<<"task", w>>])
    BY <1>a, <1>f, <1>g, SameHeld, ZenonT(40)
  <2>4. UNCHANGED running => \A w \in Workers : Kept(C[<<"run", w>>], D[<<"run", w>>])
    BY <1>a, <1>f, <1>g, SameHeld, ZenonT(40)
  <2>5. UNCHANGED m_in_buf => Kept(C[<<"buf", 0>>], D[<<"buf", 0>>])
    BY <1>a, <1>f, <1>g, SameHeld, ZenonT(40)
  <2>6. UNCHANGED s_response_pdu_list => Kept(C[<<"list", 0>>], D[<<"list", 0>>])
    BY <1>a, <1>f, <1>g, SameHeld, ZenonT(40)
  <2>7. UNCHANGED m_resp => Kept(C[<<"resp", 0>>], D[<<"resp", 0>>])
    BY <1>a, <1>f, <1>g, SameHeld, ZenonT(40)
  <2>. QED
    BY <2>1, <2>2, <2>3, <2>4, <2>5, <2>6, <2>7, Zenon
<1>i. ASSUME NEW S, Close(S) PROVE \A c \in Conns : Kept(C[<<"inbox", c>>], D[<<"inbox", c>>])
  BY <1>a, <1>f, <1>g, <1>i, CloseKeeps, Zenon
<1>1. ASSUME sent' = sent, m_task_list' = m_task_list, running' = running,
             s_response_pdu_list' = s_response_pdu_list, m_resp' = m_resp,
             inbox' = inbox \/ \E S : Close(S),
             \/ m_in_buf' = m_in_buf
             \/ m_in_buf' = <<>>
             \/ m_in_buf # <<>> /\ m_in_buf' = Tail(m_in_buf)
      PROVE  Unique(D)
  <2>1. Kept(C[<<"buf", 0>>], D[<<"buf", 0>>])
    <3>1. m_in_buf \in Seq(Pdus) /\ C[<<"buf", 0>>] = m_in_buf /\ D[<<"buf", 0>>] = m_in_buf'
      BY <1>a, <1>f, <1>g, Zenon DEF TypeOK
    <3>2. Kept(m_in_buf, m_in_buf')
      BY <1>1, <3>1, KeptSame, KeptEmpty, KeptTail, Zenon
    <3>. QED
      BY <3>1, <3>2, Zenon
  <2>2. \A p \in Places \ {} : Kept(C[p], D[p])
    BY <1>1, <1>h, <1>i, <2>1, KeptAll, Zenon
  <2>. QED
    BY <1>d, <1>e, <2>2, UniqueKept, Zenon
<1>2. ASSUME NEW c \in Conns, NEW kind \in Kinds, PeerSend(c, kind) PROVE Unique(D)
  <2>. DEFINE t == <<"inbox", c>>
  <2>1. PICK x : x = Len(request) + 1
    BY Zenon
  <2>2. /\ x \in Pdus /\ inbox[c] \in Seq(Pdus) /\ Len(request) \in Nat
        /\ inbox'[c] = Append(inbox[c], x) /\ \A d \in Conns \ {c} : inbox'[d] = inbox[d]
        /\ UNCHANGED <<sent, m_task_list, running, m_in_buf, s_response_pdu_list, m_resp>>
    <3>1. x \in Pdus /\ Len(request) \in Nat
      BY <1>a, <1>2, <2>1, NextPdu, Zenon DEF PeerSend
    <3>2. inbox \in [Conns -> Seq(Pdus)]
      BY <1>a, Zenon DEF TypeOK
    <3>3. inbox' = [inbox EXCEPT ![c] = Append(inbox[c], x)]
      BY <1>2, <2>1, Zenon DEF PeerSend
    <3>4. UNCHANGED <<sent, m_task_list, running, m_in_buf, s_response_pdu_list, m_resp>>
      BY <1>2, Zenon DEF PeerSend, mainVars, poolVars
    <3>. QED
      BY <3>1, <3>2, <3>3, <3>4, Zenon
  <2>3. Grown(C[t], D[t], x)
    BY <1>f, <1>g, <2>2, GrownAppend, Zenon
  <2>4. \A d \in Conns : <<"inbox", d>> \in {t} \/ Kept(C[<<"inbox", d>>], D[<<"inbox", d>>])
    BY <1>a, <1>f, <1>g, <2>2, SameHeld, ZenonT(40)
  <2>5. \A p \in Places \ {t} : Kept(C[p], D[p])
    <3>. HIDE DEF t
    <3>. QED
      BY <1>h, <2>2, <2>4, KeptAll, Zenon
  <2>6. \A p \in Places : Lacks(C[p], x)
    <3>1. \A y \in 1 .. Len(request) : y # x
      BY <2>1, <2>2
    <3>2. NULL # x
      BY <2>2 DEF Pdus
    <3>3. \A p \in Places : \A i \in 1 .. Len(C[p]) : C[p][i] = NULL \/ C[p][i] \in 1 .. Len(request)
      BY <1>b, HeldKnown, Zenon DEF before
    <3>. QED
      BY <3>1, <3>2, <3>3, Zenon DEF Lacks
  <2>7. \A p \in Places \ {t} : Lacks(D[p], x)
    BY <2>5, <2>6 DEF Lacks, Kept
  <2>8. t \in Places
    BY PlaceFacts, Zenon
  <2>. HIDE DEF t
  <2>. QED
    BY <1>d, <1>e, <2>3, <2>5, <2>6, <2>7, <2>8, UniqueGrown, Zenon
<1>3. ASSUME NEW h \in Handles, OnRead(h) PROVE Unique(D)
  <2>1. UNCHANGED <<sent, m_task_list, running, s_response_pdu_list, m_resp>>
    BY <1>3, Zenon DEF OnRead, poolVars
  <2>2. CASE g_proxy_conn_map[h] = NoConn \/ inbox[g_proxy_conn_map[h]] = <<>>
    <3>1. Close({g_proxy_conn_map[h]} \ {NoConn}) /\ UNCHANGED m_in_buf
      BY <1>3, <2>2, Zenon DEF OnRead
    <3>2. \E S : Close(S)
      BY <3>1, Zenon
    <3>. QED
      BY <1>1, <2>1, <3>1, <3>2, Zenon
  <2>3. CASE ~(g_proxy_conn_map[h] = NoConn \/ inbox[g_proxy_conn_map[h]] = <<>>)
    <3>1. PICK c \in Conns : c = g_proxy_conn_map[h]
      BY <1>a, <2>3, ZenonT(40) DEF TypeOK
    <3>2. m_in_buf' = inbox[c] /\ inbox' = [inbox EXCEPT ![c] = <<>>]
      BY <1>3, <2>3, <3>1, Zenon DEF OnRead
    <3>3. inbox'[c] = <<>> /\ \A d \in Conns \ {c} : inbox'[d] = inbox[d]
      BY <1>a, <3>2, Zenon DEF TypeOK
    <3>4. PICK s \in Places : s = <<"inbox", c>>
      BY PlaceFacts, Zenon
    <3>5. PICK t \in Places : t = <<"buf", 0>>
      BY PlaceFacts, Zenon
    <3>6. D[t] = C[s] /\ Len(D[s]) = 0 /\ s # t
      <4>1. C[s] = inbox[c] /\ D[s] = <<>>
        BY <1>f, <1>g, <3>3, <3>4, Zenon
      <4>2. D[t] = inbox[c]
        BY <1>g, <3>2, <3>5, Zenon
      <4>. QED
        BY <3>4, <3>5, <4>1, <4>2, Zenon
    <3>7. /\ \A d \in Conns : <<"inbox", d>> # s => D[<<"inbox", d>>] = C[<<"inbox", d>>]
          /\ \A d \in Conns : D[<<"sent", d>>] = C[<<"sent", d>>]
          /\ \A w \in Workers : D[<<"task", w>>] = C[<<"task", w>>]
          /\ \A w \in Workers : D[<<"run", w>>] = C[<<"run", w>>]
          /\ D[<<"list", 0>>] = C[<<"list", 0>>] /\ D[<<"resp", 0>>] = C[<<"resp", 0>>]
      <4>1. \A d \in Conns : <<"inbox", d>> # s => D[<<"inbox", d>>] = C[<<"inbox", d>>]
        <5>. SUFFICES ASSUME NEW d \in Conns, <<"inbox", d>> # s
                      PROVE  D[<<"inbox", d>>] = C[<<"inbox", d>>]
          BY Zenon
        <5>1. d # c
          BY <3>4, Zenon
        <5>2. inbox'[d] = inbox[d]
          BY <3>3, <5>1, Zenon
        <5>. QED
          BY <1>f, <1>g, <5>2, Zenon
      <4>. QED
        BY <1>f, <1>g, <2>1, <4>1, ZenonT(40)
    <3>8. \A p \in Places \ {s, t} : D[p] = C[p]
      BY <3>5, <3>7, PlaceFacts
    <3>. QED
      BY <1>d, <3>6, <3>8, UniqueTaken, Zenon
  <2>. QED
    BY <2>2, <2>3, Zenon
<1>4. ASSUME NEW w \in Workers, HandlePduBuf(w) PROVE Unique(D)
  <2>1. /\ m_in_buf # <<>> /\ m_in_buf \in Seq(Pdus) /\ m_task_list[w] \in Seq(InFlight)
        /\ m_task_list'[w] \in Seq(InFlight)
        /\ UNCHANGED <<sent, running, s_response_pdu_list, m_resp>>
    BY <1>4, <1>a, Zenon DEF HandlePduBuf, TypeOK
  <2>2. CASE request[Head(m_in_buf)].kind = "malformed"
    <3>1. Close({reading}) /\ m_in_buf' = <<>> /\ UNCHANGED m_task_list
      BY <1>4, <2>2, Zenon DEF HandlePduBuf
    <3>2. \E S : Close(S)
      BY <3>1, Zenon
    <3>. QED
      BY <1>1, <2>1, <3>1, <3>2, Zenon
  <2>3. CASE request[Head(m_in_buf)].kind = "ignored"
    <3>1. m_in_buf' = Tail(m_in_buf) /\ UNCHANGED <<inbox, m_task_list>>
      BY <1>4, <2>3, Zenon DEF HandlePduBuf, kernVars
    <3>. QED
      BY <1>1, <2>1, <3>1, Zenon
  <2>4. CASE request[Head(m_in_buf)].kind \notin {"malformed", "ignored"}
    <3>1. PICK task : task = [uuid |-> m_uuid[reading], pdu |-> Head(m_in_buf)]
      BY Zenon
    <3>2. /\ m_task_list' = [m_task_list EXCEPT ![w] = Append(@, task)]
          /\ m_in_buf' = Tail(m_in_buf) /\ UNCHANGED inbox
      BY <1>4, <2>4, <3>1, Zenon DEF HandlePduBuf, kernVars
    <3>3. /\ m_task_list'[w] = Append(m_task_list[w], task)
          /\ \A v \in Workers \ {w} : m_task_list'[v] = m_task_list[v]
      BY <1>a, <3>2, Zenon DEF TypeOK
    <3>4. PICK x : x = Head(m_in_buf)
      BY Zenon
    <3>5. task \in InFlight /\ task.pdu = x
      <4>1. m_uuid[reading] \in Uuids
        BY <1>4, <1>a, Zenon DEF HandlePduBuf, LoopInv, Inv, UuidWindow
      <4>2. x \in Pdus
        BY <2>1, <3>4, HeadTail, Zenon
      <4>. QED
        BY <3>1, <3>4, <4>1, <4>2, Zenon DEF InFlight
    <3>6. PICK s \in Places : s = <<"buf", 0>>
      BY PlaceFacts, Zenon
    <3>7. PICK t \in Places : t = <<"task", w>>
      BY PlaceFacts, Zenon
    <3>8. /\ s # t /\ Len(C[s]) \in Nat /\ 1 <= Len(C[s]) /\ x = C[s][1]
          /\ Shorter(C[s], D[s])
      <4>1. /\ Len(m_in_buf) \in Nat /\ 1 <= Len(m_in_buf) /\ x = m_in_buf[1]
            /\ Shorter(m_in_buf, m_in_buf')
        BY <2>1, <3>2, <3>4, HeadTail, Zenon DEF Shorter
      <4>. QED
        BY <1>f, <1>g, <3>6, <3>7, <4>1, Zenon
    <3>9. Grown(C[t], D[t], x)
      <4>1. Grown(m_task_list[w], m_task_list'[w], task)
        BY <2>1, <3>3, <3>5, GrownAppend, Zenon
      <4>2. Grown(PdusIn(m_task_list[w]), PdusIn(m_task_list'[w]), x)
        BY <2>1, <3>5, <4>1, PdusGrown
      <4>. QED
        BY <1>f, <1>g, <3>7, <4>2, Zenon
    <3>10. \A v \in Workers : <<"task", v>> \in {s, t} \/ Kept(C[<<"task", v>>], D[<<"task", v>>])
      <4>1. ASSUME NEW v \in Workers, v # w PROVE Kept(C[<<"task", v>>], D[<<"task", v>>])
        <5>1. Kept(PdusIn(m_task_list[v]), PdusIn(m_task_list'[v]))
          BY <1>a, <3>3, <4>1, SameHeld, Zenon
        <5>. QED
          BY <1>f, <1>g, <4>1, <5>1, Zenon
      <4>. QED
        BY <3>7, <4>1, Zenon
    <3>11. \A p \in Places \ {s, t} : Kept(C[p], D[p])
      BY <1>h, <2>1, <3>2, <3>6, <3>10, KeptAll, Zenon
    <3>. QED
      BY <1>d, <1>e, <3>8, <3>9, <3>11, UniqueMoved, Zenon
  <2>. QED
    BY <2>2, <2>3, <2>4, Zenon
<1>5. CASE PopResponse
  <2>1. /\ s_response_pdu_list # <<>>
        /\ s_response_pdu_list \in Seq([uuid : Uuids, pdu : Pdus \cup {NULL}])
        /\ s_response_pdu_list' = Tail(s_response_pdu_list)
        /\ m_resp' = Head(s_response_pdu_list)
        /\ UNCHANGED <<inbox, sent, m_task_list, running, m_in_buf>>
    BY <1>a, <1>5, Zenon DEF PopResponse, TypeOK, kernVars, poolVars
  <2>2. PICK x : x = m_resp'.pdu
    BY Zenon
  <2>3. PICK s \in Places : s = <<"list", 0>>
    BY PlaceFacts, Zenon
  <2>4. PICK t \in Places : t = <<"resp", 0>>
    BY PlaceFacts, Zenon
  <2>5. /\ s # t /\ Len(C[s]) \in Nat /\ 1 <= Len(C[s]) /\ x = C[s][1]
        /\ Shorter(C[s], D[s])
    <3>1. /\ Shorter(PdusIn(s_response_pdu_list), PdusIn(s_response_pdu_list'))
          /\ Len(PdusIn(s_response_pdu_list)) \in Nat /\ 1 <= Len(PdusIn(s_response_pdu_list))
          /\ PdusIn(s_response_pdu_list)[1] = x
      BY <2>1, <2>2, PdusShorter, Zenon
    <3>2. C[s] = PdusIn(s_response_pdu_list) /\ D[s] = PdusIn(s_response_pdu_list')
      BY <1>f, <1>g, <2>3, Zenon
    <3>. QED
      BY <2>3, <2>4, <3>1, <3>2, Zenon
  <2>6. Grown(C[t], D[t], x)
    <3>1. D[t] = Cell(m_resp')
      BY <1>g, <2>4, Zenon
    <3>. QED
      BY <2>2, <3>1, CellGrown, Zenon
  <2>7. \A p \in Places \ {s, t} : Kept(C[p], D[p])
    BY <1>h, <2>1, <2>3, <2>4, KeptAll, Zenon
  <2>. QED
    BY <1>d, <1>e, <2>5, <2>6, <2>7, UniqueMoved, Zenon
<1>6. CASE DeliverResponse
  <2>1. /\ UNCHANGED <<m_task_list, running, m_in_buf, s_response_pdu_list>>
        /\ m_resp' = NoTask
    BY <1>6, Zenon DEF DeliverResponse, poolVars
  <2>2. C[<<"resp", 0>>] = Cell(m_resp) /\ D[<<"resp", 0>>] = Cell(NoTask)
    BY <1>f, <1>g, <2>1, Zenon
  <2>3. CASE g_uuid_conn_map[m_resp.uuid] # NoConn /\ m_resp.pdu # NULL
    <3>1. PICK c \in Conns : c = g_uuid_conn_map[m_resp.uuid]
      BY <1>6, <2>3, ResponseConn, Zenon DEF DeliverResponse
    <3>2. PICK x \in Pdus : x = m_resp.pdu
      <4>1. m_resp \in [uuid : Uuids, pdu : Pdus \cup {NULL}] \cup {NoTask}
        BY <1>a, Zenon DEF TypeOK
      <4>. QED
        BY <2>3, <4>1 DEF NoTask
    <3>3. sent' = [sent EXCEPT ![c] = Append(@, x)] /\ UNCHANGED inbox
      BY <1>6, <2>3, <3>1, <3>2, Zenon DEF DeliverResponse, kernVars
    <3>4. /\ sent[c] \in Seq(Pdus) /\ sent'[c] = Append(sent[c], x)
          /\ \A d \in Conns \ {c} : sent'[d] = sent[d]
      BY <1>a, <3>3, ZenonT(40) DEF TypeOK
    <3>5. PICK s \in Places : s = <<"resp", 0>>
      BY PlaceFacts, Zenon
    <3>6. PICK t \in Places : t = <<"sent", c>>
      BY PlaceFacts, Zenon
    <3>7. /\ s # t /\ Len(C[s]) \in Nat /\ 1 <= Len(C[s]) /\ x = C[s][1]
          /\ Shorter(C[s], D[s])
      BY <2>2, <2>3, <3>2, <3>5, <3>6, CellTaken, Zenon
    <3>8. Grown(C[t], D[t], x)
      <4>1. C[t] = sent[c] /\ D[t] = sent'[c]
        BY <1>f, <1>g, <3>6, Zenon
      <4>. QED
        BY <3>4, <4>1, GrownAppend, Zenon
    <3>9. \A d \in Conns : <<"sent", d>> \in {s, t} \/ Kept(C[<<"sent", d>>], D[<<"sent", d>>])
      BY <1>a, <1>f, <1>g, <3>4, <3>6, SameHeld, ZenonT(40)
    <3>10. \A p \in Places \ {s, t} : Kept(C[p], D[p])
      BY <1>h, <2>1, <3>3, <3>5, <3>9, KeptAll, Zenon
    <3>. QED
      BY <1>d, <1>e, <3>7, <3>8, <3>10, UniqueMoved, Zenon
  <2>4. CASE ~(g_uuid_conn_map[m_resp.uuid] # NoConn /\ m_resp.pdu # NULL)
    <3>1. Close({g_uuid_conn_map[m_resp.uuid]} \ {NoConn}) /\ UNCHANGED sent
      BY <1>6, <2>4, Zenon DEF DeliverResponse
    <3>2. \A c \in Conns : Kept(C[<<"inbox", c>>], D[<<"inbox", c>>])
      BY <1>i, <3>1, Zenon
    <3>3. Kept(C[<<"resp", 0>>], D[<<"resp", 0>>])
      <4>1. Cell(NoTask) = <<>>
        BY Zenon DEF Cell, NoTask
      <4>. QED
        BY <2>2, <4>1, KeptEmpty, Zenon
    <3>4. \A p \in Places \ {} : Kept(C[p], D[p])
      BY <1>h, <2>1, <3>1, <3>2, <3>3, KeptAll, Zenon
    <3>. QED
      BY <1>d, <1>e, <3>4, UniqueKept, Zenon
  <2>. QED
    BY <2>3, <2>4, Zenon
<1>7. ASSUME NEW w \in Workers, PopTask(w) PROVE Unique(D)
  <2>1. /\ m_task_list[w] # <<>> /\ m_task_list[w] \in Seq(InFlight)
        /\ m_task_list'[w] = Tail(m_task_list[w])
        /\ \A v \in Workers \ {w} : m_task_list'[v] = m_task_list[v]
        /\ running'[w] = Head(m_task_list[w])
        /\ \A v \in Workers \ {w} : running'[v] = running[v]
        /\ UNCHANGED <<inbox, sent, m_in_buf, s_response_pdu_list, m_resp>>
    BY <1>a, <1>7, ZenonT(40) DEF PopTask, TypeOK, kernVars, mainVars
  <2>2. PICK x : x = running'[w].pdu
    BY Zenon
  <2>3. PICK s \in Places : s = <<"task", w>>
    BY PlaceFacts, Zenon
  <2>4. PICK t \in Places : t = <<"run", w>>
    BY PlaceFacts, Zenon
  <2>5. /\ s # t /\ Len(C[s]) \in Nat /\ 1 <= Len(C[s]) /\ x = C[s][1]
        /\ Shorter(C[s], D[s])
    <3>1. /\ Shorter(PdusIn(m_task_list[w]), PdusIn(m_task_list'[w]))
          /\ Len(PdusIn(m_task_list[w])) \in Nat /\ 1 <= Len(PdusIn(m_task_list[w]))
          /\ PdusIn(m_task_list[w])[1] = x
      BY <2>1, <2>2, PdusShorter, Zenon
    <3>2. C[s] = PdusIn(m_task_list[w]) /\ D[s] = PdusIn(m_task_list'[w])
      BY <1>f, <1>g, <2>3, Zenon
    <3>. QED
      BY <2>3, <2>4, <3>1, <3>2, Zenon
  <2>6. Grown(C[t], D[t], x)
    <3>1. D[t] = Cell(running'[w])
      BY <1>g, <2>4, Zenon
    <3>. QED
      BY <2>2, <3>1, CellGrown, Zenon
  <2>7. /\ \A v \in Workers : <<"task", v>> \in {s, t} \/ Kept(C[<<"task", v>>], D[<<"task", v>>])
        /\ \A v \in Workers : <<"run", v>> \in {s, t} \/ Kept(C[<<"run", v>>], D[<<"run", v>>])
    <3>1. ASSUME NEW v \in Workers, v # w
          PROVE  Kept(C[<<"task", v>>], D[<<"task", v>>]) /\ Kept(C[<<"run", v>>], D[<<"run", v>>])
      <4>1. /\ C[<<"task", v>>] = PdusIn(m_task_list[v]) /\ C[<<"run", v>>] = Cell(running[v])
            /\ D[<<"task", v>>] = PdusIn(m_task_list'[v]) /\ D[<<"run", v>>] = Cell(running'[v])
        BY <1>f, <1>g, Zenon
      <4>2. m_task_list'[v] = m_task_list[v] /\ running'[v] = running[v]
        BY <2>1, <3>1, Zenon
      <4>. QED
        BY <1>a, <4>1, <4>2, SameHeld, Zenon
    <3>. QED
      BY <2>3, <2>4, <3>1, Zenon
  <2>8. \A p \in Places \ {s, t} : Kept(C[p], D[p])
    BY <1>h, <2>1, <2>7, KeptAll, Zenon
  <2>. QED
    BY <1>d, <1>e, <2>5, <2>6, <2>8, UniqueMoved, Zenon
<1>8. ASSUME NEW w \in Workers, Run(w) PROVE Unique(D)
  <2>1. PICK y : y = [uuid |-> running[w].uuid,
                      pdu  |-> IF request[running[w].pdu].kind = "request"
                               THEN running[w].pdu ELSE NULL]
    BY Zenon
  <2>2. /\ running[w] \in InFlight /\ running[w].pdu \in Pdus /\ running[w].pdu # NULL
        /\ running'[w] = NoTask
        /\ \A v \in Workers \ {w} : running'[v] = running[v]
        /\ s_response_pdu_list' = Append(s_response_pdu_list, y)
        /\ UNCHANGED <<inbox, sent, m_task_list, m_in_buf, m_resp>>
    <3>1. running \in [Workers -> InFlight \cup {NoTask}] /\ running[w] # NoTask
      BY <1>a, <1>8, Zenon DEF TypeOK, Run
    <3>2. running[w] \in InFlight
      BY <3>1, Zenon
    <3>3. running[w].pdu \in Pdus
      BY <3>2, Zenon DEF InFlight
    <3>4. running[w].pdu # NULL
      BY <3>3 DEF Pdus, NULL
    <3>5. /\ running' = [running EXCEPT ![w] = NoTask]
          /\ s_response_pdu_list' = Append(s_response_pdu_list, y)
          /\ UNCHANGED <<inbox, sent, m_task_list, m_in_buf, m_resp>>
      BY <1>8, <2>1, Zenon DEF Run, kernVars, mainVars
    <3>. QED
      BY <3>1, <3>2, <3>3, <3>4, <3>5, Zenon
  <2>3. /\ s_response_pdu_list \in Seq([uuid : Uuids, pdu : Pdus \cup {NULL}])
        /\ s_response_pdu_list' \in Seq([uuid : Uuids, pdu : Pdus \cup {NULL}])
        /\ y \in [uuid : Uuids, pdu : Pdus \cup {NULL}]
        /\ y.pdu = running[w].pdu \/ y.pdu = NULL
    BY <1>a, <2>1, <2>2, Zenon DEF TypeOK, InFlight
  <2>4. PICK x : x = y.pdu
    BY Zenon
  <2>5. PICK s \in Places : s = <<"run", w>>
    BY PlaceFacts, Zenon
  <2>6. PICK t \in Places : t = <<"list", 0>>
    BY PlaceFacts, Zenon
  <2>7. /\ s # t /\ Len(C[s]) \in Nat /\ 1 <= Len(C[s]) /\ (x = C[s][1] \/ x = NULL)
        /\ Shorter(C[s], D[s])
    <3>1. C[s] = Cell(running[w]) /\ D[s] = Cell(NoTask)
      BY <1>f, <1>g, <2>2, <2>5, Zenon
    <3>. QED
      BY <2>2, <2>3, <2>4, <2>5, <2>6, <3>1, CellTaken, Zenon
  <2>8. Grown(C[t], D[t], x)
    <3>1. Grown(s_response_pdu_list, s_response_pdu_list', y)
      BY <2>2, <2>3, GrownAppend, Zenon
    <3>2. Grown(PdusIn(s_response_pdu_list), PdusIn(s_response_pdu_list'), x)
      BY <2>3, <2>4, <3>1, PdusGrown
    <3>3. C[t] = PdusIn(s_response_pdu_list) /\ D[t] = PdusIn(s_response_pdu_list')
      BY <1>f, <1>g, <2>6, Zenon
    <3>. QED
      BY <3>2, <3>3, Zenon
  <2>9. \A v \in Workers : <<"run", v>> \in {s, t} \/ Kept(C[<<"run", v>>], D[<<"run", v>>])
    <3>1. ASSUME NEW v \in Workers, v # w
          PROVE  Kept(C[<<"run", v>>], D[<<"run", v>>])
      <4>1. C[<<"run", v>>] = Cell(running[v]) /\ D[<<"run", v>>] = Cell(running'[v])
        BY <1>f, <1>g, Zenon
      <4>2. running'[v] = running[v]
        BY <2>2, <3>1, Zenon
      <4>. QED
        BY <1>a, <4>1, <4>2, SameHeld, Zenon
    <3>. QED
      BY <2>5, <3>1, Zenon
  <2>10. \A p \in Places \ {s, t} : Kept(C[p], D[p])
    BY <1>h, <2>2, <2>6, <2>9, KeptAll, Zenon
  <2>. QED
    BY <1>d, <1>e, <2>7, <2>8, <2>10, UniqueMoved, Zenon
<1>9. ASSUME NEW h \in Handles, EndOfEvent(h) PROVE Unique(D)
  <2>1. \E S : Close(S)
    BY <1>9, Zenon DEF EndOfEvent
  <2>. QED
    BY <1>1, <1>9, <2>1, Zenon DEF EndOfEvent, poolVars
<1>10. CASE ProxyTimer
  <2>1. \E S : Close(S)
    BY <1>10, Zenon DEF ProxyTimer
  <2>. QED
    BY <1>1, <1>10, <2>1, Zenon DEF ProxyTimer, poolVars, mainVars
<1>11. ASSUME NEW c \in Conns,
              Elapse(c) \/ \E how \in {"fin", "reset"} : PeerGone(c, how)
       PROVE  Unique(D)
  BY <1>1, <1>11, Zenon DEF Elapse, PeerGone, poolVars, mainVars
<1>12. CASE EpollWait
  BY <1>1, <1>12, Zenon DEF EpollWait, poolVars
<1>13. CASE EndOfLoop \/ ExitCallback \/ SigHandler
  BY <1>1, <1>13, Zenon DEF EndOfLoop, ExitCallback, SigHandler, poolVars, mainVars, kernVars
<1>14. ASSUME NEW h \in Handles, OnConnect(h) PROVE Unique(D)
  BY <1>1, <1>14, Zenon DEF OnConnect, poolVars, mainVars, kernVars
<1>15. CASE UNCHANGED vars
  BY <1>1, <1>15, Zenon DEF vars, poolVars, mainVars, kernVars
<1>. QED
  BY <1>2, <1>3, <1>4, <1>5, <1>6, <1>7, <1>8, <1>9, <1>10, <1>11, <1>12, <1>13, <1>14, <1>15, Zenon
     DEF Next, Environment, EventLoop, Worker

-----------------------------------------------------------------------------
(* No request is lost.                                                       *)

\* Between two calls of SendResponsePduList nothing is left in its hands.
CellEmpty == pc # "deliver" => m_resp = NoTask

\* A push keeps what is in a list and adds what it pushes.
LEMMA HasAppend ==
    ASSUME NEW X, NEW a \in Seq(X), NEW x \in X
    PROVE  /\ Has(Append(a, x), x) /\ HasTask(Append(a, x), x.pdu)
           /\ \A r : Has(a, r) => Has(Append(a, x), r)
           /\ \A r : HasTask(a, r) => HasTask(Append(a, x), r)
<1>1. PICK b : b = Append(a, x)
  BY Zenon
<1>2. /\ Len(a) \in Nat /\ Len(b) = Len(a) + 1 /\ b[Len(a) + 1] = x
      /\ \A i \in 1 .. Len(a) : b[i] = a[i]
  BY <1>1, AppendFacts
<1>3. Len(a) + 1 \in 1 .. Len(b) /\ \A i \in 1 .. Len(a) : i \in 1 .. Len(b)
  BY <1>2
<1>4. Has(b, x) /\ HasTask(b, x.pdu)
  BY <1>2, <1>3, Zenon DEF Has, HasTask
<1>5. \A r : (Has(a, r) => Has(b, r)) /\ (HasTask(a, r) => HasTask(b, r))
  BY <1>2, <1>3, Zenon DEF Has, HasTask
<1>. QED
  BY <1>1, <1>4, <1>5, Zenon

\* A pop takes the head only.
LEMMA HasTail ==
    ASSUME NEW X, NEW a \in Seq(X), a # <<>>
    PROVE  /\ \A r : Has(a, r) => r = Head(a) \/ Has(Tail(a), r)
           /\ \A r : HasTask(a, r) => r = Head(a).pdu \/ HasTask(Tail(a), r)
<1>1. /\ Head(a) = a[1] /\ Len(a) \in Nat /\ Len(Tail(a)) = Len(a) - 1
      /\ \A i \in 1 .. Len(Tail(a)) : i + 1 \in 1 .. Len(a) /\ Tail(a)[i] = a[i + 1]
  BY HeadTail, Zenon
<1>2. PICK b : b = Tail(a)
  BY Zenon
<1>3. ASSUME NEW i \in 1 .. Len(a) PROVE a[i] = Head(a) \/ \E j \in 1 .. Len(b) : b[j] = a[i]
  <2>1. CASE i = 1
    BY <1>1, <2>1, Zenon
  <2>2. CASE i # 1
    <3>1. PICK j \in 1 .. Len(b) : i = j + 1
      <4>1. i - 1 \in 1 .. Len(b) /\ i = (i - 1) + 1
        BY <1>1, <1>2, <2>2
      <4>. QED
        BY <4>1, Zenon
    <3>. QED
      BY <1>1, <1>2, <3>1, Zenon
  <2>. QED
    BY <2>1, <2>2, Zenon
<1>4. \A r : Has(a, r) => r = Head(a) \/ Has(b, r)
  BY <1>3, Zenon DEF Has
<1>5. \A r : HasTask(a, r) => r = Head(a).pdu \/ HasTask(b, r)
  BY <1>3, Zenon DEF HasTask
<1>. QED
  BY <1>2, <1>4, <1>5, Zenon

\* A closed connection stays closed.
LEMMA ClosedStays ==
    ASSUME Inv, [Next]_vars, NEW c \in Conns, status[c] = "closed"
    PROVE  status'[c] = "closed"
<1>a. TypeOK /\ ConnInv
  BY Zenon DEF Inv
<1>1. ASSUME NEW S, Close(S) PROVE status'[c] = "closed"
  BY <1>1, Zenon DEF Close
<1>2. ASSUME NEW h \in Handles, OnConnect(h) PROVE status'[c] = "closed"
  <2>1. c # accepted + 1
    BY <1>a, <1>2 DEF ConnInv, TypeOK, OnConnect, Conns
  <2>. QED
    BY <1>a, <1>2, <2>1, Zenon DEF OnConnect, TypeOK
<1>. QED
  BY <1>1, <1>2, Touches, Zenon

\* Two connections with one uuid keep it.
LEMMA SharesStay ==
    ASSUME Inv, [Next]_vars, NEW c \in 1 .. accepted, SharesUuid(c)
    PROVE  SharesUuid(c)'
  BY HistoryStep, Zenon DEF SharesUuid

\* What becomes of a request of connection c, wherever it is.
LEMMA InboxNext ==
    ASSUME Inv, [Next]_vars, NEW c \in Conns, NEW r, Has(inbox[c], r)
    PROVE  \/ status'[c] = "closed"
           \/ Has(inbox'[c], r)
           \/ reading' = c /\ Has(m_in_buf', r)
<1>a. TypeOK
  BY Zenon DEF Inv
<1>1. ASSUME NEW S, Close(S) PROVE status'[c] = "closed" \/ Has(inbox'[c], r)
  BY <1>1, Zenon DEF Close
<1>2. ASSUME NEW d \in Conns, NEW kind \in Kinds, PeerSend(d, kind) PROVE Has(inbox'[c], r)
  <2>1. PICK x \in Pdus : x = Len(request) + 1
    BY <1>a, <1>2, SMTT(40) DEF PeerSend, TypeOK, Pdus
  <2>2. inbox'[c] = inbox[c] \/ inbox'[c] = Append(inbox[c], x)
    BY <1>a, <1>2, <2>1, Zenon DEF PeerSend, TypeOK
  <2>3. inbox[c] \in Seq(Pdus)
    BY <1>a, Zenon DEF TypeOK
  <2>4. Has(Append(inbox[c], x), r)
    BY <2>3, HasAppend, Zenon
  <2>. QED
    BY <2>2, <2>4, Zenon
<1>3. ASSUME NEW h \in Handles, OnRead(h), pc' = "read"
      PROVE  Has(inbox'[c], r) \/ (reading' = c /\ Has(m_in_buf', r))
  <2>1. ~(g_proxy_conn_map[h] = NoConn \/ inbox[g_proxy_conn_map[h]] = <<>>)
    BY <1>3, Zenon DEF OnRead
  <2>2. /\ reading' = g_proxy_conn_map[h] /\ m_in_buf' = inbox[g_proxy_conn_map[h]]
        /\ inbox' = [inbox EXCEPT ![g_proxy_conn_map[h]] = <<>>]
    BY <1>3, <2>1, Zenon DEF OnRead
  <2>3. CASE c = g_proxy_conn_map[h]
    BY <2>2, <2>3, Zenon
  <2>4. CASE c # g_proxy_conn_map[h]
    BY <1>a, <2>2, <2>4, Zenon DEF TypeOK
  <2>. QED
    BY <2>3, <2>4, Zenon
<1>. QED
  BY <1>1, <1>2, <1>3, Touches, Zenon

\* Where a request in the buffer is after a step: still there, with a worker, or its
\* connection was closed.
LEMMA BufferNext ==
    ASSUME Inv, [Next]_vars, NEW c \in Conns, NEW r, reading = c, Has(m_in_buf, r),
           request[r].kind = "request"
    PROVE  \/ status'[c] = "closed"
           \/ reading' = c /\ Has(m_in_buf', r)
           \/ \E w \in Workers : HasTask(m_task_list'[w], r)
<1>a. TypeOK /\ LoopInv
  BY Zenon DEF Inv
<1>b. m_in_buf # <<>> /\ m_in_buf \in Seq(Pdus)
  BY <1>a, SMTT(40) DEF Has, TypeOK
<1>1. ASSUME NEW h \in Handles, OnRead(h) \/ EndOfEvent(h) PROVE FALSE
  BY <1>1, <1>a, <1>b, Zenon DEF OnRead, EndOfEvent, LoopInv
<1>2. ASSUME NEW w \in Workers, HandlePduBuf(w)
      PROVE  \/ status'[c] = "closed"
             \/ reading' = c /\ Has(m_in_buf', r)
             \/ \E v \in Workers : HasTask(m_task_list'[v], r)
  <2>0. reading' = c
    BY <1>2, Zenon DEF HandlePduBuf
  <2>1. CASE request[Head(m_in_buf)].kind = "malformed"
    <3>1. Close({reading})
      BY <1>2, <2>1, Zenon DEF HandlePduBuf
    <3>. QED
      BY <3>1, Zenon DEF Close
  <2>2. CASE request[Head(m_in_buf)].kind = "ignored"
    <3>1. m_in_buf' = Tail(m_in_buf) /\ r # Head(m_in_buf)
      BY <1>2, <2>2, Zenon DEF HandlePduBuf
    <3>. QED
      BY <1>b, <2>0, <3>1, HasTail, Zenon
  <2>3. CASE request[Head(m_in_buf)].kind \notin {"malformed", "ignored"}
    <3>1. PICK task : task = [uuid |-> m_uuid[reading], pdu |-> Head(m_in_buf)]
      BY Zenon
    <3>2. /\ m_task_list' = [m_task_list EXCEPT ![w] = Append(@, task)]
          /\ m_in_buf' = Tail(m_in_buf)
      BY <1>2, <2>3, <3>1, Zenon DEF HandlePduBuf
    <3>3. m_task_list'[w] = Append(m_task_list[w], task) /\ m_task_list[w] \in Seq(InFlight)
      BY <1>a, <3>2, Zenon DEF TypeOK
    <3>4. task \in InFlight /\ task.pdu = Head(m_in_buf)
      <4>1. m_uuid[reading] \in Uuids
        BY <1>2, <1>a, Zenon DEF HandlePduBuf, LoopInv, Inv, UuidWindow
      <4>2. Head(m_in_buf) \in Pdus
        BY <1>b, HeadTail, Zenon
      <4>. QED
        BY <3>1, <4>1, <4>2, Zenon DEF InFlight
    <3>5. CASE r = Head(m_in_buf)
      <4>1. HasTask(m_task_list'[w], r)
        BY <3>3, <3>4, <3>5, HasAppend
      <4>. QED
        BY <4>1, Zenon
    <3>. QED
      BY <1>b, <2>0, <3>2, <3>5, HasTail, Zenon
  <2>. QED
    BY <2>1, <2>2, <2>3, Zenon
<1>. QED
  BY <1>1, <1>2, Touches, Zenon

\* Where a request in a worker's list is after a step.
LEMMA TaskNext ==
    ASSUME Inv, [Next]_vars, NEW w \in Workers, NEW r, HasTask(m_task_list[w], r)
    PROVE  HasTask(m_task_list'[w], r) \/ running'[w].pdu = r
<1>a. TypeOK /\ m_task_list[w] \in Seq(InFlight)
  BY Zenon DEF Inv, TypeOK
<1>1. ASSUME NEW v \in Workers, HandlePduBuf(v) PROVE HasTask(m_task_list'[w], r)
  <2>1. CASE UNCHANGED m_task_list
    BY <2>1, Zenon
  <2>2. CASE m_task_list' # m_task_list
    <3>1. PICK task : task = [uuid |-> m_uuid[reading], pdu |-> Head(m_in_buf)]
      BY Zenon
    <3>2. m_task_list' = [m_task_list EXCEPT ![v] = Append(@, task)]
      <4>1. CASE request[Head(m_in_buf)].kind \in {"malformed", "ignored"}
        BY <1>1, <2>2, <4>1, Zenon DEF HandlePduBuf
      <4>2. CASE request[Head(m_in_buf)].kind \notin {"malformed", "ignored"}
        BY <1>1, <3>1, <4>2, Zenon DEF HandlePduBuf
      <4>. QED
        BY <4>1, <4>2, Zenon
    <3>3. task \in InFlight
      <4>1. m_uuid[reading] \in Uuids
        BY <1>1, <1>a, Zenon DEF HandlePduBuf, LoopInv, Inv, UuidWindow
      <4>2. Head(m_in_buf) \in Pdus
        BY <1>1, <1>a, HeadTail, Zenon DEF HandlePduBuf, TypeOK
      <4>. QED
        BY <3>1, <4>1, <4>2, Zenon DEF InFlight
    <3>4. m_task_list'[w] = m_task_list[w] \/ m_task_list'[w] = Append(m_task_list[w], task)
      BY <1>a, <3>2, Zenon DEF TypeOK
    <3>5. HasTask(Append(m_task_list[w], task), r)
      BY <1>a, <3>3, HasAppend, Zenon
    <3>. QED
      BY <3>4, <3>5, Zenon
  <2>. QED
    BY <2>1, <2>2, Zenon
<1>2. ASSUME NEW v \in Workers, PopTask(v) PROVE HasTask(m_task_list'[w], r) \/ running'[w].pdu = r
  <2>1. CASE v # w
    <3>1. m_task_list'[w] = m_task_list[w]
      BY <1>2, <1>a, <2>1, Zenon DEF PopTask, TypeOK
    <3>. QED
      BY <3>1, Zenon
  <2>2. CASE v = w
    <3>1. /\ m_task_list[w] # <<>> /\ m_task_list'[w] = Tail(m_task_list[w])
          /\ running'[w] = Head(m_task_list[w])
      BY <1>2, <1>a, <2>2, Zenon DEF PopTask, TypeOK
    <3>. QED
      BY <1>a, <3>1, HasTail, Zenon
  <2>. QED
    BY <2>1, <2>2, Zenon
<1>. QED
  BY <1>1, <1>2, Touches, Zenon

\* Where a request that a worker handles is after a step.
LEMMA RunningNext ==
    ASSUME Inv, [Next]_vars, NEW w \in Workers, NEW r \in 1 .. Len(request),
           running[w].pdu = r, request[r].kind = "request"
    PROVE  running'[w].pdu = r \/ HasTask(s_response_pdu_list', r)
<1>a. TypeOK /\ r # NULL
  BY DEF Inv
<1>1. ASSUME NEW v \in Workers, PopTask(v) PROVE running'[w].pdu = r
  <2>1. running[v] = NoTask
    BY <1>1, Zenon DEF PopTask
  <2>2. v # w
    BY <1>a, <2>1 DEF NoTask
  <2>. QED
    BY <1>1, <1>a, <2>2, Zenon DEF PopTask, TypeOK
<1>2. ASSUME NEW v \in Workers, Run(v) PROVE running'[w].pdu = r \/ HasTask(s_response_pdu_list', r)
  <2>1. CASE v # w
    BY <1>2, <1>a, <2>1, Zenon DEF Run, TypeOK
  <2>2. CASE v = w
    <3>1. PICK y : y = [uuid |-> running[w].uuid, pdu |-> r]
      BY Zenon
    <3>2. s_response_pdu_list' = Append(s_response_pdu_list, y) /\ y.pdu = r
      BY <1>2, <2>2, <3>1, Zenon DEF Run
    <3>3. /\ y \in [uuid : Uuids, pdu : Pdus \cup {NULL}]
          /\ s_response_pdu_list \in Seq([uuid : Uuids, pdu : Pdus \cup {NULL}])
      <4>1. running[w] \in InFlight
        BY <1>2, <1>a, <2>2, Zenon DEF Run, TypeOK
      <4>. QED
        BY <1>a, <3>1, <4>1, Zenon DEF InFlight, TypeOK
    <3>4. HasTask(Append(s_response_pdu_list, y), y.pdu)
      BY <3>3, HasAppend, Zenon
    <3>. QED
      BY <3>2, <3>4, Zenon
  <2>. QED
    BY <2>1, <2>2, Zenon
<1>. QED
  BY <1>1, <1>2, Touches, Zenon

\* Where a request in the response list is after a step.
LEMMA ListNext ==
    ASSUME Inv, [Next]_vars, NEW r, HasTask(s_response_pdu_list, r)
    PROVE  HasTask(s_response_pdu_list', r) \/ m_resp'.pdu = r
<1>a. TypeOK /\ s_response_pdu_list \in Seq([uuid : Uuids, pdu : Pdus \cup {NULL}])
  BY Zenon DEF Inv, TypeOK
<1>1. ASSUME PopResponse PROVE HasTask(s_response_pdu_list', r) \/ m_resp'.pdu = r
  BY <1>1, <1>a, HasTail, Zenon DEF PopResponse
<1>2. ASSUME NEW w \in Workers, Run(w) PROVE HasTask(s_response_pdu_list', r)
  <2>1. PICK y : y = [uuid |-> running[w].uuid,
                      pdu  |-> IF request[running[w].pdu].kind = "request"
                               THEN running[w].pdu ELSE NULL]
    BY Zenon
  <2>2. running[w] \in InFlight
    BY <1>2, <1>a, Zenon DEF Run, TypeOK
  <2>3. y \in [uuid : Uuids, pdu : Pdus \cup {NULL}]
    BY <2>1, <2>2, Zenon DEF InFlight
  <2>4. s_response_pdu_list' = Append(s_response_pdu_list, y)
    BY <1>2, <2>1, Zenon DEF Run
  <2>. QED
    BY <1>a, <2>3, <2>4, HasAppend, Zenon
<1>. QED
  BY <1>1, <1>2, Touches, Zenon

\* Where the response in hand is after a step: sent to its connection, unless that one
\* was closed or shares its uuid.
LEMMA ResponseNext ==
    ASSUME Inv, CellEmpty, [Next]_vars, NEW r \in 1 .. Len(request), m_resp.pdu = r,
           NEW c, c = From(r)
    PROVE  \/ m_resp'.pdu = r
           \/ status[c] = "closed"
           \/ SharesUuid(c)
           \/ Has(sent'[c], r)
<1>a. TypeOK /\ ConnInv /\ MapsMatchConns /\ r # NULL
  BY DEF Inv
<1>b. c \in 1 .. accepted /\ m_uuid[c] = m_resp.uuid /\ c \in Conns /\ accepted \in Nat
  <2>1. c \in 1 .. accepted /\ m_uuid[c] = m_resp.uuid
    BY <1>a, Zenon DEF Inv, FlightInv, ResponseTagged, Tagged, Known
  <2>2. accepted \in 0 .. MaxConn
    BY <1>a, Zenon DEF TypeOK
  <2>3. accepted \in Nat /\ 1 .. accepted \subseteq Conns
    BY <2>2, BoundsAssumption DEF Conns
  <2>. QED
    BY <2>1, <2>3, Zenon
<1>1. CASE PopResponse
  BY <1>1, <1>a DEF PopResponse, CellEmpty, NoTask
<1>2. CASE DeliverResponse
  <2>0. m_resp.uuid \in Uuids /\ pc = "deliver"
    BY <1>2, Zenon DEF Inv, LoopInv, DeliverResponse
  <2>1. CASE g_uuid_conn_map[m_resp.uuid] = NoConn
    <3>1. status[c] \in {"open", "closed"}
      BY <1>a, <1>b DEF ConnInv, TypeOK
    <3>2. CASE status[c] = "open"
      BY <1>a, <1>b, <2>1, <3>2, SMTT(40) DEF MapsMatchConns
    <3>. QED
      BY <3>1, <3>2, Zenon
  <2>2. CASE g_uuid_conn_map[m_resp.uuid] # NoConn
    <3>1. PICK d \in Conns : d = g_uuid_conn_map[m_resp.uuid]
                             /\ d \in 1 .. accepted /\ m_uuid[d] = m_resp.uuid
      BY <2>0, <2>2, ResponseConn, Zenon
    <3>2. CASE d # c
      BY <1>b, <3>1, <3>2, Zenon DEF SharesUuid
    <3>3. CASE d = c
      <4>1. sent' = [sent EXCEPT ![c] = Append(@, r)]
        BY <1>2, <1>a, <2>2, <3>1, <3>3, Zenon DEF DeliverResponse
      <4>2. sent'[c] = Append(sent[c], r) /\ sent[c] \in Seq(Pdus)
        BY <1>a, <1>b, <4>1, Zenon DEF TypeOK
      <4>3. r \in Pdus
        BY <1>a DEF TypeOK, Pdus
      <4>. QED
        BY <4>2, <4>3, HasAppend, SMTT(40)
    <3>. QED
      BY <3>2, <3>3, Zenon
  <2>. QED
    BY <2>1, <2>2, Zenon
<1>. QED
  BY <1>1, <1>2, Touches, Zenon

\* What was sent stays sent.
LEMMA SentNext ==
    ASSUME Inv, [Next]_vars, NEW c \in Conns, NEW r, Has(sent[c], r)
    PROVE  Has(sent'[c], r)
<1>a. TypeOK /\ sent[c] \in Seq(Pdus)
  BY Zenon DEF Inv, TypeOK
<1>1. CASE DeliverResponse /\ sent' # sent
  <2>1. sent' = [sent EXCEPT ![g_uuid_conn_map[m_resp.uuid]] = Append(@, m_resp.pdu)]
        /\ m_resp.pdu # NULL
    BY <1>1, Zenon DEF DeliverResponse
  <2>2. m_resp.pdu \in Pdus
    <3>1. m_resp \in [uuid : Uuids, pdu : Pdus \cup {NULL}] \cup {NoTask}
      BY <1>a, Zenon DEF TypeOK
    <3>. QED
      <4>1. NoTask.pdu = NULL
        BY DEF NoTask
      <4>2. m_resp # NoTask
        BY <2>1, <4>1, Zenon
      <4>. QED
        BY <2>1, <3>1, <4>2, Zenon
  <2>3. sent'[c] = sent[c] \/ sent'[c] = Append(sent[c], m_resp.pdu)
    BY <1>a, <2>1, Zenon DEF TypeOK
  <2>4. Has(Append(sent[c], m_resp.pdu), r)
    BY <1>a, <2>2, HasAppend, Zenon
  <2>. QED
    BY <2>3, <2>4, Zenon
<1>. QED
  BY <1>1, Touches, Zenon

\* SendResponsePduList leaves no response in hand.
LEMMA CellStep ==
    ASSUME Inv, CellEmpty, [Next]_vars
    PROVE  CellEmpty'
<1>1. CASE UNCHANGED <<m_resp, pc>>
  BY <1>1, Zenon DEF CellEmpty
<1>2. CASE PopResponse
  BY <1>2, Zenon DEF PopResponse, CellEmpty
<1>3. CASE DeliverResponse
  BY <1>3, Zenon DEF DeliverResponse, CellEmpty
<1>4. CASE UNCHANGED m_resp /\ pc # "deliver"
  BY <1>4, Zenon DEF CellEmpty
<1>5. \/ UNCHANGED <<m_resp, pc>>
      \/ PopResponse \/ DeliverResponse
      \/ UNCHANGED m_resp /\ pc # "deliver"
  <2>. USE DEF vars, mainVars
  <2>1. ASSUME Environment \/ SigHandler \/ ExitCallback \/ UNCHANGED vars
               \/ \E w \in Workers : Worker(w) \/ HandlePduBuf(w)
        PROVE  UNCHANGED <<m_resp, pc>>
    BY <2>1, Zenon DEF Environment, SigHandler, ExitCallback, Worker, PeerSend, PeerGone, Elapse,
                PopTask, Run, HandlePduBuf
  <2>2. ASSUME \/ EpollWait \/ ProxyTimer \/ EndOfLoop
               \/ \E h \in Handles : OnConnect(h) \/ OnRead(h) \/ EndOfEvent(h)
        PROVE  UNCHANGED m_resp /\ pc # "deliver"
    BY <2>2, Zenon DEF EpollWait, ProxyTimer, EndOfLoop, OnConnect, OnRead, EndOfEvent
  <2>. QED
    BY <2>1, <2>2, Zenon DEF Next, EventLoop
<1>. QED
  BY <1>1, <1>2, <1>3, <1>4, <1>5, Zenon

\* Where a request may be, in the words of RequestNotLost.
Safe(r, c) ==
    \/ status[c] = "closed"
    \/ Has(inbox[c], r)
    \/ reading = c /\ Has(m_in_buf, r)
    \/ \E w \in Workers : HasTask(m_task_list[w], r) \/ running[w].pdu = r
    \/ HasTask(s_response_pdu_list, r)
    \/ m_resp.pdu = r
    \/ Has(sent[c], r)
    \/ SharesUuid(c)

\* No step loses a request of an open connection.
LEMMA NotLostStep ==
    ASSUME Inv, CellEmpty, RequestNotLost, [Next]_vars
    PROVE  RequestNotLost'
<1>a. TypeOK /\ FlightInv /\ RequestsKnown /\ accepted \in Nat
  <2>1. TypeOK /\ FlightInv /\ RequestsKnown
    BY Zenon DEF Inv, FlightInv
  <2>2. accepted \in 0 .. MaxConn
    BY <2>1, Zenon DEF TypeOK
  <2>3. accepted \in Nat
    BY <2>2
  <2>. QED
    BY <2>1, <2>3, Zenon
<1>1. ASSUME NEW r \in 1 .. Len(request), request[r].kind = "request", NEW c, c = request[r].conn
      PROVE  Safe(r, c)'
  <2>0. c \in 1 .. accepted /\ c \in Conns /\ c = From(r)
    <3>1. c \in 1 .. accepted /\ c = From(r)
      BY <1>a, <1>1, Zenon DEF RequestsKnown, From
    <3>2. accepted <= MaxConn
      BY <1>a DEF TypeOK
    <3>. QED
      BY <1>a, <3>1, <3>2 DEF Conns
  <2>1. Safe(r, c)
    BY <1>1, Zenon DEF RequestNotLost, Safe
  <2>2. CASE status[c] = "closed" \/ SharesUuid(c)
    <3>1. status'[c] = "closed" \/ SharesUuid(c)'
      BY <2>0, <2>2, ClosedStays, SharesStay, Zenon
    <3>. QED
      BY <3>1, Zenon DEF Safe
  <2>3. CASE Has(inbox[c], r)
    BY <2>0, <2>3, InboxNext, Zenon DEF Safe
  <2>4. CASE reading = c /\ Has(m_in_buf, r)
    BY <1>1, <2>0, <2>4, BufferNext, Zenon DEF Safe
  <2>5. ASSUME NEW w \in Workers, HasTask(m_task_list[w], r) PROVE Safe(r, c)'
    BY <2>5, TaskNext, Zenon DEF Safe
  <2>6. ASSUME NEW w \in Workers, running[w].pdu = r PROVE Safe(r, c)'
    BY <1>1, <2>6, RunningNext, Zenon DEF Safe
  <2>7. CASE HasTask(s_response_pdu_list, r)
    BY <2>7, ListNext, Zenon DEF Safe
  <2>8. CASE m_resp.pdu = r
    <3>1. m_resp'.pdu = r \/ status[c] = "closed" \/ SharesUuid(c) \/ Has(sent'[c], r)
      BY <2>0, <2>8, ResponseNext, Zenon
    <3>2. CASE m_resp'.pdu = r \/ Has(sent'[c], r)
      BY <3>2, Zenon DEF Safe
    <3>. QED
      BY <2>2, <3>1, <3>2, Zenon
  <2>9. CASE Has(sent[c], r)
    BY <2>0, <2>9, SentNext, Zenon DEF Safe
  <2>. QED
    BY <2>1, <2>2, <2>3, <2>4, <2>5, <2>6, <2>7, <2>8, <2>9, Zenon DEF Safe
<1>2. ASSUME NEW c \in Conns, NEW kind \in Kinds, PeerSend(c, kind),
             NEW r, r = Len(request) + 1
      PROVE  Safe(r, c)' /\ request'[r].conn = c
  <2>1. r \in Pdus /\ inbox[c] \in Seq(Pdus) /\ inbox'[c] = Append(inbox[c], r)
    <3>1. r \in Pdus
      BY <1>a, <1>2, NextPdu, Zenon DEF PeerSend
    <3>2. inbox \in [Conns -> Seq(Pdus)]
      BY <1>a, Zenon DEF TypeOK
    <3>3. inbox' = [inbox EXCEPT ![c] = Append(inbox[c], r)]
      BY <1>2, Zenon DEF PeerSend
    <3>. QED
      BY <3>1, <3>2, <3>3, Zenon
  <2>2. Has(inbox'[c], r)
    BY <2>1, HasAppend, SMTT(40)
  <2>3. request'[r].conn = c
    <3>1. PICK rec \in [conn : Conns, kind : Kinds] : rec = [conn |-> c, kind |-> kind]
      BY Zenon
    <3>2. request' = Append(request, rec) /\ request \in Seq([conn : Conns, kind : Kinds])
      BY <1>2, <1>a, <3>1, Zenon DEF PeerSend, TypeOK
    <3>3. request'[r] = rec
      BY <1>2, <3>2, AppendFacts
    <3>. QED
      BY <3>1, <3>3
  <2>. QED
    BY <2>2, <2>3, Zenon DEF Safe
<1>3. \A r \in 1 .. Len(request') :
         \/ r \in 1 .. Len(request) /\ request'[r] = request[r]
         \/ r = Len(request) + 1 /\ \E c \in Conns, kind \in Kinds : PeerSend(c, kind)
  <2>1. UNCHANGED request \/ \E c \in Conns, kind \in Kinds : PeerSend(c, kind)
    BY Zenon DEF Next, Environment, EventLoop, Worker, PeerGone, Elapse, EpollWait,
           OnConnect, OnRead, EndOfEvent, HandlePduBuf, ProxyTimer, PopResponse,
           DeliverResponse, EndOfLoop, ExitCallback, SigHandler, PopTask, Run, vars
  <2>2. ASSUME NEW c \in Conns, NEW kind \in Kinds, PeerSend(c, kind)
        PROVE  \A r \in 1 .. Len(request') :
                  (r \in 1 .. Len(request) /\ request'[r] = request[r]) \/ r = Len(request) + 1
    <3>1. PICK rec \in [conn : Conns, kind : Kinds] : rec = [conn |-> c, kind |-> kind]
      BY Zenon
    <3>2. request' = Append(request, rec) /\ request \in Seq([conn : Conns, kind : Kinds])
      BY <1>a, <2>2, <3>1, Zenon DEF PeerSend, TypeOK
    <3>3. /\ Len(request) \in Nat /\ Len(request') = Len(request) + 1
          /\ \A r \in 1 .. Len(request) : request'[r] = request[r]
      BY <3>2, AppendFacts
    <3>. QED
      BY <3>3
  <2>. QED
    BY <2>1, <2>2, Zenon
<1>4. ASSUME NEW r \in 1 .. Len(request'), request'[r].kind = "request", NEW c, c = request'[r].conn
      PROVE  Safe(r, c)'
  <2>1. CASE r \in 1 .. Len(request) /\ request'[r] = request[r]
    BY <1>1, <1>4, <2>1, Zenon
  <2>2. CASE r = Len(request) + 1 /\ \E d \in Conns, kind \in Kinds : PeerSend(d, kind)
    <3>1. PICK d \in Conns, kind \in Kinds : PeerSend(d, kind)
      BY <2>2, Zenon
    <3>2. Safe(r, d)' /\ request'[r].conn = d
      BY <1>2, <2>2, <3>1, Zenon
    <3>. QED
      BY <1>4, <3>2, Zenon
  <2>. QED
    BY <1>3, <2>1, <2>2, Zenon
<1>. QED
  BY <1>4, Zenon DEF RequestNotLost, Safe

-----------------------------------------------------------------------------
(* The invariant in full.                                                    *)

FullInv == Inv /\ NoCopies /\ CellEmpty /\ RequestNotLost /\ Kinded /\ BatchInv

\* The full invariant holds when run_ptp_server_business enters its event loop.
LEMMA InitFull == Init => FullInv
<1>. SUFFICES ASSUME Init PROVE FullInv
  BY Zenon
<1>1. NoCopies
  <2>. DEFINE held == HeldIn(inbox, sent, m_task_list, running, m_in_buf, s_response_pdu_list, m_resp)
  <2>1. PICK C : C = held
    BY Zenon
  <2>2. /\ \A c \in Conns : inbox[c] = <<>> /\ sent[c] = <<>>
        /\ \A w \in Workers : m_task_list[w] = <<>> /\ running[w] = NoTask
        /\ m_in_buf = <<>> /\ s_response_pdu_list = <<>> /\ m_resp = NoTask
    BY Zenon DEF Init
  <2>3. Len(PdusIn(<<>>)) = 0 /\ Len(Cell(NoTask)) = 0
    BY DEF PdusIn, Cell, NoTask
  <2>4. \A p \in Places : Len(C[p]) = 0
    <3>. HIDE DEF held
    <3>1. /\ \A c \in Conns : C[<<"inbox", c>>] = <<>> /\ C[<<"sent", c>>] = <<>>
          /\ \A w \in Workers : /\ C[<<"task", w>>] = PdusIn(<<>>)
                                /\ C[<<"run", w>>] = Cell(NoTask)
          /\ C[<<"buf", 0>>] = <<>> /\ C[<<"list", 0>>] = PdusIn(<<>>)
          /\ C[<<"resp", 0>>] = Cell(NoTask)
      <4>1. C = HeldIn(inbox, sent, m_task_list, running, m_in_buf, s_response_pdu_list, m_resp)
        BY <2>1, Zenon DEF held
      <4>. QED
        BY <2>2, <4>1, HeldAt, SMTT(40)
    <3>2. ASSUME NEW p \in Places PROVE Len(C[p]) = 0
      <4>1. C[p] = <<>> \/ C[p] = PdusIn(<<>>) \/ C[p] = Cell(NoTask)
        BY <3>1, PlaceFacts, Zenon
      <4>2. Len(<<>>) = 0
        BY Zenon
      <4>. QED
        BY <2>3, <4>1, <4>2, Zenon
    <3>. QED
      BY <3>2, Zenon
  <2>5. Unique(C)
    BY <2>4 DEF Unique
  <2>. QED
    BY <2>1, <2>5, Zenon DEF NoCopies
<1>2. CellEmpty /\ RequestNotLost /\ BatchInv
  BY SMTT(40) DEF Init, CellEmpty, RequestNotLost, BatchInv
<1>3. Kinded
  BY DEF Init, Kinded, TasksHandled, RunningHandled, ListChecked
<1>. QED
  BY <1>1, <1>2, <1>3, InitInv, Zenon DEF FullInv

\* The full invariant is inductive.
LEMMA FullStep == FullInv /\ [Next]_vars => FullInv'
<1>. SUFFICES ASSUME FullInv, [Next]_vars PROVE FullInv'
  BY Zenon
<1>1. Inv'
  BY TypeStep, UuidStep, MapsStep, LoopStep, FlightStep, ReplyStep, Zenon DEF Inv, FullInv
<1>2. TypeOK'
  BY <1>1, Zenon DEF Inv
<1>. QED
  BY <1>1, <1>2, CopiesStep, CellStep, NotLostStep, KindedStep, BatchStep, Zenon DEF FullInv

\* The strengthened invariant of the business server, in full.
THEOREM FullInvariance == Spec => []FullInv
<1>1. Init => FullInv
  BY InitFull, Zenon
<1>2. FullInv /\ [Next]_vars => FullInv'
  BY FullStep, Zenon
<1>. QED
  BY <1>1, <1>2, PTL DEF Spec

\* What was sent, and the response in hand, are places of their own.
LEMMA SentPlaces ==
    ASSUME NEW C,
           C = HeldIn(inbox, sent, m_task_list, running, m_in_buf, s_response_pdu_list, m_resp)
    PROVE  /\ \A c \in Conns : C[<<"sent", c>>] = sent[c]
           /\ C[<<"resp", 0>>] = Cell(m_resp)
<1>1. /\ \A c \in Conns : C[<<"inbox", c>>] = inbox[c] /\ C[<<"sent", c>>] = sent[c]
      /\ \A w \in Workers : /\ C[<<"task", w>>] = PdusIn(m_task_list[w])
                            /\ C[<<"run", w>>] = Cell(running[w])
      /\ C[<<"buf", 0>>] = m_in_buf /\ C[<<"list", 0>>] = PdusIn(s_response_pdu_list)
      /\ C[<<"resp", 0>>] = Cell(m_resp)
  BY HeldAt, SMTT(40)
<1>. QED
  BY <1>1, Zenon

\* No request is answered twice.
LEMMA OneReply == ASSUME TypeOK, NoCopies PROVE AtMostOneReply
<1>. DEFINE held == HeldIn(inbox, sent, m_task_list, running, m_in_buf, s_response_pdu_list, m_resp)
<1>1. PICK C : C = held
  BY Zenon
<1>2. /\ Unique(C)
      /\ \A c \in Conns : C[<<"sent", c>>] = sent[c] /\ <<"sent", c>> \in Places
  <2>1. Unique(C)
    BY <1>1, Zenon DEF NoCopies
  <2>2. \A c \in Conns : C[<<"sent", c>>] = sent[c]
    <3>1. C = HeldIn(inbox, sent, m_task_list, running, m_in_buf, s_response_pdu_list, m_resp)
      BY <1>1, Zenon
    <3>. HIDE DEF held
    <3>. QED
      BY <3>1, SentPlaces, Zenon
  <2>. QED
    BY <2>1, <2>2, PlaceFacts, Zenon
<1>. HIDE DEF held
<1>. SUFFICES ASSUME NEW c \in Conns, NEW d \in Conns,
                     NEW i \in 1 .. Len(sent[c]), NEW j \in 1 .. Len(sent[d]),
                     sent[c][i] = sent[d][j]
              PROVE  c = d /\ i = j
  BY Zenon DEF AtMostOneReply
<1>3. sent[c][i] # NULL
  <2>1. sent[c] \in Seq(Pdus)
    BY Zenon DEF TypeOK
  <2>2. sent[c][i] \in Pdus
    BY <2>1
  <2>. QED
    BY <2>2 DEF Pdus
<1>4. <<"sent", c>> = <<"sent", d>> /\ i = j
  <2>1. PICK p \in Places : p = <<"sent", c>>
    BY <1>2, Zenon
  <2>2. PICK q \in Places : q = <<"sent", d>>
    BY <1>2, Zenon
  <2>3. C[p] = sent[c] /\ C[q] = sent[d]
    BY <1>2, <2>1, <2>2, Zenon
  <2>4. /\ i \in 1 .. Len(C[p]) /\ j \in 1 .. Len(C[q])
        /\ C[p][i] = C[q][j] /\ C[p][i] # NULL
    BY <1>3, <2>3, Zenon
  <2>5. p = q /\ i = j
    BY <1>2, <2>4, Zenon DEF Unique
  <2>. QED
    BY <2>1, <2>2, <2>5, Zenon
<1>. QED
  BY <1>4, Zenon

\* SendResponsePduList never answers a request twice, on one connection or on two.
THEOREM RepliesOnce == Spec => []AtMostOneReply
<1>1. FullInv => AtMostOneReply
  BY OneReply, Zenon DEF FullInv, Inv
<1>. QED
  BY <1>1, FullInvariance, PTL

\* A request that has a valid response is never dropped between the socket, the workers and
\* SendResponsePduList while its connection stays open.
THEOREM RequestsKept == Spec => []RequestNotLost
<1>1. FullInv => RequestNotLost
  BY Zenon DEF FullInv
<1>. QED
  BY <1>1, FullInvariance, PTL

-----------------------------------------------------------------------------
(* The server implements RequestReply as long as no uuid is drawn twice.     *)

\* A response goes to an open session that asked for it and has no answer yet.
LEMMA ReplyAllowed ==
    ASSUME FullInv, MaxConn < UuidMod, pc = "deliver",
           NEW c, c = g_uuid_conn_map[m_resp.uuid], c # NoConn,
           NEW r, r = m_resp.pdu, r # NULL
    PROVE  /\ r \in 1 .. Len(request) /\ r \in 1 .. MaxReq
           /\ request[r].kind = "request" /\ request[r].conn = c
           /\ c \in Conns /\ status[c] = "open"
           /\ ~ \E d \in Conns : \E i \in 1 .. Len(sent[d]) : sent[d][i] = r
<1>a. Inv /\ TypeOK /\ LoopInv /\ MapsMatchConns /\ FlightInv /\ UuidDistance
  BY Zenon DEF FullInv, Inv
<1>1. c \in Conns /\ c \in 1 .. accepted /\ m_uuid[c] = m_resp.uuid
  BY <1>a, ResponseConn, Zenon
<1>2. status[c] = "open"
  BY <1>a, Zenon DEF LoopInv, MapsMatchConns
<1>3. r \in 1 .. Len(request) /\ request[r].kind = "request"
  BY Zenon DEF FullInv, Kinded, IsResponse
<1>4. Len(request) \in Nat /\ Len(request) <= MaxReq /\ accepted \in Nat /\ accepted <= MaxConn
  BY <1>a, SMTT(40) DEF TypeOK
<1>5. request[r].conn = c
  <2>. PICK d : d = request[r].conn
    BY Zenon
  <2>1. d \in 1 .. accepted /\ m_uuid[d] = m_resp.uuid
    BY <1>a, Zenon DEF FlightInv, ResponseTagged, Tagged, Known, From
  <2>2. c < d => d - c >= UuidMod - 1
    BY <1>a, <1>1, <2>1, Zenon DEF UuidDistance
  <2>3. d < c => c - d >= UuidMod - 1
    BY <1>a, <1>1, <2>1, Zenon DEF UuidDistance
  <2>. QED
    BY <1>1, <1>4, <2>1, <2>2, <2>3, SMTT(40)
<1>6. ASSUME NEW d \in Conns, NEW i \in 1 .. Len(sent[d]), sent[d][i] = r PROVE FALSE
  <2>. DEFINE held == HeldIn(inbox, sent, m_task_list, running, m_in_buf, s_response_pdu_list, m_resp)
  <2>1. PICK C : C = held
    BY Zenon
  <2>2. Unique(C)
    BY <2>1, Zenon DEF FullInv, NoCopies
  <2>3. C = HeldIn(inbox, sent, m_task_list, running, m_in_buf, s_response_pdu_list, m_resp)
    BY <2>1, Zenon
  <2>. HIDE DEF held
  <2>4. C[<<"sent", d>>] = sent[d] /\ C[<<"resp", 0>>] = Cell(m_resp)
    BY <2>3, SentPlaces, Zenon
  <2>5. PICK p \in Places : p = <<"sent", d>>
    BY PlaceFacts, Zenon
  <2>6. PICK q \in Places : q = <<"resp", 0>>
    BY PlaceFacts, Zenon
  <2>7. Cell(m_resp) = <<r>>
    BY Zenon DEF Cell
  <2>8. /\ i \in 1 .. Len(C[p]) /\ 1 \in 1 .. Len(C[q])
        /\ C[p][i] = C[q][1] /\ C[p][i] # NULL
    BY <1>6, <2>4, <2>5, <2>6, <2>7
  <2>9. p = q
    BY <2>2, <2>8, Zenon DEF Unique
  <2>. QED
    BY <2>5, <2>6, <2>9
<1>. QED
  BY <1>1, <1>2, <1>3, <1>4, <1>5, <1>6, SMTT(40)

\* Each step of the server is a step of RequestReply, or changes nothing it speaks of.
LEMMA RequestReplyStep ==
    ASSUME FullInv, FullInv', MaxConn < UuidMod, [Next]_vars
    PROVE  RR!Next \/ UNCHANGED RR!vars
<1>. DEFINE before == [c \in Conns |-> IF life = "exited" /\ status[c] = "open"
                                       THEN "closed" ELSE status[c]]
            after == [c \in Conns |-> IF life' = "exited" /\ status'[c] = "open"
                                      THEN "closed" ELSE status'[c]]
<1>a. Inv /\ TypeOK /\ LoopInv /\ MapsMatchConns /\ ConnInv
  BY Zenon DEF FullInv, Inv
<1>b. /\ status \in [Conns -> {"new", "open", "closed"}]
      /\ status' \in [Conns -> {"new", "open", "closed"}]
  BY Zenon DEF FullInv, Inv, TypeOK
<1>c. life # "exited" => before = status
  BY <1>b, Zenon
<1>d. life' # "exited" => after = status'
  BY <1>b, Zenon
<1>. USE DEF vars, connVars, mapVars, kernVars, mainVars, poolVars
<1>0. CASE UNCHANGED vars
  BY <1>0, Zenon DEF RR!vars
<1>. SUFFICES ASSUME Next PROVE RR!Next \/ UNCHANGED RR!vars
  BY <1>0, Zenon
<1>e. before = status
  BY <1>c, Zenon DEF Next
<1>f. ASSUME UNCHANGED life PROVE after = status'
  BY <1>d, <1>f, Zenon DEF Next
<1>1. ASSUME UNCHANGED life, UNCHANGED status, UNCHANGED request, UNCHANGED sent
      PROVE  UNCHANGED RR!vars
  BY <1>1, Zenon DEF RR!vars
<1>2. ASSUME NEW S, Close(S), UNCHANGED life, UNCHANGED request, UNCHANGED sent,
             S \in SUBSET Conns, \A c \in S : status[c] = "open"
      PROVE  RR!Next
  <2>1. \A c \in S : before[c] = "open"
    BY <1>2, <1>e, Zenon
  <2>2. after = [c \in Conns |-> IF c \in S THEN "closed" ELSE before[c]]
    <3>1. after = [c \in Conns |-> IF c \in S THEN "closed" ELSE status[c]]
      BY <1>2, <1>f, Zenon DEF Close
    <3>. QED
      BY <1>e, <3>1, Zenon
  <2>3. RR!Close(S)
    BY <1>2, <2>1, <2>2, Zenon DEF RR!Close
  <2>. QED
    BY <1>2, <2>3, Zenon DEF RR!Next
<1>3. ASSUME NEW c \in Conns, NEW kind \in Kinds, PeerSend(c, kind) PROVE RR!Next
  <2>1. /\ UNCHANGED life /\ UNCHANGED status /\ UNCHANGED sent
        /\ status[c] = "open" /\ Len(request) < MaxReq
        /\ request' = Append(request, [conn |-> c, kind |-> kind])
    BY <1>3, Zenon DEF PeerSend
  <2>2. before[c] = "open" /\ after = before
    BY <1>e, <1>f, <2>1, Zenon
  <2>3. RR!Submit(c, kind)
    BY <2>1, <2>2, Zenon DEF RR!Submit
  <2>. QED
    BY <2>3, Zenon DEF RR!Next
<1>4. ASSUME NEW h \in Handles, OnConnect(h) PROVE RR!Next
  <2>. PICK c : c = accepted + 1
    BY Zenon
  <2>1. /\ UNCHANGED life /\ UNCHANGED request /\ UNCHANGED sent
        /\ status' = [status EXCEPT ![c] = "open"]
    BY <1>4, Zenon DEF OnConnect
  <2>2. c \in Conns /\ status[c] = "new"
    <3>1. accepted \in 0 .. MaxConn /\ accepted < MaxConn
      BY <1>a, <1>4, Zenon DEF OnConnect, TypeOK
    <3>2. c \in Conns /\ c > accepted
      BY <3>1, BoundsAssumption DEF Conns
    <3>. QED
      BY <1>a, <3>2, Zenon DEF ConnInv
  <2>3. before[c] = "new" /\ after = [before EXCEPT ![c] = "open"]
    BY <1>e, <1>f, <2>1, <2>2, Zenon
  <2>4. RR!Open(c)
    BY <2>1, <2>3, Zenon DEF RR!Open
  <2>. QED
    BY <2>2, <2>4, Zenon DEF RR!Next
<1>5. ASSUME NEW c, c # NoConn => c \in Conns /\ status[c] = "open",
             Close({c} \ {NoConn}), UNCHANGED life, UNCHANGED request, UNCHANGED sent
      PROVE  RR!Next
  <2>. DEFINE S == {c} \ {NoConn}
  <2>1. S \in SUBSET Conns /\ \A d \in S : status[d] = "open"
    BY <1>5, Zenon
  <2>2. Close(S)
    BY <1>5, Zenon
  <2>. HIDE DEF S
  <2>. QED
    BY <1>2, <1>5, <2>1, <2>2, Zenon
<1>g. \A h \in Handles : g_proxy_conn_map[h] # NoConn =>
         g_proxy_conn_map[h] \in Conns /\ status[g_proxy_conn_map[h]] = "open"
  BY <1>a, ProxyConn, Zenon
<1>6. ASSUME NEW h \in Handles, OnRead(h) PROVE RR!Next \/ UNCHANGED RR!vars
  <2>. PICK c : c = g_proxy_conn_map[h]
    BY Zenon
  <2>0. UNCHANGED life /\ UNCHANGED request /\ UNCHANGED sent
    BY <1>6, Zenon DEF OnRead
  <2>1. CASE c = NoConn \/ inbox[c] = <<>>
    <3>1. Close({c} \ {NoConn})
      BY <1>6, <2>1, Zenon DEF OnRead
    <3>. QED
      BY <1>5, <1>g, <2>0, <3>1, Zenon
  <2>2. CASE ~(c = NoConn \/ inbox[c] = <<>>)
    <3>1. UNCHANGED status
      BY <1>6, <2>2, Zenon DEF OnRead
    <3>. QED
      BY <1>1, <2>0, <3>1, Zenon
  <2>. QED
    BY <2>1, <2>2, Zenon
<1>7. ASSUME NEW h \in Handles, EndOfEvent(h) PROVE RR!Next
  <2>0. UNCHANGED life /\ UNCHANGED request /\ UNCHANGED sent
    BY <1>7, Zenon DEF EndOfEvent
  <2>1. CASE batch[h] = "in_hup"
    <3>1. Close({g_proxy_conn_map[h]} \ {NoConn})
      BY <1>7, <2>1, Zenon DEF EndOfEvent
    <3>. QED
      BY <1>5, <1>g, <2>0, <3>1, Zenon
  <2>2. CASE batch[h] # "in_hup"
    <3>1. Close({})
      BY <1>7, <2>2, Zenon DEF EndOfEvent
    <3>. QED
      BY <1>2, <2>0, <3>1, Zenon
  <2>. QED
    BY <2>1, <2>2, Zenon
<1>8. ASSUME NEW w \in Workers, HandlePduBuf(w) PROVE RR!Next \/ UNCHANGED RR!vars
  <2>0. UNCHANGED life /\ UNCHANGED request /\ UNCHANGED sent
    BY <1>8, Zenon DEF HandlePduBuf
  <2>1. CASE request[Head(m_in_buf)].kind = "malformed"
    <3>1. Close({reading})
      BY <1>8, <2>1, Zenon DEF HandlePduBuf
    <3>2. status[reading] = "open" /\ reading \in Conns
      BY <1>a, <1>8, SMTT(40) DEF HandlePduBuf, LoopInv, TypeOK, Conns
    <3>3. PICK S : S = {reading}
      BY Zenon
    <3>4. Close(S) /\ S \in SUBSET Conns /\ \A c \in S : status[c] = "open"
      BY <3>1, <3>2, <3>3, Zenon
    <3>. QED
      BY <1>2, <2>0, <3>4, Zenon
  <2>2. CASE request[Head(m_in_buf)].kind # "malformed"
    <3>1. UNCHANGED status
      <4>1. CASE request[Head(m_in_buf)].kind = "ignored"
        BY <1>8, <4>1, Zenon DEF HandlePduBuf
      <4>2. CASE request[Head(m_in_buf)].kind # "ignored"
        BY <1>8, <2>2, <4>2, Zenon DEF HandlePduBuf
      <4>. QED
        BY <4>1, <4>2, Zenon
    <3>. QED
      BY <1>1, <2>0, <3>1, Zenon
  <2>. QED
    BY <2>1, <2>2, Zenon
<1>9. ASSUME ProxyTimer PROVE RR!Next
  <2>0. UNCHANGED life /\ UNCHANGED request /\ UNCHANGED sent
    BY <1>9, Zenon DEF ProxyTimer
  <2>. DEFINE S == {g_proxy_conn_map[h] : h \in {g \in Handles :
                      /\ g_proxy_conn_map[g] # NoConn
                      /\ quiet[g_proxy_conn_map[g]]}}
  <2>1. Close(S)
    BY <1>9, Zenon DEF ProxyTimer
  <2>2. \A d \in S : d \in Conns /\ status[d] = "open"
    BY <1>g, Zenon
  <2>. HIDE DEF S
  <2>. QED
    BY <1>2, <2>0, <2>1, <2>2, Zenon
<1>10. ASSUME DeliverResponse PROVE RR!Next
  <2>0. UNCHANGED life /\ UNCHANGED request /\ pc = "deliver"
    BY <1>10, Zenon DEF DeliverResponse
  <2>. PICK c : c = g_uuid_conn_map[m_resp.uuid]
    BY Zenon
  <2>. PICK r : r = m_resp.pdu
    BY Zenon
  <2>1. CASE c # NoConn /\ r # NULL
    <3>1. sent' = [sent EXCEPT ![c] = Append(@, r)] /\ UNCHANGED status
      BY <1>10, <2>1, Zenon DEF DeliverResponse
    <3>2. /\ r \in 1 .. Len(request) /\ r \in 1 .. MaxReq
          /\ request[r].kind = "request" /\ request[r].conn = c
          /\ c \in Conns /\ status[c] = "open"
          /\ ~ \E d \in Conns : \E i \in 1 .. Len(sent[d]) : sent[d][i] = r
      BY <2>0, <2>1, ReplyAllowed, Zenon
    <3>3. before[c] = "open" /\ after = before
      BY <1>e, <1>f, <2>0, <3>1, <3>2, Zenon
    <3>4. RR!Reply(r)
      BY <2>0, <3>1, <3>2, <3>3, Zenon DEF RR!Reply, RR!Answered
    <3>. QED
      BY <3>2, <3>4, Zenon DEF RR!Next
  <2>2. CASE ~(c # NoConn /\ r # NULL)
    <3>1. Close({c} \ {NoConn}) /\ UNCHANGED sent
      BY <1>10, <2>2, Zenon DEF DeliverResponse
    <3>2. c # NoConn => c \in Conns /\ status[c] = "open"
      <4>1. m_resp.uuid \in Uuids
        BY <1>a, <2>0, Zenon DEF LoopInv
      <4>2. c \in Conns \cup {NoConn}
        BY <1>a, <2>0, <4>1, Zenon DEF TypeOK
      <4>. QED
        BY <1>a, <2>0, <4>1, <4>2, Zenon DEF MapsMatchConns
    <3>. QED
      BY <1>5, <2>0, <3>1, <3>2, Zenon
  <2>. QED
    BY <2>1, <2>2, Zenon
<1>11. ASSUME ExitCallback PROVE RR!Next
  <2>1. UNCHANGED status /\ life' = "exited" /\ UNCHANGED request /\ UNCHANGED sent
    BY <1>11, Zenon DEF ExitCallback
  <2>2. PICK S \in SUBSET Conns : \A c \in Conns : c \in S <=> status[c] = "open"
    <3>. DEFINE T == {c \in Conns : status[c] = "open"}
    <3>1. T \in SUBSET Conns /\ \A c \in Conns : c \in T <=> status[c] = "open"
      BY Zenon
    <3>. HIDE DEF T
    <3>. QED
      BY <3>1, Zenon
  <2>3. after = [c \in Conns |-> IF c \in S THEN "closed" ELSE before[c]]
    <3>1. after = [c \in Conns |-> IF c \in S THEN "closed" ELSE status[c]]
      BY <2>1, <2>2, Zenon
    <3>. QED
      BY <1>e, <3>1, Zenon
  <2>4. \A c \in S : before[c] = "open"
    BY <1>e, <2>2, Zenon
  <2>5. RR!Close(S)
    BY <2>1, <2>3, <2>4, Zenon DEF RR!Close
  <2>. QED
    BY <2>5, Zenon DEF RR!Next
<1>12. ASSUME SigHandler PROVE UNCHANGED RR!vars
  <2>1. life' # "exited" /\ UNCHANGED status /\ UNCHANGED request /\ UNCHANGED sent
    BY <1>12, Zenon DEF SigHandler
  <2>2. after = before
    BY <1>d, <1>e, <2>1, Zenon
  <2>. QED
    BY <2>1, <2>2, Zenon DEF RR!vars
<1>13. ASSUME \/ EpollWait \/ PopResponse \/ EndOfLoop \/ \E w \in Workers : Worker(w)
              \/ \E c \in Conns : Elapse(c) \/ \E how \in {"fin", "reset"} : PeerGone(c, how)
       PROVE  UNCHANGED RR!vars
  <2>1. UNCHANGED life /\ UNCHANGED status /\ UNCHANGED request /\ UNCHANGED sent
    BY <1>13, Zenon DEF EpollWait, PopResponse, EndOfLoop, Worker, PopTask, Run, Elapse, PeerGone
  <2>. QED
    BY <1>1, <2>1, Zenon
<1>. HIDE DEF before, after
<1>. QED
  BY <1>3, <1>4, <1>6, <1>7, <1>8, <1>9, <1>10, <1>11, <1>12, <1>13, Zenon DEF Next, Environment, EventLoop

\* With fewer connections than uuids (2^32 - 1) the server implements the safety part
\* of RequestReply: it answers a request at most once, to the session that made it,
\* while that session is open.
THEOREM ServerImplementsRequestReply == MaxConn < UuidMod => (Spec => RR!Safety)
<1>. SUFFICES ASSUME MaxConn < UuidMod PROVE Spec => RR!Safety
  BY Zenon
<1>1. Init => RR!Init
  BY Zenon DEF Init, RR!Init
<1>2. FullInv /\ FullInv' /\ [Next]_vars => [RR!Next]_RR!vars
  BY RequestReplyStep, Zenon
<1>. QED
  BY <1>1, <1>2, FullInvariance, PTL DEF Spec, RR!Safety
=============================================================================
