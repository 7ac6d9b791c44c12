---------------------------- MODULE ImConnProofs ----------------------------
(***************************************************************************)
(* Proofs about ImConn, for any header length, any lengths of PDUs, any    *)
(* size of the socket's buffer and any number of PDUs.                     *)
(*                                                                         *)
(* The bytes that were sent and not handled lie in four places.  Taken     *)
(* together, in order, they are the PDUs after the last one handled, one   *)
(* after the other (Framed): every step moves bytes from one place to the  *)
(* next, adds a PDU at the end or takes one from the front.                *)
(***************************************************************************)
EXTENDS ImConn, TLAPS

Byte == Nat \X Nat

Buffers ==
    /\ length \in Seq(Lengths)
    /\ data \in Seq(Byte) /\ m_out_buf \in Seq(Byte)
    /\ socket \in Seq(Byte) /\ m_in_buf \in Seq(Byte)
    /\ handled \in Seq(Seq(Byte))

Received == m_in_buf \o socket
Unsent == m_out_buf \o data
Stream == Received \o Unsent

\* The M bytes s are the PDUs f to N of the given lengths: PDU n begins after
\* start[n] bytes, and the last one ends with s.
LaidOut(s, M, f, N, len, start) ==
    /\ start \in [f .. N + 1 -> Nat]
    /\ start[f] = 0 /\ start[N + 1] = M
    /\ \A n \in f .. N : start[n + 1] = start[n] + len[n]
    /\ \A n \in f .. N, m \in f .. N + 1 : n < m => start[n] + len[n] <= start[m]
    /\ \A n \in f .. N : \A k \in 1 .. len[n] : s[start[n] + k] = <<n, k>>

Laid(s, f, len) == \E start : LaidOut(s, Len(s), f, Len(len), len, start)

\* The bytes q are the M bytes s and then PDU n, of L bytes; the lengths l of the
\* PDUs f to N + 1 are those in len and then L.
Longer(q, s, M, n, L) ==
    /\ \A i \in 1 .. M : q[i] = s[i]
    /\ \A i \in 1 .. L : q[M + i] = <<n, i>>
OneMore(l, len, f, N, L) ==
    /\ \A n \in f .. N : len[n] \in Nat /\ l[n] = len[n]
    /\ l[N + 1] = L

\* A PDU as a sequence of bytes, and what concatenation does.
IsPdu(p, m, L) == p \in Seq(Byte) /\ Len(p) = L /\ \A i \in 1 .. L : p[i] = <<m, i>>
Joined(s, p) ==
    /\ Len(s \o p) = Len(s) + Len(p)
    /\ \A i \in 1 .. Len(s) : (s \o p)[i] = s[i]
    /\ \A i \in 1 .. Len(p) : (s \o p)[Len(s) + i] = p[i]
Regrouped(a, b, c) == (a \o b) \o c = a \o (b \o c)

Framed ==
    /\ Len(handled) <= Len(length)
    /\ \A n \in 1 .. Len(handled) : handled[n] = Bytes(n)
    /\ Laid(Stream, Len(handled) + 1, length)

Inv == Buffers /\ TypeOK /\ NoLostEdge /\ NoUnreadPdu /\ Framed

-----------------------------------------------------------------------------
\* Cutting a sequence in two and putting the parts together again.
LEMMA Cut ==
    ASSUME NEW S, NEW q \in Seq(S), NEW k \in 1 .. Len(q)
    PROVE  /\ SubSeq(q, 1, k) \in Seq(S) /\ Len(SubSeq(q, 1, k)) = k
           /\ Drop(q, k) \in Seq(S) /\ Len(Drop(q, k)) = Len(q) - k
           /\ \A i \in 1 .. k : SubSeq(q, 1, k)[i] = q[i]
           /\ \A i \in 1 .. Len(q) - k : Drop(q, k)[i] = q[k + i]
           /\ SubSeq(q, 1, k) \o Drop(q, k) = q
  BY DEF Drop

\* Concatenation is associative.
LEMMA ConcatAssoc ==
    ASSUME NEW S, NEW a \in Seq(S), NEW b \in Seq(S), NEW c \in Seq(S)
    PROVE  Regrouped(a, b, c)
  BY SMTT(40) DEF Regrouped

\* What the elements of a concatenation are.
LEMMA ConcatAt ==
    ASSUME NEW S, NEW a \in Seq(S), NEW b \in Seq(S)
    PROVE  /\ a \o b \in Seq(S) /\ Len(a \o b) = Len(a) + Len(b)
           /\ \A i \in 1 .. Len(a) : (a \o b)[i] = a[i]
           /\ \A i \in 1 .. Len(b) : (a \o b)[Len(a) + i] = b[i]
  OBVIOUS

\* The length of a PDU is a number and covers the header.
LEMMA LengthsAreNat ==
    /\ \A n \in Lengths : n \in Nat /\ n >= IM_PDU_HEADER_LEN /\ n >= 1
    /\ \A len \in Seq(Lengths) : \A i \in 1 .. Len(len) :
          len[i] \in Lengths /\ len[i] \in Nat
<1>1. \A n \in Lengths : n \in Nat /\ n >= IM_PDU_HEADER_LEN /\ n >= 1
  BY SizesAssumption
<1>2. \A len \in Seq(Lengths) : \A i \in 1 .. Len(len) : len[i] \in Lengths
  OBVIOUS
<1>. QED
  BY <1>1, <1>2, Zenon

\* The bytes of a PDU of n bytes with number m.
LEMMA PduBytes ==
    ASSUME NEW m \in Nat, NEW n \in Nat
    PROVE  /\ [k \in 1 .. n |-> <<m, k>>] \in Seq(Byte)
           /\ Len([k \in 1 .. n |-> <<m, k>>]) = n
  BY DEF Byte

-----------------------------------------------------------------------------
\* Without its first PDU a stream begins with the next one.
LEMMA LaidOutDrop ==
    ASSUME NEW s, NEW q, NEW M \in Nat, NEW f \in Nat, NEW N \in Nat, NEW L \in Nat,
           NEW len, NEW start, f <= N, \A n \in f .. N : len[n] \in Nat,
           L = len[f], LaidOut(s, M, f, N, len, start),
           \A i \in 1 .. M - L : q[i] = s[L + i]
    PROVE  \E st : LaidOut(q, M - L, f + 1, N, len, st)
<1>1. /\ start \in [f .. N + 1 -> Nat] /\ start[f] = 0 /\ start[N + 1] = M
      /\ \A n \in f .. N : start[n + 1] = start[n] + len[n]
      /\ \A n \in f .. N, m \in f .. N + 1 : n < m => start[n] + len[n] <= start[m]
      /\ \A n \in f .. N : \A k \in 1 .. len[n] : s[start[n] + k] = <<n, k>>
  BY Zenon DEF LaidOut
<1>2. ASSUME NEW m \in f + 1 .. N + 1 PROVE start[m] \in Nat /\ start[m] >= L
  <2>1. f \in f .. N /\ m \in f .. N + 1 /\ f < m
    OBVIOUS
  <2>2. start[f] + len[f] <= start[m] /\ start[m] \in Nat
    BY <2>1, <1>1, Zenon
  <2>. QED
    BY <2>2, <1>1
<1>3. PICK st : st = [n \in f + 1 .. N + 1 |-> start[n] - L]
  BY Zenon
<1>4. st \in [f + 1 .. N + 1 -> Nat]
  BY <1>2, <1>3
<1>5. st[f + 1] = 0 /\ st[N + 1] = M - L
  BY <1>1, <1>3
<1>a. ASSUME NEW n \in f + 1 .. N + 1
      PROVE  st[n] = start[n] - L /\ start[n] \in Nat /\ start[n] >= L
  BY <1>2, <1>3, Zenon
<1>6. ASSUME NEW n \in f + 1 .. N PROVE st[n + 1] = st[n] + len[n]
  <2>1. n \in f .. N /\ n \in f + 1 .. N + 1 /\ n + 1 \in f + 1 .. N + 1
    OBVIOUS
  <2>2. start[n + 1] = start[n] + len[n] /\ len[n] \in Nat
    BY <2>1, <1>1, Zenon
  <2>. QED
    BY <2>1, <2>2, <1>a
<1>7. ASSUME NEW n \in f + 1 .. N, NEW m \in f + 1 .. N + 1, n < m
      PROVE  st[n] + len[n] <= st[m]
  <2>1. n \in f .. N /\ n \in f + 1 .. N + 1 /\ m \in f .. N + 1
    OBVIOUS
  <2>2. start[n] + len[n] <= start[m] /\ len[n] \in Nat
    BY <2>1, <1>1, <1>7, Zenon
  <2>. QED
    BY <2>1, <2>2, <1>a
<1>8. ASSUME NEW n \in f + 1 .. N, NEW k \in 1 .. len[n]
      PROVE  q[st[n] + k] = <<n, k>>
  <2>1. n \in f .. N /\ n \in f + 1 .. N + 1 /\ N + 1 \in f .. N + 1 /\ n < N + 1
    OBVIOUS
  <2>2. start[n] + len[n] <= M /\ len[n] \in Nat
    BY <2>1, <1>1, Zenon
  <2>3. st[n] = start[n] - L /\ start[n] \in Nat /\ start[n] >= L
    BY <2>1, <1>a, Zenon
  <2>4. PICK a \in Nat : a = start[n] - L
    BY <2>3
  <2>5. a + k \in 1 .. M - L /\ L + (a + k) = start[n] + k
    BY <2>2, <2>3, <2>4
  <2>6. s[start[n] + k] = <<n, k>>
    BY <2>1, <1>1, Zenon
  <2>. QED
    BY <2>3, <2>4, <2>5, <2>6, Zenon
<1>9. LaidOut(q, M - L, f + 1, N, len, st)
  BY <1>4, <1>5, <1>6, <1>7, <1>8, Zenon DEF LaidOut
<1>. QED
  BY <1>9, Zenon

\* A PDU more at the end of a stream.
LEMMA LaidOutAppend ==
    ASSUME NEW s, NEW q, NEW M \in Nat, NEW f \in Nat, NEW N \in Nat, NEW L \in Nat,
           NEW len, NEW l, NEW start, f <= N + 1, LaidOut(s, M, f, N, len, start),
           OneMore(l, len, f, N, L), Longer(q, s, M, N + 1, L)
    PROVE  \E st : LaidOut(q, M + L, f, N + 1, l, st)
<1>1. /\ start \in [f .. N + 1 -> Nat] /\ start[f] = 0 /\ start[N + 1] = M
      /\ \A n \in f .. N : start[n + 1] = start[n] + len[n]
      /\ \A n \in f .. N, m \in f .. N + 1 : n < m => start[n] + len[n] <= start[m]
      /\ \A n \in f .. N : \A k \in 1 .. len[n] : s[start[n] + k] = <<n, k>>
  BY Zenon DEF LaidOut
<1>0. /\ \A n \in f .. N : len[n] \in Nat /\ l[n] = len[n]
      /\ l[N + 1] = L
  BY Zenon DEF OneMore
<1>b. /\ \A i \in 1 .. M : q[i] = s[i]
      /\ \A i \in 1 .. L : q[M + i] = <<N + 1, i>>
  BY Zenon DEF Longer
<1>2. PICK st : st = [n \in f .. N + 2 |-> IF n = N + 2 THEN M + L ELSE start[n]]
  BY Zenon
<1>3. st \in [f .. N + 2 -> Nat] /\ st[N + 2] = M + L /\ st[N + 1] = M /\ st[f] = 0
  BY <1>1, <1>2
<1>4. ASSUME NEW n \in f .. N PROVE st[n] = start[n] /\ start[n] + len[n] <= M
  BY <1>0, <1>1, <1>2
<1>5. ASSUME NEW n \in f .. N + 1 PROVE st[n + 1] = st[n] + l[n]
  BY <1>0, <1>1, <1>2, <1>3
<1>6. ASSUME NEW n \in f .. N + 1, NEW m \in f .. N + 2, n < m
      PROVE  st[n] + l[n] <= st[m]
  <2>1. CASE m = N + 2
    <3>1. CASE n = N + 1
      BY <2>1, <3>1, <1>0, <1>3
    <3>2. CASE n # N + 1
      <4>1. n \in f .. N
        BY <3>2
      <4>2. st[n] = start[n] /\ start[n] + len[n] <= M /\ start[n] \in Nat
        BY <4>1, <1>1, <1>4, Zenon
      <4>. QED
        BY <4>1, <4>2, <2>1, <1>0, <1>3
    <3>. QED
      BY <3>1, <3>2, Zenon
  <2>2. CASE m # N + 2
    <3>1. n \in f .. N /\ m \in f .. N + 1
      BY <2>2, <1>6
    <3>2. st[n] = start[n] /\ st[m] = start[m]
      BY <3>1, <1>2
    <3>3. start[n] + len[n] <= start[m]
      BY <3>1, <1>1, <1>6, Zenon
    <3>. QED
      BY <3>1, <3>2, <3>3, <1>0, Zenon
  <2>. QED
    BY <2>1, <2>2, Zenon
<1>7. ASSUME NEW n \in f .. N + 1, NEW k \in 1 .. l[n]
      PROVE  q[st[n] + k] = <<n, k>>
  <2>1. CASE n = N + 1
    BY <2>1, <1>0, <1>b, <1>3, Zenon
  <2>2. CASE n # N + 1
    <3>1. n \in f .. N /\ k \in 1 .. len[n]
      BY <2>2, <1>0
    <3>2. start[n] + k \in 1 .. M
      <4>1. start[n] \in Nat /\ len[n] \in Nat /\ start[n] + len[n] <= M
        BY <3>1, <1>0, <1>1, <1>4
      <4>. QED
        BY <3>1, <4>1
    <3>3. s[start[n] + k] = <<n, k>>
      BY <3>1, <1>1, Zenon
    <3>. QED
      BY <3>1, <3>2, <3>3, <1>b, <1>4, Zenon
  <2>. QED
    BY <2>1, <2>2, Zenon
<1>8. (N + 1) + 1 = N + 2
  OBVIOUS
<1>9. LaidOut(q, M + L, f, N + 1, l, st)
  BY <1>3, <1>5, <1>6, <1>7, <1>8, Zenon DEF LaidOut
<1>. QED
  BY <1>9, Zenon

\* What a stream that is not empty begins with.
LEMMA LaidOutHead ==
    ASSUME NEW s, NEW M \in Nat \ {0}, NEW f \in Nat, NEW N \in Nat,
           NEW len, NEW start, f <= N + 1, \A n \in f .. N : len[n] \in Nat,
           LaidOut(s, M, f, N, len, start)
    PROVE  f <= N /\ len[f] <= M /\ \A k \in 1 .. len[f] : s[k] = <<f, k>>
<1>1. f <= N
  BY DEF LaidOut
<1>2. f \in f .. N /\ N + 1 \in f .. N + 1 /\ len[f] \in Nat
  BY <1>1
<1>3. 0 + len[f] <= M
  BY <1>2 DEF LaidOut
<1>4. \A k \in 1 .. len[f] : s[0 + k] = <<f, k>>
  BY <1>2, Zenon DEF LaidOut
<1>. QED
  BY <1>1, <1>2, <1>3, <1>4

\* The same for sequences of bytes: what the first PDU of a stream is, what is
\* left without it, and what a PDU more makes of it.
LEMMA LaidHead ==
    ASSUME NEW s \in Seq(Byte), s # << >>, NEW f \in Nat \ {0}, NEW len \in Seq(Lengths),
           f <= Len(len) + 1, Laid(s, f, len)
    PROVE  f <= Len(len) /\ len[f] <= Len(s) /\ \A k \in 1 .. len[f] : s[k] = <<f, k>>
<1>1. PICK start : LaidOut(s, Len(s), f, Len(len), len, start)
  BY Zenon DEF Laid
<1>2. Len(s) \in Nat \ {0} /\ Len(len) \in Nat
  OBVIOUS
<1>3. \A n \in f .. Len(len) : len[n] \in Nat
  BY LengthsAreNat
<1>. QED
  BY <1>1, <1>2, <1>3, LaidOutHead, SMTT(40)

\* Dropping the first PDU of a buffer leaves the ones behind it laid out.
LEMMA LaidDrop ==
    ASSUME NEW s \in Seq(Byte), NEW f \in Nat \ {0}, NEW len \in Seq(Lengths),
           f <= Len(len), NEW L, L = len[f], L \in 1 .. Len(s), Laid(s, f, len)
    PROVE  Laid(Drop(s, L), f + 1, len)
<1>1. PICK start : LaidOut(s, Len(s), f, Len(len), len, start)
  BY Zenon DEF Laid
<1>2. Len(s) \in Nat /\ Len(len) \in Nat /\ L \in Nat
  OBVIOUS
<1>3. \A n \in f .. Len(len) : len[n] \in Nat
  BY LengthsAreNat
<1>4. PICK q : q = Drop(s, L)
  BY Zenon
<1>5. Len(q) = Len(s) - L /\ \A i \in 1 .. Len(s) - L : q[i] = s[L + i]
  BY <1>4, Cut
<1>6. \E st : LaidOut(q, Len(s) - L, f + 1, Len(len), len, st)
  BY <1>1, <1>2, <1>3, <1>5, LaidOutDrop, ZenonT(80)
<1>. QED
  BY <1>4, <1>5, <1>6, Zenon DEF Laid

\* A PDU written behind the last one leaves all of them laid out.
LEMMA LaidAppend ==
    ASSUME NEW s \in Seq(Byte), NEW f \in Nat \ {0}, NEW len \in Seq(Lengths),
           f <= Len(len) + 1, Laid(s, f, len), NEW L \in Lengths,
           NEW q, Len(q) = Len(s) + L, Longer(q, s, Len(s), Len(len) + 1, L)
    PROVE  Laid(q, f, Append(len, L))
<1>1. PICK start : LaidOut(s, Len(s), f, Len(len), len, start)
  BY Zenon DEF Laid
<1>2. Len(s) \in Nat /\ Len(len) \in Nat /\ L \in Nat /\ f \in Nat
  BY LengthsAreNat
<1>3. PICK l : l = Append(len, L)
  BY Zenon
<1>4. l[Len(len) + 1] = L /\ Len(l) = Len(len) + 1
  BY <1>3
<1>5. OneMore(l, len, f, Len(len), L)
  BY <1>3, <1>4, LengthsAreNat DEF OneMore
<1>6. \E st : LaidOut(q, Len(s) + L, f, Len(len) + 1, l, st)
  BY <1>1, <1>2, <1>4, <1>5, LaidOutAppend, Zenon
<1>. QED
  BY <1>3, <1>4, <1>6, Zenon DEF Laid

-----------------------------------------------------------------------------
\* Moving the front of one sequence to the end of the one before it, and taking
\* the front of a concatenation.
LEMMA Moved ==
    ASSUME NEW S, NEW a \in Seq(S), NEW b \in Seq(S), NEW k \in 1 .. Len(b)
    PROVE  (a \o SubSeq(b, 1, k)) \o Drop(b, k) = a \o b
<1>a. /\ SubSeq(b, 1, k) \in Seq(S) /\ Drop(b, k) \in Seq(S)
      /\ SubSeq(b, 1, k) \o Drop(b, k) = b
  BY Cut, Zenon
<1>2. PICK x \in Seq(S), y \in Seq(S) : x = SubSeq(b, 1, k) /\ y = Drop(b, k) /\ x \o y = b
  BY <1>a, Zenon
<1>3. (a \o x) \o y = a \o (x \o y)
  OBVIOUS
<1>. QED
  BY <1>2, <1>3, Zenon

\* Dropping from the first part of a concatenation leaves the second alone.
LEMMA DropFront ==
    ASSUME NEW S, NEW a \in Seq(S), NEW b \in Seq(S), NEW k \in 1 .. Len(a)
    PROVE  Drop(a \o b, k) = Drop(a, k) \o b
<1>a. /\ SubSeq(a, 1, k) \in Seq(S) /\ Len(SubSeq(a, 1, k)) = k /\ Drop(a, k) \in Seq(S)
      /\ SubSeq(a, 1, k) \o Drop(a, k) = a
  BY Cut, Zenon
<1>1. PICK x \in Seq(S), y \in Seq(S) :
         x = SubSeq(a, 1, k) /\ Len(x) = k /\ y = Drop(a, k) /\ x \o y = a
  BY <1>a, Zenon
<1>2. a \o b = x \o (y \o b)
  <2>1. Regrouped(x, y, b)
    BY ConcatAssoc, Zenon
  <2>. QED
    BY <2>1, <1>1, Zenon DEF Regrouped
<1>b. y \o b \in Seq(S)
  OBVIOUS
<1>3. PICK z \in Seq(S) : z = y \o b
  BY <1>b, Zenon
<1>4. Drop(x \o z, k) = z
  <2>1. ASSUME NEW n \in Nat, n = Len(x)
        PROVE  SubSeq(x \o z, n + 1, Len(x \o z)) = z
    BY <2>1
  <2>. QED
    BY <2>1, <1>1 DEF Drop
<1>. QED
  BY <1>1, <1>2, <1>3, <1>4, Zenon

\* The stream is a sequence of bytes that begins with what was received; what is
\* waiting at the writer is in one place.
LEMMA StreamParts ==
    ASSUME Inv
    PROVE  /\ Received \in Seq(Byte) /\ Unsent \in Seq(Byte) /\ Stream \in Seq(Byte)
           /\ Len(Stream) >= Len(m_in_buf)
           /\ \A i \in 1 .. Len(m_in_buf) : Stream[i] = m_in_buf[i]
           /\ pc = "Send" => m_out_buf = << >>
           /\ pc # "Send" => data = << >>
<1>1. Buffers
  BY Zenon DEF Inv
<1>2. /\ Received \in Seq(Byte) /\ Len(Received) = Len(m_in_buf) + Len(socket)
      /\ \A i \in 1 .. Len(m_in_buf) : Received[i] = m_in_buf[i]
  <2>1. m_in_buf \in Seq(Byte) /\ socket \in Seq(Byte)
    BY <1>1, Zenon DEF Buffers
  <2>2. /\ m_in_buf \o socket \in Seq(Byte)
        /\ Len(m_in_buf \o socket) = Len(m_in_buf) + Len(socket)
        /\ \A i \in 1 .. Len(m_in_buf) : (m_in_buf \o socket)[i] = m_in_buf[i]
    BY <2>1, ConcatAt, Zenon
  <2>. QED
    BY <2>2, Zenon DEF Received
<1>3. Unsent \in Seq(Byte)
  BY <1>1, ConcatAt, Zenon DEF Buffers, Unsent
<1>4. /\ Stream \in Seq(Byte) /\ Len(Stream) = Len(Received) + Len(Unsent)
      /\ \A i \in 1 .. Len(Received) : Stream[i] = Received[i]
  <2>1. /\ Received \o Unsent \in Seq(Byte)
        /\ Len(Received \o Unsent) = Len(Received) + Len(Unsent)
        /\ \A i \in 1 .. Len(Received) : (Received \o Unsent)[i] = Received[i]
    BY <1>2, <1>3, ConcatAt, Zenon
  <2>. QED
    BY <2>1, Zenon DEF Stream
<1>5. Len(m_in_buf) \in Nat /\ Len(socket) \in Nat /\ Len(Unsent) \in Nat
  BY <1>1, <1>3 DEF Buffers
<1>6. /\ pc = "Send" => m_out_buf = << >>
      /\ pc # "Send" => data = << >>
  BY Zenon DEF Inv, TypeOK, NoLostEdge
<1>7. \A a, b, c \in Nat : a + b + c >= a /\ 1 .. a \subseteq 1 .. a + b
  OBVIOUS
<1>8. Len(Stream) >= Len(m_in_buf) /\ 1 .. Len(m_in_buf) \subseteq 1 .. Len(Received)
  BY <1>2, <1>4, <1>5, <1>7, Zenon
<1>. QED
  BY <1>2, <1>3, <1>4, <1>6, <1>8, Zenon

\* The buffer begins with the first byte of the PDU after the last one handled, so
\* that the length read from its header is that of this PDU.
LEMMA BufferHead ==
    ASSUME Inv, m_in_buf # << >>
    PROVE  /\ Len(handled) + 1 \in 1 .. Len(length)
           /\ length[Len(handled) + 1] \in Nat \ {0}
           /\ length[Len(handled) + 1] <= Len(Stream)
           /\ m_in_buf[1][1] = Len(handled) + 1
           /\ PduLength = length[Len(handled) + 1]
           /\ \A k \in 1 .. length[Len(handled) + 1] : Stream[k] = <<Len(handled) + 1, k>>
<1>1. PICK f \in Nat \ {0} : f = Len(handled) + 1
  BY DEF Inv, Buffers
<1>2. /\ Stream \in Seq(Byte) /\ Stream # << >> /\ length \in Seq(Lengths)
      /\ Stream[1] = m_in_buf[1]
  <2>1. m_in_buf \in Seq(Byte) /\ length \in Seq(Lengths)
    BY Zenon DEF Inv, Buffers
  <2>2. Len(m_in_buf) \in Nat /\ Len(m_in_buf) >= 1
    BY <2>1
  <2>3. Stream \in Seq(Byte) /\ Len(Stream) >= Len(m_in_buf) /\ Stream[1] = m_in_buf[1]
    BY <2>2, StreamParts
  <2>. QED
    BY <2>1, <2>2, <2>3
<1>3. f <= Len(length) + 1 /\ Laid(Stream, f, length)
  BY <1>1 DEF Inv, Framed, Buffers
<1>4. /\ f <= Len(length) /\ length[f] <= Len(Stream)
      /\ \A k \in 1 .. length[f] : Stream[k] = <<f, k>>
  BY <1>2, <1>3, LaidHead, Zenon
<1>5. f \in 1 .. Len(length) /\ length[f] \in Nat /\ length[f] >= 1
  BY <1>2, <1>4, LengthsAreNat
<1>6. m_in_buf[1] = <<f, 1>>
  BY <1>2, <1>4, <1>5
<1>7. m_in_buf[1][1] = f /\ PduLength = length[f]
  BY <1>6 DEF PduLength
<1>. QED
  BY <1>1, <1>4, <1>5, <1>7

\* At the start.
LEMMA InitInv == Init => Inv
<1>. SUFFICES ASSUME Init PROVE Inv
  BY Zenon
<1>1. Buffers
  BY DEF Init, Buffers
<1>2. TypeOK
  <2>1. {m_busy, nospace, epollout, epollin} \subseteq BOOLEAN
    BY Zenon DEF Init
  <2>. QED
    BY <2>1, SizesAssumption DEF Init, TypeOK
<1>3. NoLostEdge
  BY Zenon DEF Init, NoLostEdge
<1>4. NoUnreadPdu
  BY SizesAssumption DEF Init, NoUnreadPdu, IsPduAvailable
<1>5. Framed
  <2>1. Stream = << >> /\ Len(handled) = 0 /\ Len(length) = 0 /\ Len(Stream) = 0
    BY DEF Init, Stream, Received, Unsent
  <2>2. PICK start : start = [n \in 1 .. 1 |-> 0]
    BY Zenon
  <2>3. LaidOut(<< >>, 0, 1, 0, << >>, start)
    BY <2>2 DEF LaidOut
  <2>4. Laid(<< >>, 1, << >>)
    BY <2>3, Zenon DEF Laid
  <2>. QED
    BY <2>1, <2>4 DEF Framed, Init
<1>. QED
  BY <1>1, <1>2, <1>3, <1>4, <1>5, Zenon DEF Inv

-----------------------------------------------------------------------------
(* The steps.  First the buffers stay sequences of bytes.                    *)

\* Send, Transfer, OnRead and OnWrite keep the buffers sequences of bytes.
LEMMA BuffersStep ==
    ASSUME Inv, [Next]_vars
    PROVE  Buffers'
<1>0. Buffers
  BY Zenon DEF Inv
<1>1. ASSUME NEW n \in Lengths, Send(n) PROVE Buffers'
  <2>1. PICK p \in Seq(Byte) : p = [k \in 1 .. n |-> <<Len(length) + 1, k>>]
    <3>1. PICK m \in Nat : m = Len(length) + 1
      BY <1>0 DEF Buffers
    <3>2. n \in Nat
      BY LengthsAreNat, Zenon
    <3>3. [k \in 1 .. n |-> <<m, k>>] \in Seq(Byte)
      BY <3>2, PduBytes, Zenon
    <3>. QED
      BY <3>1, <3>3, Zenon
  <2>2. length' \in Seq(Lengths) /\ m_out_buf \o p \in Seq(Byte)
    BY <1>0, <1>1, <2>1 DEF Buffers, Send
  <2>3. data' \in Seq(Byte) /\ m_out_buf' \in Seq(Byte)
    BY <1>0, <1>1, <2>1, <2>2, Zenon DEF Buffers, Send
  <2>. QED
    BY <1>0, <1>1, <2>2, <2>3, Zenon DEF Buffers, Send, kernel, reader
<1>2. ASSUME OnWrite \/ WriteBlocks \/ OnRead \/ RecvEnds \/ OnReadEnds \/ UNCHANGED vars
      PROVE  Buffers'
  BY <1>0, <1>2, Zenon DEF Buffers, OnWrite, WriteBlocks, Refuse, OnRead, RecvEnds, OnReadEnds,
                    vars, writer, kernel, reader
<1>3. ASSUME NEW k \in 1 .. SocketSize, SendSome(k) PROVE Buffers'
  <2>1. SubSeq(data, 1, k) \in Seq(Byte) /\ Drop(data, k) \in Seq(Byte)
    BY <1>0, <1>3, Cut, Zenon DEF Buffers, SendSome, Transfer
  <2>2. socket \o SubSeq(data, 1, k) \in Seq(Byte)
    BY <1>0, <2>1 DEF Buffers
  <2>. QED
    BY <1>0, <1>3, <2>1, <2>2, Zenon DEF Buffers, SendSome, Transfer, reader
<1>4. ASSUME NEW k \in 1 .. SocketSize, WriteSome(k) PROVE Buffers'
  <2>1. SubSeq(m_out_buf, 1, k) \in Seq(Byte) /\ Drop(m_out_buf, k) \in Seq(Byte)
    BY <1>0, <1>4, Cut, Zenon DEF Buffers, WriteSome, Transfer
  <2>2. socket \o SubSeq(m_out_buf, 1, k) \in Seq(Byte)
    BY <1>0, <2>1 DEF Buffers
  <2>. QED
    BY <1>0, <1>4, <2>1, <2>2, Zenon DEF Buffers, WriteSome, Transfer, reader
<1>5. ASSUME NEW k \in 1 .. SocketSize, RecvSome(k) PROVE Buffers'
  <2>1. SubSeq(socket, 1, k) \in Seq(Byte) /\ Drop(socket, k) \in Seq(Byte)
    BY <1>0, <1>5, Cut, Zenon DEF Buffers, RecvSome
  <2>2. m_in_buf \o SubSeq(socket, 1, k) \in Seq(Byte)
    BY <1>0, <2>1 DEF Buffers
  <2>. QED
    BY <1>0, <1>5, <2>1, <2>2, Zenon DEF Buffers, RecvSome, writer
<1>6. ASSUME SendBlocks PROVE Buffers'
  BY <1>0, <1>6 DEF Buffers, SendBlocks, Refuse, reader
<1>7. ASSUME HandlePdu PROVE Buffers'
  <2>1. m_in_buf # << >> /\ PduLength \in 1 .. Len(m_in_buf)
    <3>1. m_in_buf # << >> /\ PduLength <= Len(m_in_buf)
      BY <1>0, <1>7, SizesAssumption DEF Buffers, HandlePdu, IsPduAvailable
    <3>. QED
      BY <3>1, <1>0, BufferHead DEF Buffers
  <2>2. SubSeq(m_in_buf, 1, PduLength) \in Seq(Byte) /\ Drop(m_in_buf, PduLength) \in Seq(Byte)
    BY <1>0, <2>1, Cut, Zenon DEF Buffers
  <2>3. handled' \in Seq(Seq(Byte)) /\ m_in_buf' \in Seq(Byte)
    BY <1>0, <1>7, <2>2 DEF Buffers, HandlePdu
  <2>. QED
    BY <1>0, <1>7, <2>3, Zenon DEF Buffers, HandlePdu, writer, kernel
<1>. QED
  BY <1>1, <1>2, <1>3, <1>4, <1>5, <1>6, <1>7, Zenon DEF Next, WriterStep, ReaderStep

\* The control of the two loops, and the events they wait for.
LEMMA ControlStep ==
    ASSUME Inv, [Next]_vars
    PROVE  TypeOK' /\ NoLostEdge'
<1>0. Buffers /\ TypeOK /\ NoLostEdge
  BY Zenon DEF Inv
<1>a. {m_busy, nospace, epollout, epollin} \subseteq BOOLEAN
  BY <1>0, Zenon DEF TypeOK
<1>1. ASSUME NEW n \in Lengths, Send(n) PROVE TypeOK' /\ NoLostEdge'
  <2>1. PICK p \in Seq(Byte) : /\ p = [k \in 1 .. n |-> <<Len(length) + 1, k>>]
                               /\ p # << >>
    <3>1. PICK m \in Nat : m = Len(length) + 1
      BY <1>0 DEF Buffers
    <3>2. n \in Nat /\ n >= 1
      BY LengthsAreNat, Zenon
    <3>3. [k \in 1 .. n |-> <<m, k>>] \in Seq(Byte) /\ Len([k \in 1 .. n |-> <<m, k>>]) = n
      BY <3>2, PduBytes, Zenon
    <3>4. [k \in 1 .. n |-> <<m, k>>] # << >>
      BY <3>2, <3>3
    <3>. QED
      BY <3>1, <3>3, <3>4, Zenon
  <2>2. Len(length') <= MaxPdus /\ \A i \in DOMAIN length' : length'[i] \in Lengths
    BY <1>0, <1>1, SizesAssumption, SMTT(40) DEF Buffers, TypeOK, Send
  <2>3. CASE m_busy
    <3>1. m_out_buf' # << >>
      <4>1. m_out_buf' = m_out_buf \o p
        BY <1>1, <2>1, <2>3, Zenon DEF Send
      <4>. QED
        BY <1>0, <2>1, <4>1 DEF Buffers
    <3>2. NoLostEdge'
      BY <1>0, <1>1, <2>3, <3>1, Zenon DEF NoLostEdge, Send, kernel
    <3>3. TypeOK'
      BY <1>0, <1>1, <2>2, <2>3, Zenon DEF TypeOK, Send, kernel, reader
    <3>. QED
      BY <3>2, <3>3, Zenon
  <2>4. CASE ~m_busy
    BY <1>0, <1>1, <2>1, <2>2, <2>4, Zenon DEF TypeOK, NoLostEdge, Send, kernel, reader
  <2>. QED
    BY <2>3, <2>4, Zenon
<1>2. ASSUME NEW k \in 1 .. SocketSize, SendSome(k) PROVE TypeOK' /\ NoLostEdge'
  <2>1. Len(socket') <= SocketSize
    <3>1. Len(SubSeq(data, 1, k)) = k /\ SubSeq(data, 1, k) \in Seq(Byte)
      BY <1>0, <1>2, Cut, Zenon DEF Buffers, SendSome, Transfer
    <3>2. Len(socket') = Len(socket) + k
      BY <1>0, <1>2, <3>1 DEF Buffers, SendSome, Transfer
    <3>. QED
      BY <1>0, <1>2, <3>2, SizesAssumption DEF Buffers, SendSome, Transfer, Room
  <2>2. pc' \in {"idle", "Send"} /\ (pc' = "Send" <=> data' # << >>)
    BY <1>2, Zenon DEF SendSome
  <2>3. TypeOK'
    <3>1. {m_busy', nospace', epollout', epollin'} \subseteq BOOLEAN
      BY <1>a, <1>2, Zenon DEF SendSome, Transfer
    <3>. QED
      BY <1>0, <1>2, <2>1, <2>2, <3>1, Zenon DEF TypeOK, SendSome, Transfer, reader
  <2>4. NoLostEdge'
    BY <1>0, <1>2, <2>2, Zenon DEF TypeOK, NoLostEdge, SendSome, Transfer
  <2>. QED
    BY <2>3, <2>4, Zenon
<1>3. ASSUME SendBlocks PROVE TypeOK' /\ NoLostEdge'
  <2>1. m_out_buf' # << >>
    BY <1>0, <1>3 DEF Buffers, TypeOK, SendBlocks
  <2>2. {m_busy', nospace', epollout', epollin'} \subseteq BOOLEAN
    BY <1>a, <1>3, Zenon DEF SendBlocks, Refuse
  <2>3. TypeOK'
    BY <1>0, <1>3, <2>2, Zenon DEF TypeOK, SendBlocks, Refuse, reader
  <2>4. NoLostEdge'
    BY <1>3, <2>1, Zenon DEF NoLostEdge, SendBlocks, Refuse
  <2>. QED
    BY <2>3, <2>4, Zenon
<1>4. ASSUME OnWrite PROVE TypeOK' /\ NoLostEdge'
  <2>1. {m_busy', nospace', epollout', epollin'} \subseteq BOOLEAN
    BY <1>a, <1>4, Zenon DEF OnWrite
  <2>2. TypeOK'
    BY <1>0, <1>4, <2>1, Zenon DEF TypeOK, OnWrite, reader
  <2>3. NoLostEdge'
    BY <1>0, <1>4, Zenon DEF NoLostEdge, OnWrite
  <2>. QED
    BY <2>2, <2>3, Zenon
<1>5. ASSUME NEW k \in 1 .. SocketSize, WriteSome(k) PROVE TypeOK' /\ NoLostEdge'
  <2>1. Len(socket') <= SocketSize
    <3>1. Len(SubSeq(m_out_buf, 1, k)) = k /\ SubSeq(m_out_buf, 1, k) \in Seq(Byte)
      BY <1>0, <1>5, Cut, Zenon DEF Buffers, WriteSome, Transfer
    <3>2. Len(socket') = Len(socket) + k
      BY <1>0, <1>5, <3>1 DEF Buffers, WriteSome, Transfer
    <3>. QED
      BY <1>0, <1>5, <3>2, SizesAssumption DEF Buffers, WriteSome, Transfer, Room
  <2>2. /\ pc' \in {"idle", "OnWrite"} /\ (pc' = "OnWrite" <=> m_busy')
        /\ m_busy' <=> m_out_buf' # << >>
    BY <1>5, Zenon DEF WriteSome
  <2>3. TypeOK'
    <3>1. {m_busy', nospace', epollout', epollin'} \subseteq BOOLEAN
      BY <1>a, <1>5, Zenon DEF WriteSome, Transfer
    <3>. QED
      BY <1>0, <1>5, <2>1, <2>2, <3>1, Zenon DEF TypeOK, WriteSome, Transfer, reader
  <2>4. NoLostEdge'
    BY <2>2, Zenon DEF NoLostEdge
  <2>. QED
    BY <2>3, <2>4, Zenon
<1>6. ASSUME WriteBlocks PROVE TypeOK' /\ NoLostEdge'
  <2>1. {m_busy', nospace', epollout', epollin'} \subseteq BOOLEAN
    BY <1>a, <1>6, Zenon DEF WriteBlocks, Refuse
  <2>2. TypeOK'
    BY <1>0, <1>6, <2>1, Zenon DEF TypeOK, WriteBlocks, Refuse, reader
  <2>3. NoLostEdge'
    BY <1>0, <1>6, Zenon DEF NoLostEdge, WriteBlocks, Refuse
  <2>. QED
    BY <2>2, <2>3, Zenon
<1>7. ASSUME OnRead PROVE TypeOK' /\ NoLostEdge'
  <2>1. {m_busy', nospace', epollout', epollin'} \subseteq BOOLEAN
    BY <1>a, <1>7, Zenon DEF OnRead, writer
  <2>2. TypeOK'
    BY <1>0, <1>7, <2>1, Zenon DEF TypeOK, OnRead, writer
  <2>3. NoLostEdge'
    BY <1>0, <1>7, Zenon DEF NoLostEdge, OnRead, writer
  <2>. QED
    BY <2>2, <2>3, Zenon
<1>8. ASSUME NEW k \in 1 .. SocketSize, RecvSome(k) PROVE TypeOK' /\ NoLostEdge'
  <2>1. {m_busy', nospace', epollout', epollin'} \subseteq BOOLEAN
    BY <1>a, <1>8, Zenon DEF RecvSome, writer
  <2>2. Len(socket') <= SocketSize
    <3>1. Len(socket') = Len(socket) - k /\ Len(socket) \in Nat
      <4>1. k \in 1 .. Len(socket) /\ socket \in Seq(Byte)
        BY <1>0, <1>8, Zenon DEF Buffers, RecvSome
      <4>2. Len(Drop(socket, k)) = Len(socket) - k
        BY <4>1, Cut, Zenon
      <4>. QED
        BY <1>8, <4>1, <4>2 DEF RecvSome
    <3>. QED
      BY <1>0, <3>1, SizesAssumption DEF TypeOK
  <2>3. TypeOK'
    BY <1>0, <1>8, <2>1, <2>2, Zenon DEF TypeOK, RecvSome, writer
  <2>4. NoLostEdge'
    BY <1>0, <1>8, Zenon DEF NoLostEdge, RecvSome, writer
  <2>. QED
    BY <2>3, <2>4, Zenon
<1>9. ASSUME RecvEnds \/ HandlePdu \/ OnReadEnds \/ UNCHANGED vars
      PROVE  TypeOK' /\ NoLostEdge'
  <2>1. UNCHANGED <<writer, kernel>> /\ reading' \in {"idle", "recv", "pdus"}
    BY <1>0, <1>9, Zenon DEF TypeOK, RecvEnds, HandlePdu, OnReadEnds, vars, reader
  <2>2. {m_busy', nospace', epollout', epollin'} \subseteq BOOLEAN
    BY <1>a, <2>1, Zenon DEF writer, kernel
  <2>3. TypeOK'
    BY <1>0, <2>1, <2>2, Zenon DEF TypeOK, writer, kernel
  <2>4. NoLostEdge'
    BY <1>0, <2>1, Zenon DEF NoLostEdge, writer, kernel
  <2>. QED
    BY <2>3, <2>4, Zenon
<1>. QED
  BY <1>1, <1>2, <1>3, <1>4, <1>5, <1>6, <1>7, <1>8, <1>9, Zenon DEF Next, WriterStep, ReaderStep

\* The reader's part: bytes that arrive are noticed, and OnRead leaves no whole PDU.
LEMMA ReaderStaysCurrent ==
    ASSUME Inv, [Next]_vars
    PROVE  NoUnreadPdu'
<1>0. Buffers /\ TypeOK /\ NoUnreadPdu
  BY Zenon DEF Inv
<1>1. ASSUME NEW n \in Lengths, Send(n) PROVE NoUnreadPdu'
  <2>1. IsPduAvailable' => IsPduAvailable
    <3>1. CASE m_in_buf = << >>
      BY <1>1, <3>1, SizesAssumption DEF Send, IsPduAvailable, reader
    <3>2. CASE m_in_buf # << >>
      <4>1. m_in_buf[1][1] \in 1 .. Len(length)
        BY <3>2, BufferHead, Zenon
      <4>2. length'[m_in_buf[1][1]] = length[m_in_buf[1][1]]
        BY <1>0, <1>1, <4>1 DEF Buffers, Send
      <4>. QED
        BY <1>1, <4>2, Zenon DEF Send, IsPduAvailable, PduLength, reader
    <3>. QED
      BY <3>1, <3>2, Zenon
  <2>. QED
    BY <1>0, <1>1, <2>1, Zenon DEF NoUnreadPdu, Send, kernel, reader
<1>2. ASSUME NEW k \in 1 .. SocketSize, SendSome(k) \/ WriteSome(k) PROVE NoUnreadPdu'
  <2>1. epollin' /\ UNCHANGED <<length, reader>>
    BY <1>2, Zenon DEF SendSome, WriteSome, Transfer
  <2>. QED
    BY <1>0, <2>1, Zenon DEF NoUnreadPdu, IsPduAvailable, PduLength, reader
<1>3. ASSUME SendBlocks \/ WriteBlocks \/ OnWrite \/ UNCHANGED vars PROVE NoUnreadPdu'
  <2>1. UNCHANGED <<length, socket, epollin, reader>>
    BY <1>3, Zenon DEF SendBlocks, WriteBlocks, OnWrite, Refuse, vars, writer, kernel
  <2>. QED
    BY <1>0, <2>1, Zenon DEF NoUnreadPdu, IsPduAvailable, PduLength, reader
<1>4. ASSUME OnRead PROVE NoUnreadPdu'
  BY <1>0, <1>4, Zenon DEF NoUnreadPdu, IsPduAvailable, PduLength, OnRead, writer
<1>5. ASSUME NEW k \in 1 .. SocketSize, RecvSome(k) PROVE NoUnreadPdu'
  BY <1>0, <1>5, Zenon DEF NoUnreadPdu, RecvSome
<1>6. ASSUME RecvEnds PROVE NoUnreadPdu'
  BY <1>0, <1>6, Zenon DEF NoUnreadPdu, RecvEnds, kernel
<1>7. ASSUME HandlePdu PROVE NoUnreadPdu'
  BY <1>0, <1>7, Zenon DEF NoUnreadPdu, HandlePdu, kernel
<1>8. ASSUME OnReadEnds PROVE NoUnreadPdu'
  BY <1>0, <1>8, Zenon DEF NoUnreadPdu, IsPduAvailable, PduLength, OnReadEnds, writer, kernel
<1>. QED
  BY <1>1, <1>2, <1>3, <1>4, <1>5, <1>6, <1>7, <1>8, Zenon DEF Next, WriterStep, ReaderStep

\* What sending, blocking and receiving do to the bytes: they stay where they are
\* in the stream.
LEMMA StreamKept ==
    ASSUME Inv, NEW k \in 1 .. SocketSize,
           SendSome(k) \/ SendBlocks \/ WriteSome(k) \/ RecvSome(k)
    PROVE  Stream' = Stream
<1>1. /\ m_in_buf \in Seq(Byte) /\ socket \in Seq(Byte)
      /\ m_out_buf \in Seq(Byte) /\ data \in Seq(Byte)
      /\ pc = "Send" => m_out_buf = << >>
      /\ pc # "Send" => data = << >>
  BY StreamParts, Zenon DEF Inv, Buffers
<1>2. ASSUME NEW b \in Seq(Byte), k \in 1 .. Len(b), socket' = socket \o SubSeq(b, 1, k),
             Unsent = b, Unsent' = Drop(b, k), m_in_buf' = m_in_buf
      PROVE  Stream' = Stream
  <2>1. Received \in Seq(Byte) /\ SubSeq(b, 1, k) \in Seq(Byte)
    <3>1. SubSeq(b, 1, k) \in Seq(Byte)
      BY <1>2, Cut, Zenon
    <3>2. Received \in Seq(Byte)
      BY <1>1, ConcatAt, Zenon DEF Received
    <3>. QED
      BY <3>1, <3>2, Zenon
  <2>2. Received' = Received \o SubSeq(b, 1, k)
    <3>1. PICK x \in Seq(Byte) : x = SubSeq(b, 1, k)
      BY <2>1, Zenon
    <3>2. PICK u \in Seq(Byte), v \in Seq(Byte) : u = m_in_buf /\ v = socket
      BY <1>1, Zenon
    <3>3. Regrouped(u, v, x)
      BY ConcatAssoc, Zenon
    <3>. QED
      BY <1>2, <3>1, <3>2, <3>3, Zenon DEF Received, Regrouped
  <2>3. (Received \o SubSeq(b, 1, k)) \o Drop(b, k) = Received \o b
    BY <1>2, <2>1, Moved, Zenon
  <2>. QED
    BY <1>2, <2>2, <2>3, Zenon DEF Stream
<1>3. ASSUME SendSome(k) PROVE Stream' = Stream
  <2>1. /\ k \in 1 .. Len(data) /\ socket' = socket \o SubSeq(data, 1, k)
        /\ data' = Drop(data, k) /\ m_out_buf = << >> /\ m_out_buf' = << >>
        /\ m_in_buf' = m_in_buf
    BY <1>1, <1>3, Zenon DEF SendSome, Transfer, reader
  <2>2. Drop(data, k) \in Seq(Byte)
    BY <1>1, <2>1, Cut, Zenon
  <2>3. Unsent = data /\ Unsent' = Drop(data, k)
    BY <1>1, <2>1, <2>2 DEF Unsent
  <2>. QED
    BY <1>1, <1>2, <2>1, <2>3, Zenon
<1>4. ASSUME SendBlocks PROVE Stream' = Stream
  <2>1. /\ m_out_buf' = m_out_buf \o data /\ data' = << >>
        /\ m_in_buf' = m_in_buf /\ socket' = socket
    BY <1>4, Zenon DEF SendBlocks, Refuse, reader
  <2>2. Unsent' = Unsent
    BY <1>1, <2>1 DEF Unsent
  <2>. QED
    BY <2>1, <2>2, Zenon DEF Stream, Received
<1>5. ASSUME WriteSome(k) PROVE Stream' = Stream
  <2>1. /\ k \in 1 .. Len(m_out_buf) /\ socket' = socket \o SubSeq(m_out_buf, 1, k)
        /\ m_out_buf' = Drop(m_out_buf, k) /\ data = << >> /\ data' = << >>
        /\ m_in_buf' = m_in_buf
    BY <1>1, <1>5, Zenon DEF WriteSome, Transfer, reader
  <2>2. Drop(m_out_buf, k) \in Seq(Byte)
    BY <1>1, <2>1, Cut, Zenon
  <2>3. Unsent = m_out_buf /\ Unsent' = Drop(m_out_buf, k)
    BY <1>1, <2>1, <2>2 DEF Unsent
  <2>. QED
    BY <1>1, <1>2, <2>1, <2>3, Zenon
<1>6. ASSUME RecvSome(k) PROVE Stream' = Stream
  <2>1. /\ k \in 1 .. Len(socket) /\ socket' = Drop(socket, k)
        /\ m_in_buf' = m_in_buf \o SubSeq(socket, 1, k)
        /\ UNCHANGED <<m_out_buf, data>>
    BY <1>6, Zenon DEF RecvSome, writer
  <2>2. Received' = Received
    BY <1>1, <2>1, Moved, Zenon DEF Received
  <2>. QED
    BY <2>1, <2>2, Zenon DEF Stream, Unsent
<1>. QED
  BY <1>3, <1>4, <1>5, <1>6, Zenon

\* A PDU handed to Send is appended to the stream.
LEMMA BytesJoined ==
    \A s, p \in Seq(Byte) : Joined(s, p)
  BY ConcatAt DEF Joined

\* Appending the bytes of a PDU makes a buffer longer by exactly that PDU.
LEMMA LongerConcat ==
    ASSUME NEW s \in Seq(Byte), NEW p, NEW m, NEW L, IsPdu(p, m, L)
    PROVE  Len(s \o p) = Len(s) + L /\ Longer(s \o p, s, Len(s), m, L)
<1>1. p \in Seq(Byte) /\ Len(p) = L /\ \A i \in 1 .. L : p[i] = <<m, i>>
  BY Zenon DEF IsPdu
<1>2. Joined(s, p)
  BY <1>1, BytesJoined, Zenon
<1>. QED
  BY <1>1, <1>2, Zenon DEF Joined, Longer

\* Send adds its PDU at the end of the bytes under way, whichever buffer takes it.
LEMMA StreamLonger ==
    ASSUME Inv, NEW n \in Lengths, Send(n)
    PROVE  /\ Len(Stream') = Len(Stream) + n
           /\ Longer(Stream', Stream, Len(Stream), Len(length) + 1, n)
<1>1. /\ Received \in Seq(Byte) /\ m_out_buf \in Seq(Byte) /\ data = << >>
      /\ ~m_busy => m_out_buf = << >>
      /\ Stream \in Seq(Byte)
  BY StreamParts, Zenon DEF Inv, Buffers, NoLostEdge, Send
<1>2. n \in Nat /\ Len(length) + 1 \in Nat
  BY LengthsAreNat DEF Inv, Buffers
<1>3. PICK p : p = [k \in 1 .. n |-> <<Len(length) + 1, k>>]
  BY Zenon
<1>4. p \in Seq(Byte) /\ Len(p) = n
  BY <1>2, <1>3, PduBytes, Zenon
<1>5. /\ Received' = Received
      /\ Unsent = m_out_buf /\ Unsent' = m_out_buf \o p
  <2>1. CASE m_busy
    <3>1. m_out_buf' = m_out_buf \o p /\ data' = << >>
      BY <1>1, <1>3, <2>1, Zenon DEF Send
    <3>2. m_out_buf \o p \in Seq(Byte)
      BY <1>1, <1>4
    <3>. QED
      BY <1>1, <3>1, <3>2 DEF Send, kernel, reader, Received, Unsent
  <2>2. CASE ~m_busy
    <3>1. m_out_buf = << >> /\ m_out_buf' = << >> /\ data' = p
      BY <1>1, <1>3, <2>2, Zenon DEF Send
    <3>. QED
      BY <1>1, <1>4, <3>1 DEF Send, kernel, reader, Received, Unsent
  <2>. QED
    BY <2>1, <2>2, Zenon
<1>6. Stream' = Stream \o p
  <2>1. Regrouped(Received, m_out_buf, p)
    BY <1>1, <1>4, ConcatAssoc, Zenon
  <2>. QED
    BY <1>5, <2>1, Zenon DEF Stream, Regrouped
<1>7. IsPdu(p, Len(length) + 1, n)
  BY <1>3, <1>4, Zenon DEF IsPdu
<1>. QED
  BY <1>1, <1>6, <1>7, LongerConcat, Zenon

\* Every step keeps the stream framed.
LEMMA FramedStep ==
    ASSUME Inv, [Next]_vars
    PROVE  Framed'
<1>0. /\ length \in Seq(Lengths) /\ handled \in Seq(Seq(Byte)) /\ Stream \in Seq(Byte)
      /\ Len(handled) \in Nat /\ Len(length) \in Nat
      /\ Len(handled) <= Len(length)
      /\ \A n \in 1 .. Len(handled) : handled[n] = Bytes(n)
      /\ Laid(Stream, Len(handled) + 1, length)
  BY StreamParts DEF Inv, Buffers, Framed
<1>1. ASSUME Stream' = Stream, UNCHANGED <<length, handled>> PROVE Framed'
  BY <1>0, <1>1, Zenon DEF Framed, Bytes
<1>2. ASSUME NEW n \in Lengths, Send(n) PROVE Framed'
  <2>1. length' = Append(length, n) /\ handled' = handled
    BY <1>2, Zenon DEF Send, reader
  <2>2. Laid(Stream', Len(handled) + 1, Append(length, n))
    <3>1. PICK f \in Nat \ {0} : f = Len(handled) + 1 /\ f <= Len(length) + 1
      BY <1>0
    <3>2. Len(Stream') = Len(Stream) + n /\ Longer(Stream', Stream, Len(Stream), Len(length) + 1, n)
      BY <1>2, StreamLonger, Zenon
    <3>3. Laid(Stream, f, length)
      BY <1>0, <3>1, Zenon
    <3>4. Laid(Stream', f, Append(length, n))
      BY <1>0, <3>1, <3>2, <3>3, LaidAppend, Zenon
    <3>. QED
      BY <3>1, <3>4, Zenon
  <2>3. ASSUME NEW m \in 1 .. Len(handled) PROVE handled'[m] = Bytes(m)'
    <3>1. length'[m] = length[m]
      BY <1>0, <2>1, SMTT(40)
    <3>. QED
      BY <1>0, <2>1, <3>1, Zenon DEF Bytes
  <2>4. Len(handled) <= Len(length')
    BY <1>0, <2>1
  <2>. QED
    BY <2>1, <2>2, <2>3, <2>4, Zenon DEF Framed
<1>3. ASSUME NEW k \in 1 .. SocketSize, SendSome(k) \/ WriteSome(k) \/ RecvSome(k) PROVE Framed'
  <2>1. Stream' = Stream
    BY <1>3, StreamKept, Zenon
  <2>. QED
    BY <1>1, <1>3, <2>1, Zenon DEF SendSome, WriteSome, RecvSome, writer, reader
<1>4. ASSUME SendBlocks PROVE Framed'
  <2>1. Stream' = Stream
    <3>1. 1 \in 1 .. SocketSize
      BY SizesAssumption
    <3>. QED
      BY <1>4, <3>1, StreamKept, Zenon
  <2>. QED
    BY <1>1, <1>4, <2>1, Zenon DEF SendBlocks, reader
<1>5. ASSUME OnWrite \/ WriteBlocks \/ OnRead \/ RecvEnds \/ OnReadEnds \/ UNCHANGED vars
      PROVE  Framed'
  <2>1. UNCHANGED <<length, data, m_out_buf, socket, m_in_buf, handled>>
    BY <1>5, Zenon DEF OnWrite, WriteBlocks, Refuse, OnRead, RecvEnds, OnReadEnds,
                vars, writer, kernel, reader
  <2>. QED
    BY <1>1, <2>1, Zenon DEF Stream, Received, Unsent
<1>6. ASSUME HandlePdu PROVE Framed'
  <2>1. m_in_buf \in Seq(Byte) /\ m_in_buf # << >> /\ PduLength <= Len(m_in_buf)
    BY <1>6, SizesAssumption DEF Inv, Buffers, HandlePdu, IsPduAvailable
  <2>2. PICK f \in 1 .. Len(length) : f = Len(handled) + 1
    BY <2>1, BufferHead, Zenon
  <2>3. PICK L \in Nat \ {0} : L = length[f]
    BY <2>1, <2>2, BufferHead, Zenon
  <2>4. /\ PduLength = L /\ L \in 1 .. Len(m_in_buf)
        /\ \A k \in 1 .. L : Stream[k] = <<f, k>>
    BY <2>1, <2>2, <2>3, BufferHead
  <2>5. handled' = Append(handled, SubSeq(m_in_buf, 1, L)) /\ m_in_buf' = Drop(m_in_buf, L)
        /\ UNCHANGED <<length, data, m_out_buf, socket>>
    BY <1>6, <2>4, Zenon DEF HandlePdu, writer, kernel
  <2>6. SubSeq(m_in_buf, 1, L) = Bytes(f)
    <3>1. \A i \in 1 .. L : SubSeq(m_in_buf, 1, L)[i] = m_in_buf[i]
      BY <2>1, <2>4, Cut, Zenon
    <3>2. \A i \in 1 .. L : m_in_buf[i] = Stream[i]
      BY <2>1, <2>4, StreamParts
    <3>3. PICK p : p = SubSeq(m_in_buf, 1, L)
      BY Zenon
    <3>4. p \in Seq(Byte) /\ Len(p) = L
      BY <3>3, <2>1, <2>4, Cut
    <3>5. p = [k \in 1 .. L |-> <<f, k>>]
      <4>1. p = [k \in 1 .. L |-> p[k]]
        BY <3>4
      <4>2. \A k \in 1 .. L : p[k] = <<f, k>>
        BY <3>1, <3>2, <3>3, <2>4, Zenon
      <4>. QED
        BY <4>1, <4>2, Zenon
    <3>. QED
      BY <3>3, <3>5, <2>3, Zenon DEF Bytes
  <2>7. Stream' = Drop(Stream, L)
    <3>1. /\ socket \in Seq(Byte) /\ Unsent \in Seq(Byte) /\ Received \in Seq(Byte)
          /\ Len(Received) = Len(m_in_buf) + Len(socket)
      BY StreamParts DEF Inv, Buffers, Received
    <3>2. Received' = Drop(Received, L)
      BY <2>1, <2>4, <2>5, <3>1, DropFront, Zenon DEF Received
    <3>3. L \in 1 .. Len(Received)
      BY <2>1, <2>4, <3>1
    <3>4. Drop(Received, L) \o Unsent = Drop(Received \o Unsent, L)
      BY <3>1, <3>3, DropFront, Zenon
    <3>. QED
      BY <2>5, <3>2, <3>4, Zenon DEF Stream, Unsent
  <2>8. Laid(Stream', f + 1, length)
    <3>1. L \in 1 .. Len(Stream)
      BY <2>1, <2>4, StreamParts
    <3>2. Laid(Stream, f, length) /\ f \in Nat \ {0} /\ f <= Len(length)
      BY <1>0, <2>2
    <3>. QED
      BY <1>0, <2>3, <2>7, <3>1, <3>2, LaidDrop, Zenon
  <2>9. Len(handled') = f /\ \A n \in 1 .. f : handled'[n] = Bytes(n)
    BY <1>0, <2>2, <2>5, <2>6
  <2>10. Bytes(f)' = Bytes(f) /\ \A n \in 1 .. f : Bytes(n)' = Bytes(n)
    BY <2>5, Zenon DEF Bytes
  <2>. QED
    BY <1>0, <2>2, <2>5, <2>8, <2>9, <2>10, SMTT(40) DEF Framed
<1>. QED
  BY <1>2, <1>3, <1>4, <1>5, <1>6, Zenon DEF Next, WriterStep, ReaderStep

-----------------------------------------------------------------------------
\* The invariant holds in every state that Send, OnWrite and OnRead reach.
THEOREM Invariance == Spec => []Inv
<1>1. Inv /\ [Next]_vars => Inv'
  BY BuffersStep, ControlStep, ReaderStaysCurrent, FramedStep, Zenon DEF Inv
<1>. QED
  BY InitInv, <1>1, PTL DEF Spec

\* Send is in its loop only while no earlier bytes wait and OnWrite only while some
\* do, and the socket never holds more than it takes.
THEOREM ConnTypeCorrect == Spec => []TypeOK
<1>1. Inv => TypeOK
  BY Zenon DEF Inv
<1>. QED
  BY <1>1, Invariance, PTL

\* No event is lost between Send, OnWrite and OnRead: bytes that wait in m_out_buf
\* have an EPOLLOUT coming, bytes in the socket have an EPOLLIN, and OnRead returns
\* with no whole PDU in m_in_buf.
THEOREM NoEventLost == Spec => [](NoLostEdge /\ NoUnreadPdu)
<1>1. Inv => NoLostEdge /\ NoUnreadPdu
  BY Zenon DEF Inv
<1>. QED
  BY <1>1, Invariance, PTL

\* A step of Send adds a PDU to what was sent.
LEMMA SendStep ==
    ASSUME Inv, NEW n \in Lengths, Send(n)
    PROVE  Channel!Send
<1>1. length \in Seq(Lengths) /\ length' = Append(length, n) /\ handled' = handled
  BY Zenon DEF Inv, Buffers, Send, reader
<1>2. PICK N \in Nat : N = Len(length)
  BY <1>1
<1>3. DOMAIN length = 1 .. N /\ DOMAIN length' = 1 .. N + 1 /\ \A m \in 1 .. N : length'[m] = length[m]
  BY <1>1, <1>2
<1>4. PICK s : s = [m \in DOMAIN length |-> Bytes(m)]
  BY Zenon
<1>5. PICK t : t = [m \in DOMAIN length' |-> Bytes(m)']
  BY Zenon
<1>6. ASSUME NEW m \in 1 .. N PROVE s[m] = t[m]
  <2>1. s[m] = Bytes(m) /\ t[m] = Bytes(m)'
    BY <1>3, <1>4, <1>5
  <2>2. length'[m] = length[m]
    BY <1>3, Zenon
  <2>. QED
    BY <2>1, <2>2, Zenon DEF Bytes
<1>7. s \in Seq({Bytes(m) : m \in 1 .. N}) /\ Len(s) = N
  BY <1>3, <1>4
<1>8. t \in Seq({Bytes(m)' : m \in 1 .. N + 1}) /\ Len(t) = N + 1
  BY <1>3, <1>5
<1>9. SubSeq(t, 1, N) = s
  BY <1>3, <1>4, <1>6, <1>7, <1>8
<1>. QED
  BY <1>1, <1>4, <1>5, <1>7, <1>8, <1>9, Zenon DEF Channel!Send

\* A step of HandlePdu handles the next PDU that was sent, whole.
LEMMA HandleStep ==
    ASSUME Inv, HandlePdu, Framed'
    PROVE  Channel!Handle
<1>1. /\ length \in Seq(Lengths) /\ handled \in Seq(Seq(Byte))
      /\ m_in_buf \in Seq(Byte) /\ length' = length
  BY Zenon DEF Inv, Buffers, HandlePdu, writer
<1>2. m_in_buf # << >>
  BY <1>1, SizesAssumption DEF HandlePdu, IsPduAvailable
<1>3. PICK f \in 1 .. Len(length) : f = Len(handled) + 1
  BY <1>2, BufferHead, Zenon
<1>4. PICK p : p = SubSeq(m_in_buf, 1, PduLength) /\ handled' = Append(handled, p)
  BY Zenon DEF HandlePdu
<1>a. p \in Seq(Byte)
  <2>1. PduLength \in 1 .. Len(m_in_buf)
    BY <1>1, <1>2, BufferHead DEF HandlePdu, IsPduAvailable
  <2>. QED
    BY <1>1, <1>4, <2>1, Cut, Zenon
<1>5. handled'[f] = p /\ Len(handled') = f
  BY <1>1, <1>3, <1>4, <1>a
<1>6. handled'[f] = Bytes(f)
  BY <1>1, <1>3, <1>5 DEF Framed, Bytes
<1>7. DOMAIN length = 1 .. Len(length) /\ Len(length) \in Nat /\ Len(handled) \in Nat
  BY <1>1
<1>8. Len([m \in DOMAIN length |-> Bytes(m)]) = Len(length)
  BY <1>7
<1>9. [m \in DOMAIN length |-> Bytes(m)]' = [m \in DOMAIN length |-> Bytes(m)]
  BY <1>1, Zenon DEF Bytes
<1>10. [m \in DOMAIN length |-> Bytes(m)][f] = Bytes(f)
  BY <1>7, Zenon
<1>. QED
  BY <1>3, <1>4, <1>5, <1>6, <1>7, <1>8, <1>9, <1>10, SMTT(40) DEF Channel!Handle

\* The connection implements the safety part of PduChannel: PDUs are handled whole,
\* once and in the order in which Send was called, however the bytes travel.
THEOREM ConnImplementsChannel == Spec => Channel!Safety
<1>1. Init => Channel!Init
  BY DEF Init, Channel!Init
<1>2. ASSUME Inv, Inv', [Next]_vars
      PROVE  [Channel!Next]_<<[n \in DOMAIN length |-> Bytes(n)], handled>>
  <2>1. ASSUME NEW n \in Lengths, Send(n) PROVE Channel!Next
    BY <1>2, <2>1, SendStep, Zenon DEF Channel!Next
  <2>2. ASSUME HandlePdu PROVE Channel!Next
    BY <1>2, <2>2, HandleStep, Zenon DEF Channel!Next, Inv
  <2>3. ASSUME UNCHANGED <<length, handled>>
        PROVE  UNCHANGED <<[n \in DOMAIN length |-> Bytes(n)], handled>>
    BY <2>3, Zenon DEF Bytes
  <2>4. ASSUME ~HandlePdu, ~\E n \in Lengths : Send(n) PROVE UNCHANGED <<length, handled>>
    BY <1>2, <2>4, Zenon DEF Next, WriterStep, ReaderStep, OnWrite, SendSome, WriteSome, SendBlocks,
                      WriteBlocks, OnRead, RecvSome, RecvEnds, OnReadEnds, vars, writer, reader
  <2>. QED
    BY <2>1, <2>2, <2>3, <2>4, Zenon
<1>. QED
  BY <1>1, <1>2, Invariance, PTL DEF Spec, Channel!Safety
=============================================================================
