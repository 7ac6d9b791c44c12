------------------------------- MODULE ImConn -------------------------------
(***************************************************************************)
(* One direction of a connection between two CImConn objects: Send and     *)
(* OnWrite at one end, with m_busy and m_out_buf, OnRead and the framing   *)
(* of PDUs (CImPdu::ReadPdu) at the other, and between them a socket that  *)
(* takes what fits.  epoll is edge-triggered: an event that a handler does *)
(* not use up is not reported again.  Each end runs its own event loop, so *)
(* the loops of Send, OnWrite and OnRead interleave call by call.          *)
(***************************************************************************)
EXTENDS Naturals, Sequences

CONSTANTS IM_PDU_HEADER_LEN,  \* bytes of a PDU header
          Lengths,            \* lengths PDUs may have, header included
          SocketSize,         \* bytes a socket takes that the peer has not read
          MaxPdus             \* bound: PDUs sent in a behaviour

ASSUME SizesAssumption ==
    /\ IM_PDU_HEADER_LEN \in Nat \ {0} /\ SocketSize \in Nat \ {0} /\ MaxPdus \in Nat
    /\ Lengths \subseteq {n \in Nat : n >= IM_PDU_HEADER_LEN}

VARIABLES
    length,     \* the PDUs handed to Send: the length of each
    pc,         \* the writer: "idle", or inside the loop of "Send" or "OnWrite"
    data,       \* what the loop of Send has not sent yet
    m_busy, m_out_buf,
    socket,     \* bytes sent and not received
    nospace,    \* the kernel owes the writer an event: a send found no room
    epollout,   \* an EPOLLOUT edge is pending at the writer
    epollin,    \* an EPOLLIN edge is pending at the reader
    reading,    \* the reader: "idle", or in the loop of OnRead that receives
                \* ("recv") or in the one over the PDUs received ("pdus")
    m_in_buf,
    handled     \* the PDUs HandlePdu was called with

writer == <<length, pc, data, m_busy, m_out_buf>>
kernel == <<socket, nospace, epollout, epollin>>
reader == <<reading, m_in_buf, handled>>
vars == <<writer, kernel, reader>>

\* A byte is the number of its PDU and its place in it.
Bytes(n) == [k \in 1 .. length[n] |-> <<n, k>>]
Room == SocketSize - Len(socket)
Drop(s, k) == SubSeq(s, k + 1, Len(s))

Init ==
    /\ length = << >> /\ pc = "idle" /\ data = << >> /\ m_busy = FALSE /\ m_out_buf = << >>
    /\ socket = << >> /\ nospace = FALSE /\ epollout = FALSE /\ epollin = FALSE
    /\ reading = "idle" /\ m_in_buf = << >> /\ handled = << >>

-----------------------------------------------------------------------------
(* The writer. *)

\* Does not ask whether earlier bytes wait: a mutation of Send.
SendIgnoresBusy(n) ==
    /\ pc = "idle" /\ Len(length) < MaxPdus
    /\ length' = Append(length, n)
    /\ data' = [k \in 1 .. n |-> <<Len(length) + 1, k>>]
    /\ pc' = "Send"
    /\ UNCHANGED <<m_busy, m_out_buf, kernel, reader>>

\* CImConn::Send up to its loop.
Send(n) ==
    LET pdu == [k \in 1 .. n |-> <<Len(length) + 1, k>>]
    IN  /\ pc = "idle" /\ Len(length) < MaxPdus
        /\ length' = Append(length, n)
        /\ IF m_busy
           THEN m_out_buf' = m_out_buf \o pdu /\ UNCHANGED <<pc, data>>
           ELSE pc' = "Send" /\ data' = pdu /\ UNCHANGED m_out_buf
        /\ UNCHANGED <<m_busy, kernel, reader>>

\* netlib_send: the socket takes k bytes of s.
Transfer(s, k) ==
    /\ k \in 1 .. Len(s) /\ k <= Room
    /\ socket' = socket \o SubSeq(s, 1, k)
    /\ epollin' = TRUE
    /\ UNCHANGED <<nospace, epollout>>

\* netlib_send: the socket takes nothing.
Refuse ==
    /\ Room = 0
    /\ nospace' = TRUE
    /\ UNCHANGED <<socket, epollout, epollin>>

\* The loop of Send: everything sent, or the rest is left to OnWrite.
SendSome(k) ==
    /\ pc = "Send"
    /\ Transfer(data, k)
    /\ data' = Drop(data, k)
    /\ pc' = IF data' = << >> THEN "idle" ELSE "Send"
    /\ UNCHANGED <<length, m_busy, m_out_buf, reader>>

SendBlocks ==
    /\ pc = "Send"
    /\ Refuse
    /\ m_out_buf' = m_out_buf \o data /\ m_busy' = TRUE
    /\ data' = << >> /\ pc' = "idle"
    /\ UNCHANGED <<length, reader>>

\* EPOLLOUT: by an edge, or beside another event while there is room.
OnWrite ==
    /\ pc = "idle"
    /\ epollout \/ Room > 0
    /\ epollout' = FALSE
    /\ pc' = IF m_busy THEN "OnWrite" ELSE "idle"
    /\ UNCHANGED <<length, data, m_busy, m_out_buf, socket, nospace, epollin, reader>>

\* Sends once and waits for the next event: a mutation of WriteSome.
WriteOnce(k) ==
    /\ pc = "OnWrite"
    /\ Transfer(m_out_buf, k)
    /\ m_out_buf' = Drop(m_out_buf, k)
    /\ m_busy' = (m_out_buf' # << >>)
    /\ pc' = "idle"
    /\ UNCHANGED <<length, data, reader>>

\* The loop of OnWrite.
WriteSome(k) ==
    /\ pc = "OnWrite"
    /\ Transfer(m_out_buf, k)
    /\ m_out_buf' = Drop(m_out_buf, k)
    /\ m_busy' = (m_out_buf' # << >>)
    /\ pc' = IF m_busy' THEN "OnWrite" ELSE "idle"
    /\ UNCHANGED <<length, data, reader>>

WriteBlocks ==
    /\ pc = "OnWrite"
    /\ Refuse
    /\ pc' = "idle"
    /\ UNCHANGED <<length, data, m_busy, m_out_buf, reader>>

-----------------------------------------------------------------------------
(* The reader. *)

\* EPOLLIN, unless an earlier loop received the bytes the edge was for.
OnRead ==
    /\ reading = "idle" /\ epollin
    /\ epollin' = FALSE
    /\ reading' = IF socket = << >> THEN "idle" ELSE "recv"
    /\ UNCHANGED <<writer, socket, nospace, epollout, m_in_buf, handled>>

\* Does not try again whether there is more: a mutation of RecvSome.
RecvOnce(k) ==
    /\ reading = "recv" /\ k \in 1 .. Len(socket)
    /\ socket' = Drop(socket, k)
    /\ m_in_buf' = m_in_buf \o SubSeq(socket, 1, k)
    /\ nospace' = FALSE /\ epollout' = (epollout \/ nospace)
    /\ reading' = "pdus"
    /\ UNCHANGED <<writer, epollin, handled>>

\* netlib_recv of k bytes; the kernel tells a writer that waits for room.
RecvSome(k) ==
    /\ reading = "recv" /\ k \in 1 .. Len(socket)
    /\ socket' = Drop(socket, k)
    /\ m_in_buf' = m_in_buf \o SubSeq(socket, 1, k)
    /\ nospace' = FALSE /\ epollout' = (epollout \/ nospace)
    /\ UNCHANGED <<writer, epollin, reading, handled>>

RecvEnds ==
    /\ reading = "recv" /\ socket = << >>
    /\ reading' = "pdus"
    /\ UNCHANGED <<writer, kernel, m_in_buf, handled>>

\* The length that the header at the start of m_in_buf holds.
PduLength == length[m_in_buf[1][1]]

IsPduAvailable == Len(m_in_buf) >= IM_PDU_HEADER_LEN /\ PduLength <= Len(m_in_buf)

\* The loop over the PDUs that are complete: HandlePdu, then Read(NULL, pdu_len).
HandlePdu ==
    /\ reading = "pdus" /\ IsPduAvailable
    /\ handled' = Append(handled, SubSeq(m_in_buf, 1, PduLength))
    /\ m_in_buf' = Drop(m_in_buf, PduLength)
    /\ UNCHANGED <<writer, kernel, reading>>

OnReadEnds ==
    /\ reading = "pdus" /\ ~IsPduAvailable
    /\ reading' = "idle"
    /\ UNCHANGED <<writer, kernel, m_in_buf, handled>>

-----------------------------------------------------------------------------
WriterStep ==
    \/ \E k \in 1 .. SocketSize : SendSome(k) \/ WriteSome(k)
    \/ SendBlocks
    \/ WriteBlocks

ReaderStep ==
    \/ OnRead
    \/ \E k \in 1 .. SocketSize : RecvSome(k)
    \/ RecvEnds
    \/ HandlePdu
    \/ OnReadEnds

Next ==
    \/ \E n \in Lengths : Send(n)
    \/ OnWrite
    \/ WriterStep
    \/ ReaderStep

Spec == Init /\ [][Next]_vars

\* Both event loops run their handlers to the end and take the edges that are
\* pending; an EPOLLOUT without edge may never come.
FairSpec ==
    /\ Spec
    /\ WF_vars(WriterStep)
    /\ WF_vars(epollout /\ OnWrite)
    /\ WF_vars(ReaderStep)

-----------------------------------------------------------------------------
\* Send is in its loop only while no earlier bytes wait, OnWrite only while some do.
TypeOK ==
    /\ pc \in {"idle", "Send", "OnWrite"}
    /\ {m_busy, nospace, epollout, epollin} \subseteq BOOLEAN
    /\ reading \in {"idle", "recv", "pdus"}
    /\ Len(length) <= MaxPdus /\ Len(socket) <= SocketSize
    /\ \A n \in DOMAIN length : length[n] \in Lengths
    /\ pc = "Send" <=> data # << >>
    /\ pc = "Send" => ~m_busy
    /\ pc = "OnWrite" => m_busy

\* A byte that waits in m_out_buf has an event coming that will send it: the
\* writer is never idle and busy with neither an edge nor a debt of the kernel.
NoLostEdge ==
    /\ m_busy <=> m_out_buf # << >>
    /\ m_busy /\ pc = "idle" => nospace \/ epollout

\* The same at the reader: bytes in the socket have an EPOLLIN edge, and a whole
\* PDU does not stay in m_in_buf when OnRead returns.
NoUnreadPdu ==
    /\ socket # << >> => epollin \/ reading = "recv"
    /\ IsPduAvailable => reading # "idle"

\* The connection implements PduChannel: PDUs arrive whole, once and in order,
\* however sends, receives and events cut the stream, and each of them arrives.
Channel == INSTANCE PduChannel WITH sent <- [n \in DOMAIN length |-> Bytes(n)]
ImplementsPduChannel == Channel!Spec
=============================================================================
