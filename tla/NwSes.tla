------------------------------- MODULE NwSes -------------------------------
(***************************************************************************)
(* One direction of a stream session (network/nw_ses.c, nw_buf.c): the     *)
(* sender's list of buffers and what it watches for, the bytes the kernel  *)
(* holds, and the receiver's buffer.  A byte is <<n, i>>: byte i of the    *)
(* n-th package handed to nw_ses_send.                                     *)
(***************************************************************************)
EXTENDS Naturals, Sequences

CONSTANTS BufSize,    \* max_pkg_size: the size of every buffer of the pool
          BufLimit,   \* buf_limit: how many of them a list may hold, 0 for no limit
          WireMax     \* what the sockets hold

ASSUME SizesAssumption == BufSize \in Nat \ {0} /\ BufLimit \in Nat /\ WireMax \in Nat \ {0}

VARIABLES writeBuf,   \* write_buf: its buffers, [data |-> what is not written, wpos |-> filled]
          watching,   \* "none", "connect", "read" or "readwrite": the sender's ev_io
          wire,       \* the bytes in the sockets
          readBuf     \* read_buf of the receiver

sesVars == <<writeBuf, watching, wire, readBuf>>

NwSesInit == writeBuf = <<>> /\ watching = "none" /\ wire = <<>> /\ readBuf = <<>>

Less(a, b) == IF a < b THEN a ELSE b
Minus(a, b) == IF a < b THEN 0 ELSE a - b

-----------------------------------------------------------------------------
(* nw_buf.c *)

NwBufAvail(buf) == BufSize - buf.wpos
NwBufWrite(buf, bytes) ==
    [data |-> buf.data \o bytes, wpos |-> buf.wpos + Len(bytes)]
\* The bytes in new buffers, each filled before the next.
NwBufAlloc(bytes) ==
    [k \in 1 .. (Len(bytes) + BufSize - 1) \div BufSize |->
        NwBufWrite([data |-> <<>>, wpos |-> 0],
                   SubSeq(bytes, (k - 1) * BufSize + 1, Less(k * BufSize, Len(bytes))))]

\* The list with the bytes behind those it has: the last buffer is filled up first.
NwBufListWrite(list, bytes) ==
    IF list = <<>> THEN NwBufAlloc(bytes)
    ELSE LET tail == list[Len(list)]
             fits == Less(NwBufAvail(tail), Len(bytes))
         IN  SubSeq(list, 1, Len(list) - 1)
               \o <<NwBufWrite(tail, SubSeq(bytes, 1, fits))>>
               \o NwBufAlloc(SubSeq(bytes, fits + 1, Len(bytes)))
IsWithinLimit(list) == BufLimit = 0 \/ Len(list) <= BufLimit

\* What waits in the list
Pending(list) ==
    LET bytes[k \in 0 .. Len(list)] == IF k = 0 THEN <<>> ELSE bytes[k - 1] \o list[k].data
    IN  bytes[Len(list)]

\* Buffer k of the list once its first n bytes are written: rpos moves.
NwBufShift(list, n, k) ==
    LET before == Len(Pending(SubSeq(list, 1, k - 1)))
    IN  [list[k] EXCEPT !.data = SubSeq(@, Minus(n, before) + 1, Len(@))]
\* The list then: buffers that are written as a whole are taken off it.
NwBufListShift(list, n) ==
    LET shifted[k \in 0 .. Len(list)] ==
            IF k = 0 THEN <<>>
            ELSE IF NwBufShift(list, n, k).data = <<>> THEN shifted[k - 1]
            ELSE Append(shifted[k - 1], NwBufShift(list, n, k))
    IN  shifted[Len(list)]

-----------------------------------------------------------------------------
(* Sending.  What the socket takes now, it takes; the rest waits for it. *)

Written(bytes) == SubSeq(bytes, 1, Less(WireMax - Len(wire), Len(bytes)))
Unwritten(bytes) == SubSeq(bytes, Len(Written(bytes)) + 1, Len(bytes))

\* The list nw_ses_send leaves.
ListAfter(bytes) ==
    IF writeBuf # <<>> THEN NwBufListWrite(writeBuf, bytes) ELSE NwBufListWrite(<<>>, Unwritten(bytes))

SendAhead(bytes) ==
    /\ IsWithinLimit(NwBufListWrite(writeBuf, Unwritten(bytes)))
    /\ writeBuf' = NwBufListWrite(writeBuf, Unwritten(bytes))
    /\ wire' = wire \o Written(bytes)
    /\ watching' = IF Unwritten(bytes) # <<>> THEN "readwrite" ELSE watching
    /\ UNCHANGED readBuf
NwSesSend(bytes) ==
    /\ IsWithinLimit(ListAfter(bytes))
    /\ writeBuf' = ListAfter(bytes)
    /\ wire' = IF writeBuf # <<>> THEN wire ELSE wire \o Written(bytes)
    /\ watching' = IF writeBuf = <<>> /\ Unwritten(bytes) # <<>> THEN "readwrite" ELSE watching
    /\ UNCHANGED readBuf
\* "no send buf": the caller of nw_ses_send conjoins on_error.
NoSendBuf(bytes) == ~IsWithinLimit(ListAfter(bytes))

StopWatching(list) == "read"
WatchAfter(list) == IF list = <<>> THEN "read" ELSE "readwrite"
OnCanWrite ==
    /\ watching = "readwrite" /\ Len(wire) < WireMax
    /\ LET bytes == Pending(writeBuf)
       IN  /\ wire' = wire \o Written(bytes)
           /\ writeBuf' = NwBufListShift(writeBuf, Len(Written(bytes)))
    /\ watching' = WatchAfter(writeBuf')
    /\ UNCHANGED readBuf

\* Receiving: one round of the loop of on_can_read.  read returns n of the bytes that
\* are there; rest is what decode leaves of what the buffer then has (Arrived).
OnCanRead(n, rest) ==
    /\ n \in 1 .. Less(Len(wire), BufSize - Len(readBuf))
    /\ wire' = SubSeq(wire, n + 1, Len(wire))
    /\ readBuf' = rest
    /\ UNCHANGED <<writeBuf, watching>>
Arrived(n) == readBuf \o SubSeq(wire, 1, n)
\* A package that decode refuses, or that does not end within the buffer.
DecodeError(decoded) == decoded.bad \/ Len(decoded.rest) = BufSize

\* nw_ses_close of both ends, and the connection with it.
NwSesClose == watching' = "none" /\ wire' = <<>> /\ readBuf' = <<>> /\ writeBuf' = <<>>
============================================================================
