------------------------------ MODULE Listener ------------------------------
(***************************************************************************)
(* The processes of accessws and of accesshttp: one listener that accepts  *)
(* the clients' connections and hands each to one of the workers that are  *)
(* connected to it, over the rpc session between them (ah_main.c,          *)
(* ah_listener.c, aw_listener.c, nw_ses_send_fd).  Both programs are       *)
(* modelled: they differ in the socket of that session.                    *)
(***************************************************************************)
EXTENDS Naturals, Sequences

CONSTANTS Workers,      \* the workers, worker_num of them
          Clients,      \* connections of clients
          HeadNumbers,  \* how many descriptors' numbers are as long as RPC_PKG_HEAD
          WireMax,      \* bounds: what a session has under way,
          MaxCrashes,   \* crashes of a process,
          MaxTimeouts   \* and silent heartbeats

VARIABLES program,    \* "accessws" or "accesshttp"
          listener,   \* is the listener's process up?
          sessions,   \* raw_svr->ses_list of the listener's worker_svr: [worker, open]
          link,       \* the worker's client: "none", "open", or "ended" by the other side
          wire,       \* what is under way to a worker
          readBuf,    \* read_buf of a worker's client: the numbers in it
          conn,       \* what has become of a client's connection
          crashes, timeouts

vars == <<program, listener, sessions, link, wire, readBuf, conn, crashes, timeouts>>

Fd(c) == <<"fd", c>>
Number == <<"number">>
Reply == <<"reply">>
NotAccepted == <<"none">>
Handed == <<"handed">>
Closed == <<"closed">>
ServedBy(w) == <<"served", w>>
Up == listener = "up"

AwListenerBind == "seqpacket"
AhListenerBind == "stream"
SockType == IF program = "accessws" THEN AwListenerBind ELSE AhListenerBind

\* The workers are forked first, and connect before the listener listens.
Init ==
    /\ program \in {"accessws", "accesshttp"}
    /\ listener = "down" /\ sessions = <<>>
    /\ link = [w \in Workers |-> "none"]
    /\ wire = [w \in Workers |-> <<>>]
    /\ readBuf = [w \in Workers |-> 0]
    /\ conn = [c \in Clients |-> NotAccepted]
    /\ crashes = 0 /\ timeouts = 0

-----------------------------------------------------------------------------
(* The sessions between them. *)

InitListener ==
    /\ ~Up /\ listener' = "up"
    /\ UNCHANGED <<program, sessions, link, wire, readBuf, conn, crashes, timeouts>>

\* init_listener_clt and each later try of its client, which the listener accepts.
WorkerConnects(w) ==
    /\ Up /\ link[w] = "none"
    /\ link' = [link EXCEPT ![w] = "open"]
    /\ sessions' = Append(sessions, [worker |-> w, open |-> TRUE])
    /\ UNCHANGED <<program, listener, wire, readBuf, conn, crashes, timeouts>>

\* A heartbeat of the worker, answered by on_heartbeat of the listener.
Heartbeat(w) ==
    /\ Up /\ link[w] = "open" /\ Len(wire[w]) < WireMax
    /\ wire' = [wire EXCEPT ![w] = Append(@, Reply)]
    /\ UNCHANGED <<program, listener, sessions, link, readBuf, conn, crashes, timeouts>>

\* nw_svr_close_ses of the listener.
Without(i) == SubSeq(sessions, 1, i - 1) \o SubSeq(sessions, i + 1, Len(sessions))
SessionEnds(i) ==
    /\ sessions' = Without(i)
    /\ IF sessions[i].open
       THEN /\ timeouts < MaxTimeouts /\ timeouts' = timeouts + 1
            /\ link' = [link EXCEPT ![sessions[i].worker] = "ended"]
       ELSE UNCHANGED <<link, timeouts>>
    /\ UNCHANGED <<program, listener, wire, readBuf, conn, crashes>>

\* nw_clt's on_close and on_error in the worker; the listener is yet to see it.
ClosedBy(w) ==
    [i \in DOMAIN sessions |-> IF sessions[i].worker = w THEN [sessions[i] EXCEPT !.open = FALSE] ELSE sessions[i]]
LinkCloses(w) ==
    /\ link' = [link EXCEPT ![w] = "none"]
    /\ wire' = [wire EXCEPT ![w] = <<>>]
    /\ readBuf' = [readBuf EXCEPT ![w] = 0]
    /\ sessions' = ClosedBy(w)

-----------------------------------------------------------------------------
(* The hand-over. *)

\* nw_ses_send_fd.  A TCP socket takes the four bytes of the number and no descriptor, or
\* refuses the control message; a session whose other end is gone takes it or fails.
CarriesDescriptors == SockType = "seqpacket"
NwSesSendFd(i, c, sends) ==
    LET w == sessions[i].worker
    IN  /\ sends => SockType = "stream" /\ Len(wire[w]) < WireMax
        /\ wire' = IF sends /\ sessions[i].open
                   THEN [wire EXCEPT ![w] = Append(@, IF CarriesDescriptors THEN Fd(c) ELSE Number)]
                   ELSE wire

\* listener_on_accept with a worker: rand() picks one of the sessions.
HandOver(c) ==
    \E i \in DOMAIN sessions, sends \in BOOLEAN :
        /\ NwSesSendFd(i, c, sends)
        /\ conn' = [conn EXCEPT ![c] = IF sends /\ sessions[i].open /\ CarriesDescriptors THEN Handed ELSE Closed]
\* Without one: -1, and on_can_accept closes the socket.
NoWorker(c) ==
    /\ sessions = <<>>
    /\ conn' = [conn EXCEPT ![c] = Closed]
    /\ UNCHANGED wire
ListenerOnAccept(c) ==
    /\ Up /\ conn[c] = NotAccepted
    /\ HandOver(c) \/ NoWorker(c)
    /\ UNCHANGED <<program, listener, sessions, link, readBuf, crashes, timeouts>>

-----------------------------------------------------------------------------
(* The worker's end. *)

\* nw_svr_add_ses_by_fd: a session of the worker's server, unless the client is gone or no
\* bound address is of its family.
AddSesByFd(w, c, added) == conn' = [conn EXCEPT ![c] = IF added THEN ServedBy(w) ELSE Closed]
\* on_listener_recv_fd; on_can_read takes descriptors from a SEQPACKET session only.
OnRecvFd(w) ==
    /\ SockType = "seqpacket"
    /\ \E c \in Clients : Head(wire[w]) = Fd(c) /\ \E added \in BOOLEAN : AddSesByFd(w, c, added)
    /\ wire' = [wire EXCEPT ![w] = Tail(@)]
    /\ UNCHANGED <<sessions, link, readBuf>>

\* rpc_decode: numbers wait for the length of a head, in which the magic is then missed.
OnRecvNumber(w) ==
    /\ Head(wire[w]) = Number
    /\ IF readBuf[w] + 1 < HeadNumbers
       THEN /\ readBuf' = [readBuf EXCEPT ![w] = @ + 1]
            /\ wire' = [wire EXCEPT ![w] = Tail(@)]
            /\ UNCHANGED <<sessions, link>>
       ELSE LinkCloses(w)
    /\ UNCHANGED conn
OnRecvReply(w) ==
    /\ Head(wire[w]) = Reply
    /\ IF readBuf[w] = 0
       THEN wire' = [wire EXCEPT ![w] = Tail(@)] /\ UNCHANGED <<sessions, link, readBuf>>
       ELSE LinkCloses(w)
    /\ UNCHANGED conn
OnCanRead(w) ==
    /\ link[w] # "none" /\ wire[w] # <<>>
    /\ OnRecvFd(w) \/ OnRecvNumber(w) \/ OnRecvReply(w)
    /\ UNCHANGED <<program, listener, crashes, timeouts>>

\* The worker reads the end of the session, or misses the replies to its heartbeats.
LinkEnds(w) ==
    /\ \/ link[w] = "ended" /\ wire[w] = <<>> /\ UNCHANGED timeouts
       \/ link[w] = "open" /\ timeouts < MaxTimeouts /\ timeouts' = timeouts + 1
    /\ LinkCloses(w)
    /\ UNCHANGED <<program, listener, conn, crashes>>

-----------------------------------------------------------------------------
(* Crashes: process_keepalive forks the process anew. *)

WorkerCrash(w) ==
    /\ crashes < MaxCrashes /\ crashes' = crashes + 1
    /\ LinkCloses(w)
    /\ conn' = [c \in Clients |->
                  IF conn[c] = ServedBy(w) \/ \E i \in DOMAIN wire[w] : wire[w][i] = Fd(c) THEN Closed ELSE conn[c]]
    /\ UNCHANGED <<program, listener, timeouts>>
ListenerCrash ==
    /\ Up /\ crashes < MaxCrashes /\ crashes' = crashes + 1
    /\ listener' = "down" /\ sessions' = <<>>
    /\ link' = [w \in Workers |-> IF link[w] = "open" THEN "ended" ELSE link[w]]
    /\ UNCHANGED <<program, wire, readBuf, conn, timeouts>>

Next ==
    \/ InitListener \/ ListenerCrash
    \/ \E w \in Workers :
        WorkerConnects(w) \/ Heartbeat(w) \/ OnCanRead(w) \/ LinkEnds(w) \/ WorkerCrash(w)
    \/ \E i \in DOMAIN sessions : SessionEnds(i)
    \/ \E c \in Clients : ListenerOnAccept(c)

Spec == Init /\ [][Next]_vars

-----------------------------------------------------------------------------

\* A connection that is accepted while the workers' sessions stand is handed to one of them
\* (listener_on_accept).  nw_ses.h:97 says of nw_ses_send_fd "send a fd, only when the
\* connection is SOCK_SEQPACKET type", ah_listener.c:29 that what the listener gets of a
\* client is forwarded to a worker.
HandsOver ==
    [][\A c \in Clients :
        conn[c] = NotAccepted /\ conn'[c] # NotAccepted /\ sessions # <<>> /\ (\A i \in DOMAIN sessions : sessions[i].open)
        => conn'[c] = Handed]_vars
==============================================================================
