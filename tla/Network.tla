------------------------------ MODULE Network ------------------------------
(***************************************************************************)
(* A client and the servers it may connect to: a reconnecting rpc client   *)
(* (NwClt), or the client of the websocket or the http server, of which    *)
(* only what it sends matters.  The protocol says how the bytes of a       *)
(* session are cut into packages (ut_rpc.c, ut_ws_svr.c, ut_http_svr.c)    *)
(* and what the server makes of a package.                                 *)
(***************************************************************************)
EXTENDS NwClt, FiniteSets

CONSTANTS Talks,        \* what may be sent: [protocol, packages]
          MaxCrashes,   \* bounds
          MaxTimeouts

\* A package of rpc is a request or a heartbeat; the first of a websocket is the handshake.
Kinds(protocol, n) ==
    CASE protocol = "rpc"  -> {"whole", "heartbeat"}
      [] protocol = "http" -> {"whole"}
      [] OTHER -> IF n = 1 THEN {"hello", "bad hello"} ELSE {"piece", "whole", "ping", "pong", "close"}
ASSUME TalksAssumption ==
    \A t \in Talks :
        /\ t.protocol \in {"rpc", "ws", "http"}
        /\ t.packages \in Seq([kind : STRING, size : Nat \ {0}])
        /\ \A n \in 1 .. Len(t.packages) : t.packages[n].kind \in Kinds(t.protocol, n)

VARIABLES talk,      \* the talk that takes place
          up,        \* the servers that listen
          ses,       \* the server's session of the connection: "none", "open", or "upgraded"
          sent,      \* how many packages of talk.packages were sent on the connection
          message,   \* info->message, or the request the http parser builds
          got,       \* the messages the server's callback was given on the connection
          crashes, timeouts

vars == <<sesVars, cltVars, talk, up, ses, sent, message, got, crashes, timeouts>>

Servers == 1 .. setting.addrs
Package(n) == talk.packages[n]
Bytes(n) == [i \in 1 .. Package(n).size |-> <<n, i>>]

Init ==
    /\ NwSesInit /\ RpcCltStart
    /\ talk \in Talks
    /\ up \in SUBSET Servers
    /\ ses = "none" /\ sent = 0 /\ message = <<>> /\ got = <<>>
    /\ crashes = 0 /\ timeouts = 0

-----------------------------------------------------------------------------
(* The packages in a buffer: [pkgs, rest, bad]. *)

\* rpc_decode and decode_pkg of the websocket server: a head that gives the size, then as
\* many bytes, which the checksum or the mask pass only if they are the package's.
DecodeNext(last) ==
    LET n == Head(last.rest)[1]
        size == Package(n).size
    IN  IF last.rest = <<>> \/ last.bad THEN last
        ELSE IF Head(last.rest)[2] # 1 THEN [last EXCEPT !.bad = TRUE]
        ELSE IF Len(last.rest) < size THEN last
        ELSE IF SubSeq(last.rest, 1, size) # Bytes(n) THEN [last EXCEPT !.bad = TRUE]
        ELSE [pkgs |-> Append(last.pkgs, n), rest |-> SubSeq(last.rest, size + 1, Len(last.rest)),
              bad |-> FALSE]
PkgDecode(bytes) ==
    LET decoded[k \in 0 .. Len(bytes)] ==
            IF k = 0 THEN [pkgs |-> <<>>, rest |-> bytes, bad |-> FALSE] ELSE DecodeNext(decoded[k - 1])
    IN  decoded[Len(bytes)]
\* decode_pkg of the http server, and of a websocket before the upgrade: all there is.
HttpDecode(bytes) == [pkgs |-> <<bytes>>, rest |-> <<>>, bad |-> FALSE]

IsHttp == talk.protocol = "http"
Decode(bytes) == IF IsHttp THEN HttpDecode(bytes) ELSE PkgDecode(bytes)

-----------------------------------------------------------------------------
(* What the server makes of the packages of one round: [ses, message, got]. *)

\* on_recv_pkg of the rpc server: all but heartbeats go to the callback.
RpcRecvPkg(s, n) ==
    IF Package(n).kind = "heartbeat" THEN s ELSE [s EXCEPT !.got = Append(@, Bytes(n))]

\* on_http_message_complete of the websocket server: only a good handshake upgrades.
Upgrade(s, n) == IF Package(n).kind = "hello" THEN [s EXCEPT !.ses = "upgraded"] ELSE [s EXCEPT !.ses = "none"]
\* on_recv_pkg: pieces are collected up to the one with fin.
WsMessage(s, n) ==
    IF Package(n).kind = "piece" THEN [s EXCEPT !.message = @ \o Bytes(n)]
    ELSE [s EXCEPT !.got = Append(@, s.message \o Bytes(n)), !.message = <<>>]
WsRecvPkg(s, n) ==
    IF s.ses = "open" THEN Upgrade(s, n)
    ELSE CASE Package(n).kind = "close" -> [s EXCEPT !.ses = "none"]
           [] Package(n).kind \in {"ping", "pong"} -> s
           [] OTHER -> WsMessage(s, n)

\* on_body keeps the last piece of a body it is given; on_message_complete hands it over.
HttpBody(bytes) == SelectSeq(bytes, LAMBDA b : b[2] # 1)
HttpRecvPkg(s, bytes) ==
    LET body == IF HttpBody(bytes) = <<>> THEN s.message ELSE HttpBody(bytes)
        last == bytes[Len(bytes)]
    IN  IF last[2] = Package(last[1]).size
        THEN [s EXCEPT !.got = Append(@, body), !.message = <<>>]
        ELSE [s EXCEPT !.message = body]

OnRecvPkg(s, pkg) ==
    IF s.ses = "none" THEN s
    ELSE CASE talk.protocol = "rpc"  -> RpcRecvPkg(s, pkg)
           [] talk.protocol = "ws"   -> WsRecvPkg(s, pkg)
           [] talk.protocol = "http" -> HttpRecvPkg(s, pkg)
OnRecvPkgs(pkgs) ==
    LET after[k \in 0 .. Len(pkgs)] ==
            IF k = 0 THEN [ses |-> ses, message |-> message, got |-> got] ELSE OnRecvPkg(after[k - 1], pkgs[k])
    IN  after[Len(pkgs)]

-----------------------------------------------------------------------------
(* The connection. *)

NoSession == ses' = "none" /\ sent' = 0 /\ message' = <<>> /\ got' = <<>>
\* nw_svr_add_ses: a session begins with nothing.
AddSession ==
    /\ peer \in up
    /\ ses' = "open" /\ sent' = 0 /\ message' = <<>> /\ got' = <<>>

Accepted == OnConnect /\ AddSession
Answered ==
    \/ Accepted
    \/ OnConnectFails /\ peer \notin up /\ NoSession
Started ==
    \/ ConnectsAtOnce /\ AddSession
    \/ ConnectInProgress /\ NoSession
    \/ RefusedAtOnce /\ peer \notin up /\ NoSession
    \/ NwCltStartFails /\ NoSession
    \/ OnReconnectTimeout /\ NoSession
    \/ OnConnectTimeout /\ IF ~called THEN NoSession ELSE UNCHANGED <<ses, sent, message, got>>
Connect ==
    /\ Started \/ Answered
    /\ UNCHANGED <<talk, up, crashes, timeouts>>

\* The client's end sees the end of the connection, or an answer is late.
Disconnect ==
    /\ \/ OnCloseOrError /\ ses = "none" /\ UNCHANGED timeouts
       \/ /\ talk.protocol = "rpc"
          /\ HeartbeatTimeout /\ timeouts < MaxTimeouts /\ timeouts' = timeouts + 1
    /\ NoSession
    /\ UNCHANGED <<talk, up, crashes>>

Crash(s) ==
    /\ s \in up /\ crashes < MaxCrashes
    /\ up' = up \ {s} /\ crashes' = crashes + 1
    /\ ses' = IF peer = s THEN "none" ELSE ses
    /\ message' = IF peer = s THEN <<>> ELSE message
    /\ UNCHANGED <<sesVars, cltVars, talk, sent, got, timeouts>>
Restart(s) ==
    /\ s \notin up /\ up' = up \cup {s}
    /\ UNCHANGED <<sesVars, cltVars, talk, ses, sent, message, got, crashes, timeouts>>

\* on_timer of the servers: a client is silent for too long.
KeepAliveTimeout ==
    /\ ses # "none" /\ timeouts < MaxTimeouts
    /\ timeouts' = timeouts + 1
    /\ ses' = "none" /\ message' = <<>>
    /\ UNCHANGED <<sesVars, cltVars, talk, up, sent, got, crashes>>

-----------------------------------------------------------------------------

\* rpc_clt_send, once the client is connected; a browser waits for the handshake.
MaySend ==
    /\ AtLoop /\ state = "connected" /\ sent < Len(talk.packages)
    /\ talk.protocol = "ws" /\ sent > 0 => ses = "upgraded"
Send ==
    /\ MaySend
    /\ \/ NwSesSend(Bytes(sent + 1)) /\ sent' = sent + 1 /\ UNCHANGED <<cltVars, ses, message, got>>
       \/ NoSendBuf(Bytes(sent + 1)) /\ OnCloseOrError /\ NoSession
    /\ UNCHANGED <<talk, up, crashes, timeouts>>

Write ==
    /\ AtLoop /\ OnCanWrite
    /\ UNCHANGED <<cltVars, talk, up, ses, sent, message, got, crashes, timeouts>>

\* A package the server refuses ends its session (on_error, nw_svr_close_ses).
Receive ==
    /\ ses # "none"
    /\ \E n \in 1 .. Len(wire) :
        LET decoded == Decode(Arrived(n))
            after == OnRecvPkgs(decoded.pkgs)
        IN  /\ OnCanRead(n, decoded.rest)
            /\ got' = after.got
            /\ ses' = IF DecodeError(decoded) THEN "none" ELSE after.ses
            /\ message' = IF DecodeError(decoded) THEN <<>> ELSE after.message
    /\ UNCHANGED <<cltVars, talk, up, sent, crashes, timeouts>>

Next ==
    \/ Connect \/ Disconnect \/ KeepAliveTimeout
    \/ \E s \in Servers : Crash(s) \/ Restart(s)
    \/ Send \/ Write \/ Receive

\* A connect that is tried again and again is at last answered before its time-out.
Spec ==
    /\ Init /\ [][Next]_vars
    /\ SF_vars(Accepted /\ UNCHANGED <<talk, up, crashes, timeouts>>)
    /\ WF_vars(Connect) /\ WF_vars(Disconnect) /\ WF_vars(Send) /\ WF_vars(Write) /\ WF_vars(Receive)

-----------------------------------------------------------------------------

\* The messages that are complete in the first n packages, as the client means them.
Content(n) == IF IsHttp THEN HttpBody(Bytes(n)) ELSE Bytes(n)
MeantNext(last, n) ==
    CASE Package(n).kind = "piece" -> [last EXCEPT !.open = @ \o Content(n)]
      [] Package(n).kind = "whole" -> [open |-> <<>>, done |-> Append(last.done, last.open \o Content(n))]
      [] OTHER -> last
Meant(n) ==
    LET meant[k \in 0 .. n] == IF k = 0 THEN [open |-> <<>>, done |-> <<>>] ELSE MeantNext(meant[k - 1], k)
    IN  meant[n].done

\* On every connection, what the server's callback is given is a prefix of what the client
\* sent on it: no message is cut, joined, lost or taken over from an earlier connection,
\* however the socket cuts the bytes and whatever waits in the buffers (nw_ses.c, nw_buf.c).
MessagesIntact ==
    LET meant == Meant(sent)
    IN  Len(got) <= Len(meant) /\ \A i \in DOMAIN got : got[i] = meant[i]

\* What was sent arrives, unless the connection ends (watch_read_write, on_can_write).
EverythingArrives == []<>(state # "connected" \/ ses = "none" \/ got = Meant(Len(talk.packages)))

\* The client gets to a server, as long as one listens (README.md of network: "client
\* implement, auto reconnect").
Reconnects == <>[](up # {}) => []<>(state = "connected")

\* A client that cannot connect returns to the event loop, to try again later.
ReturnsToLoop == []<>AtLoop
============================================================================
