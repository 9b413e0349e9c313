------------------------------- MODULE NwClt -------------------------------
(***************************************************************************)
(* A client that reconnects (network/nw_clt.c with the callbacks of        *)
(* utils/ut_rpc_clt.c).  A failed connect goes on to the next address at   *)
(* once, or, after the last one, waits for a timer.  A connect that fails  *)
(* within connect() is handled in on_connect and again by nw_clt_start,    *)
(* which has called it: frames counts the calls of nw_clt_start that still *)
(* have to.                                                                *)
(***************************************************************************)
EXTENDS NwSes

CONSTANT Settings     \* [addrs |-> addr_count, atOnce |-> connect() itself may fail]

VARIABLES setting,     \* one of them
          state,       \* "closed", "connecting" or "connected"
          peer,        \* peer_addr, as an index of addr_arr from 1
          currIndex,   \* curr_index: the next address to try, from 0
          called,      \* on_connect_called
          timer,       \* "none", "reconnect" or "connect": what clt->timer runs
          starting,    \* nw_clt_start is called
          frames       \* calls of nw_clt_start whose nw_ses_connect returned -1

cltVars == <<setting, state, peer, currIndex, called, timer, starting, frames>>

\* rpc_clt_create, rpc_clt_start.  The memory of curr_index is not set: it may hold anything,
\* of which the model takes the indices.
RpcCltStart ==
    /\ setting \in Settings
    /\ state = "closed" /\ timer = "none" /\ frames = 0
    /\ peer = 1 /\ currIndex \in 0 .. setting.addrs
    /\ starting = TRUE /\ called = FALSE

AtLoop == ~starting /\ frames = 0

-----------------------------------------------------------------------------

\* on_close of the rpc client: it returns whether to start at once.
NoWait == setting.addrs # 1 /\ currIndex # setting.addrs
NextAddress ==
    /\ peer' = IF setting.addrs = 1 THEN peer ELSE IF NoWait THEN currIndex + 1 ELSE 1
    /\ currIndex' = IF setting.addrs = 1 THEN currIndex ELSE IF NoWait THEN currIndex + 1 ELSE 1

NoReconnect == timer' = "none"
ReconnectLater == timer' = IF NoWait THEN "none" ELSE "reconnect"

\* The end of on_connect(false), on_error, on_close and of a failed nw_clt_start: on_close,
\* clt_close, then nw_clt_start or reconnect_later.
CloseAndRestart ==
    /\ NextAddress
    /\ state' = "closed"
    /\ starting' = NoWait
    /\ NwSesClose
    /\ UNCHANGED setting
\* nw_clt_close, nw_clt_start.
CloseAndStart ==
    /\ NextAddress
    /\ state' = "closed" /\ timer' = "none"
    /\ starting' = TRUE
    /\ NwSesClose
    /\ UNCHANGED setting

\* nw_clt_start up to the return of connect().
ConnectsAtOnce ==
    /\ starting
    /\ starting' = FALSE /\ state' = "connected" /\ called' = TRUE
    /\ watching' = "read"
    /\ UNCHANGED <<setting, peer, currIndex, timer, frames, writeBuf, wire, readBuf>>
ConnectInProgress ==
    /\ starting
    /\ starting' = FALSE /\ state' = "connecting" /\ called' = FALSE
    /\ timer' = "connect" /\ watching' = "connect"
    /\ UNCHANGED <<setting, peer, currIndex, frames, writeBuf, wire, readBuf>>
RefusedAtOnce ==
    /\ starting /\ setting.atOnce
    /\ CloseAndRestart /\ ReconnectLater
    /\ called' = TRUE
    /\ frames' = frames + 1
\* The rest of nw_clt_start after that: it closes and restarts once more.  If a connect in
\* progress was closed, its time-out takes the place of the timer to reconnect.
NwCltStartFails ==
    /\ ~starting /\ frames > 0
    /\ CloseAndRestart
    /\ timer' = IF NoWait THEN "none" ELSE IF called THEN "reconnect" ELSE "connect"
    /\ frames' = frames - 1
    /\ UNCHANGED called

\* on_can_connect.
OnConnect ==
    /\ AtLoop /\ watching = "connect"
    /\ state' = "connected" /\ watching' = "read" /\ called' = TRUE
    /\ UNCHANGED <<setting, peer, currIndex, timer, starting, frames, writeBuf, wire, readBuf>>
OnConnectFails ==
    /\ AtLoop /\ watching = "connect"
    /\ CloseAndRestart /\ ReconnectLater
    /\ called' = TRUE
    /\ UNCHANGED frames

\* on_connect_timeout; the timer also runs out after the connect has been made.
OnConnectTimeout ==
    /\ AtLoop /\ timer = "connect"
    /\ \/ ~called /\ CloseAndStart
       \/ called /\ timer' = "none" /\ UNCHANGED <<setting, peer, currIndex, state, starting, sesVars>>
    /\ UNCHANGED <<called, frames>>

OnReconnectTimeout ==
    /\ AtLoop /\ timer = "reconnect"
    /\ timer' = "none" /\ starting' = TRUE
    /\ UNCHANGED <<setting, peer, currIndex, state, called, frames, sesVars>>

\* on_error, on_close of a session that was connected.
OnCloseOrError ==
    /\ AtLoop /\ state = "connected"
    /\ CloseAndRestart /\ ReconnectLater
    /\ UNCHANGED <<called, frames>>

\* on_timer of the rpc client finds last_heartbeat too old.
HeartbeatTimeout ==
    /\ AtLoop /\ state = "connected"
    /\ CloseAndStart
    /\ UNCHANGED <<called, frames>>
============================================================================
