----------------------------- MODULE MCNetwork -----------------------------
EXTENDS Network
P(kind, size) == [kind |-> kind, size |-> size]
Rpc == [protocol |-> "rpc", packages |-> <<P("whole", 3), P("heartbeat", 1), P("whole", 3), P("whole", 2)>>]
Ws == [protocol |-> "ws", packages |-> <<P("hello", 1), P("piece", 2), P("ping", 1), P("whole", 2), P("whole", 1)>>]
BadWs == [protocol |-> "ws", packages |-> <<P("bad hello", 1), P("whole", 1)>>]
Http == [protocol |-> "http", packages |-> <<P("whole", 3)>>]
MCTalks == {Rpc, Ws, BadWs}
\* Bodies in pieces: MessagesIntact fails.
HttpTalks == {Http}
MCSettings == {[addrs |-> 1, atOnce |-> TRUE], [addrs |-> 2, atOnce |-> FALSE]}
\* Settings in which a refused connect hides the server that listens: Reconnects fails.
Refusing == {[addrs |-> 2, atOnce |-> TRUE]}
RpcTalks == {Rpc}
=============================================================================
