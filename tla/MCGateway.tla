------------------------------ MODULE MCGateway ------------------------------
(* A small instance of Gateway for TLC. *)
EXTENDS Gateway

\* Of each front: methods of one kind, or of two when each is asked less often.
Plan(f, ms, b, n) == [front |-> f, methods |-> ms, services |-> {b}, asks |-> n]
SomePlans ==
    {Plan("ws", {"depth.query"}, "matchengine", 3),
     Plan("ws", {"kline.query", "price.query", "unknown"}, "marketprice", 2),
     Plan("ws", {"order.query"}, "matchengine", 2),
     Plan("http", {"order.put_limit", "order.cancel"}, "matchengine", 3),
     Plan("http", {"order.deals", "unknown"}, "readhistory", 2)}
==============================================================================
