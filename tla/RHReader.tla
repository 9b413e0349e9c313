------------------------------ MODULE RHReader ------------------------------
(***************************************************************************)
(* The queries of readhistory (rh_reader.c, and their arguments in         *)
(* rh_server.c): each reads one table, newest id first, a page at a time.  *)
(***************************************************************************)
EXTENDS TradeHistory, FiniteSets

CONSTANTS QueryLimit,    \* QUERY_LIMIT
          InvalidArgument, NullDetail

Smaller(a, b) == IF a < b THEN a ELSE b
RowsOf(kind, field, key) == SelectSeq(tables[<<kind, key % HistoryHash>>], LAMBDA r : r[field] = key)

\* ORDER BY id DESC LIMIT offset, limit, where the ids number the rows.
NewestPage(rows, offset, limit) ==
    [i \in 1 .. Smaller(limit, IF offset < Len(rows) THEN Len(rows) - offset ELSE 0)
        |-> rows[Len(rows) - offset - i + 1]]

\* The same where the id is the order's.
ByOrderId(rows) ==
    LET larger(i) == Cardinality({j \in DOMAIN rows : rows[j].order > rows[i].order})
    IN  [n \in DOMAIN rows |-> rows[CHOOSE i \in DOMAIN rows : larger(i) = Len(rows) - n]]

GetUserBalanceHistory(u, offset, limit) ==
    NewestPage(RowsOf("balance_history", "user", u), offset, limit)
GetUserOrderFinished(u, offset, limit) ==
    NewestPage(ByOrderId(RowsOf("order_history", "user", u)), offset, limit)
GetOrderDealDetails(o, offset, limit) ==
    NewestPage(RowsOf("deal_history", "order", o), offset, limit)
GetMarketUserDeals(u, offset, limit) ==
    NewestPage(RowsOf("user_deal_history", "user", u), offset, limit)
GetFinishedOrderDetail(o) ==
    LET rows == RowsOf("order_detail", "order", o)
    IN  IF rows = <<>> THEN NullDetail ELSE rows[1]

-----------------------------------------------------------------------------
(* The commands. *)

GoodPage(limit) == limit # 0 /\ limit <= QueryLimit

OnCmdBalanceHistory(u, offset, limit) ==
    IF u # 0 /\ GoodPage(limit) THEN GetUserBalanceHistory(u, offset, limit) ELSE InvalidArgument
OnCmdOrderHistory(u, offset, limit) ==
    IF u # 0 /\ GoodPage(limit) THEN GetUserOrderFinished(u, offset, limit) ELSE InvalidArgument
OnCmdOrderDeals(o, offset, limit) ==
    IF o # 0 /\ GoodPage(limit) THEN GetOrderDealDetails(o, offset, limit) ELSE InvalidArgument
OnCmdMarketDeals(u, offset, limit) ==
    IF u # 0 /\ GoodPage(limit) THEN GetMarketUserDeals(u, offset, limit) ELSE InvalidArgument
OnCmdOrderDetailFinished(o) ==
    IF o # 0 THEN GetFinishedOrderDetail(o) ELSE InvalidArgument
=============================================================================
