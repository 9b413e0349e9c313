---------------------------- MODULE TradeHistory ----------------------------
(***************************************************************************)
(* The tables of the database trade_history (sql/create_trade_history.sql),*)
(* which the matchengine writes and readhistory reads.  Each kind of table *)
(* exists HistoryHash times.  A row is [kind, n, user, order]: n is the    *)
(* operation of the engine it comes from.  The ids of orders are given by  *)
(* the engine; the other tables number their rows.                         *)
(***************************************************************************)
EXTENDS Naturals, Sequences

CONSTANT HistoryHash     \* HISTORY_HASH_NUM

VARIABLE tables     \* <<kind, hash>> -> its rows, in the order they were inserted

Kinds == <<"balance_history", "order_history", "user_deal_history",
           "order_detail", "deal_history">>
TablesInOrder ==
    [i \in 1 .. Len(Kinds) * HistoryHash |-> <<Kinds[(i - 1) \div HistoryHash + 1], i % HistoryHash>>]
Tables == {TablesInOrder[i] : i \in DOMAIN TablesInOrder}

\* The tables whose primary key is the order's id.
HasOrderId(table) == table[1] \in {"order_history", "order_detail"}
=============================================================================
