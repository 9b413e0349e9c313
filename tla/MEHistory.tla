----------------------------- MODULE MEHistory -----------------------------
(***************************************************************************)
(* matchengine/me_history.c: the rows of the histories are collected in    *)
(* one INSERT per table (dict_sql); every 0.1 s all of them become jobs of *)
(* the history threads (NwJob), which repeat an INSERT until MySQL takes   *)
(* it or says that a key of it is there already (error 1062).              *)
(***************************************************************************)
EXTENDS NwJob, TradeHistory

CONSTANTS MaxPendingHistory,    \* MAX_PENDING_HISTORY
          MaxLostAnswers        \* bound

VARIABLES dictSql,       \* table -> rows of the INSERT being collected, a partial function
          lostAnswers,   \* INSERTs that MySQL did, but whose answer was lost
          closing        \* "no"; "waiting" or "released": where fini_history is

historyVars == <<jobVars, tables, dictSql, lostAnswers, closing>>

HistoryInit ==
    /\ JobInit
    /\ tables = [t \in Tables |-> <<>>]
    /\ dictSql = <<>>
    /\ lostAnswers = 0
    /\ closing = "no"

-----------------------------------------------------------------------------
(* The rows, each with the table it goes to. *)

Row(kind, n, user, order) == [kind |-> kind, n |-> n, user |-> user, order |-> order]

AppendUserOrder(n, o) == Row("order_history", n, o.user, o.id)
AppendOrderDetail(n, o) == Row("order_detail", n, o.user, o.id)
AppendOrderDeal(n, o) == Row("deal_history", n, o.user, o.id)
AppendUserDeal(n, o) == Row("user_deal_history", n, o.user, o.id)
AppendUserBalance(n, u) == Row("balance_history", n, u, 0)

AppendOrderHistory(n, o) == <<AppendUserOrder(n, o), AppendOrderDetail(n, o)>>
AppendOrderDealHistory(n, ask, bid) ==
    <<AppendOrderDeal(n, ask), AppendOrderDeal(n, bid),
      AppendUserDeal(n, ask), AppendUserDeal(n, bid)>>

HashByUser(row) == <<row.kind, row.user % HistoryHash>>
TableOf(row) ==
    <<row.kind, (IF row.kind \in {"order_detail", "deal_history"} THEN row.order ELSE row.user)
                   % HistoryHash>>

\* get_sql, set_sql: the INSERT of each table gets its rows.
AppendRows(rows) ==
    LET collected(t) == IF t \in DOMAIN dictSql THEN dictSql[t] ELSE <<>>
        now == DOMAIN dictSql \cup {TableOf(rows[i]) : i \in DOMAIN rows}
    IN  dictSql' = [t \in now |-> collected(t) \o SelectSeq(rows, LAMBDA r : TableOf(r) = t)]

IsHistoryBlock == Len(request) >= MaxPendingHistory

-----------------------------------------------------------------------------

\* on_timer: one job per table, in the order of the dict.
Batches ==
    LET due == SelectSeq(TablesInOrder, LAMBDA t : t \in DOMAIN dictSql)
    IN  [i \in DOMAIN due |-> [table |-> due[i], rows |-> dictSql[due[i]]]]
FlushSql ==
    /\ request' = request \o Batches
    /\ dictSql' = <<>>
    /\ UNCHANGED <<running, reply, readable, loop, tables, lostAnswers>>
HistoryTimer ==
    /\ closing = "no" /\ DOMAIN dictSql # {}
    /\ FlushSql
    /\ UNCHANGED closing

\* MySQL refuses the whole INSERT for one row whose key is there.
Duplicate(e) ==
    /\ HasOrderId(e.table)
    /\ \E i \in DOMAIN e.rows, j \in DOMAIN tables[e.table] : tables[e.table][j].order = e.rows[i].order

Insert(e) == tables' = IF Duplicate(e) THEN tables
                       ELSE [tables EXCEPT ![e.table] = @ \o e.rows]

\* There is no on_finish: what goes back to the loop is only freed there, so the way
\* back (checked in Gateway) is left out.
JobFreed(t) ==
    /\ running' = [running EXCEPT ![t] = NoJob]
    /\ UNCHANGED <<request, reply, readable, loop>>

\* The thread is told that it is done, or that the key is there.
InsertDone(t) ==
    /\ running[t] # NoJob
    /\ Insert(running[t])
    /\ JobFreed(t)
    /\ UNCHANGED <<dictSql, lostAnswers, closing>>

\* The INSERT is done but its answer is lost: the thread repeats it.  (While MySQL
\* only refuses, the thread repeats without effect.)
AnswerLost(t) ==
    /\ running[t] # NoJob /\ lostAnswers < MaxLostAnswers
    /\ lostAnswers' = lostAnswers + 1
    /\ Insert(running[t])
    /\ UNCHANGED <<jobVars, dictSql, closing>>

OnJob(t) == InsertDone(t) \/ AnswerLost(t)

TakeInsert(t) ==
    /\ closing # "released"
    /\ TakeRequest(t)
    /\ UNCHANGED <<tables, dictSql, lostAnswers, closing>>

-----------------------------------------------------------------------------
(* fini_history: the last jobs are added, the threads get 0.1 s and are stopped.  *)

FiniHistory ==
    /\ closing = "no"
    /\ FlushSql
    /\ closing' = "waiting"

\* nw_job_release: a thread ends after the job it has; the rest of the list is freed.
NwJobRelease ==
    /\ closing = "waiting"
    /\ closing' = "released"
    /\ request' = <<>>
    /\ UNCHANGED <<running, reply, readable, loop, tables, dictSql, lostAnswers>>

HistoryStopped == closing = "released" /\ \A t \in Thread : running[t] = NoJob
=============================================================================
