------------------------------ MODULE MEOutput ------------------------------
(***************************************************************************)
(* What leaves the matchengine, and how it arrives: the rows of its        *)
(* histories (MEHistory) and its messages (MEMessage) on one side, the     *)
(* queries of readhistory (RHReader) and the consumers of accessws and     *)
(* marketprice (UtKafka) on the other.  The operations of the engine are   *)
(* those of MEMarket and MEPersist; here only the rows and messages each   *)
(* of them makes, in its order.                                            *)
(***************************************************************************)
EXTENDS MEHistory, MEMessage, RHReader, UtKafka

CONSTANTS Plans,      \* sequences of operations, one of which the engine is asked for
          PageSize    \* the page the client of readhistory asks for

VARIABLES plan,       \* the operations still asked for
          made        \* the operations done, in order

\* Each operation is one that Makes knows.
ASSUME OutputAssumption ==
    /\ Consumer \subseteq Topic
    /\ \A p \in Plans : /\ p \in Seq({p[i] : i \in DOMAIN p})
                       /\ \A i \in DOMAIN p : p[i].do \in {"update", "put", "cancel", "trade"}

vars == <<historyVars, messageVars, kafkaVars, plan, made>>

Init ==
    /\ HistoryInit /\ InitMessage /\ KafkaConsumerCreate
    /\ plan \in Plans
    /\ made = <<>>

-----------------------------------------------------------------------------
(* The operations.  An order is [user, id]. *)

\* append_order_history of the orders an operation finishes, the maker's first
FinishedRows(n, op) ==
    LET finished == SelectSeq(<<op.maker, op.taker>>, LAMBDA o : o.id \in op.finished)
        histories[i \in 0 .. Len(finished)] ==
            IF i = 0 THEN <<>> ELSE histories[i - 1] \o AppendOrderHistory(n, finished[i])
    IN  histories[Len(finished)]

UpdateMakes(n, op) ==
    [rows |-> <<AppendUserBalance(n, op.maker.user)>>, messages |-> <<PushBalanceMessage(n)>>]
PutMakes(n) == [rows |-> <<>>, messages |-> <<PushOrderMessage(n)>>]
CancelMakes(n, op) == [rows |-> FinishedRows(n, op), messages |-> <<PushOrderMessage(n)>>]
\* A deal without fees: the deal, what the taker and the maker give and get, and the two orders
TradeMakes(n, op) ==
    LET paid(o) == <<AppendUserBalance(n, o.user), AppendUserBalance(n, o.user)>>
    IN  [rows |-> AppendOrderDealHistory(n, op.maker, op.taker)
                    \o paid(op.taker) \o paid(op.maker) \o FinishedRows(n, op),
         messages |-> <<PushDealMessage(n), PushOrderMessage(n), PushOrderMessage(n)>>]

Makes(n, op) ==
    CASE op.do = "update" -> UpdateMakes(n, op)
      [] op.do = "put"    -> PutMakes(n)
      [] op.do = "cancel" -> CancelMakes(n, op)
      [] op.do = "trade"  -> TradeMakes(n, op)
Rows(n, op) == Makes(n, op).rows
Messages(n, op) == Makes(n, op).messages

\* svr_on_recv_pkg answers "service unavailable" while an output is blocked.
Operate ==
    LET n == Len(made) + 1
    IN  /\ closing = "no" /\ plan # <<>>
        /\ ~IsHistoryBlock /\ ~IsMessageBlock
        /\ AppendRows(Rows(n, Head(plan)))
        /\ PushMessages(Messages(n, Head(plan)))
        /\ made' = Append(made, Head(plan))
        /\ plan' = Tail(plan)
        /\ UNCHANGED <<jobVars, tables, lostAnswers, closing, kafkaVars>>

History ==
    /\ \/ HistoryTimer
       \/ \E t \in Thread : TakeInsert(t) \/ OnJob(t)
    /\ UNCHANGED <<messageVars, kafkaVars, plan, made>>

\* fini_message comes before fini_history; the flush that follows has one second.
Stop ==
    /\ FiniHistory \/ NwJobRelease
    /\ UNCHANGED <<messageVars, kafkaVars, plan, made>>

Producer ==
    /\ (closing = "no" /\ MessageTimer) \/ Delivered \/ DeliveryFails
    /\ UNCHANGED <<historyVars, kafkaVars, plan, made>>

Consumers ==
    /\ \E c \in Consumer : ThreadRoutine(c, log[c]) \/ OnCanRead(c) \/ Callback(c) \/ ListEmpty(c)
    /\ UNCHANGED <<historyVars, messageVars, plan, made>>

Next == Operate \/ History \/ Stop \/ Producer \/ Consumers

\* Timers fire, threads run, the producer hands over its queue.
Spec ==
    /\ Init /\ [][Next]_vars
    /\ WF_vars(HistoryTimer /\ UNCHANGED <<messageVars, kafkaVars, plan, made>>)
    /\ \A t \in Thread :
        WF_vars((TakeInsert(t) \/ InsertDone(t)) /\ UNCHANGED <<messageVars, kafkaVars, plan, made>>)
    /\ WF_vars(closing = "no" /\ MessageTimer /\ UNCHANGED <<historyVars, kafkaVars, plan, made>>)
    /\ WF_vars(Delivered /\ UNCHANGED <<historyVars, kafkaVars, plan, made>>)
    /\ WF_vars(Consumers)

-----------------------------------------------------------------------------

\* A client pages through a list of readhistory, to its end.
Paged(OnCmd(_, _)) ==
    LET rows[i \in Nat] ==
            LET page == OnCmd(i * PageSize, PageSize)
            IN  IF page = <<>> THEN <<>> ELSE page \o rows[i + 1]
    IN  rows[0]

\* The rows a client finds where the kind of row r is listed.
Found(r) ==
    CASE r.kind = "balance_history"   -> Paged(LAMBDA i, k : OnCmdBalanceHistory(r.user, i, k))
      [] r.kind = "order_history"     -> Paged(LAMBDA i, k : OnCmdOrderHistory(r.user, i, k))
      [] r.kind = "user_deal_history" -> Paged(LAMBDA i, k : OnCmdMarketDeals(r.user, i, k))
      [] r.kind = "deal_history"      -> Paged(LAMBDA i, k : OnCmdOrderDeals(r.order, i, k))
      [] r.kind = "order_detail"      -> <<OnCmdOrderDetailFinished(r.order)>>

Times(r, rows) == Cardinality({i \in DOMAIN rows : rows[i] = r})
MadeRows == UNION {LET rows == Rows(n, made[n]) IN {<<rows[i], Times(rows[i], rows)>> : i \in DOMAIN rows}
                     : n \in DOMAIN made}

\* While the engine is not stopped, every row it makes is found by the query for it, as
\* often as it was made: the two sides agree on the table, no INSERT is left behind by
\* the threads, and none is refused (on_job of me_history.c, rh_reader.c).
EveryRowFound == <>[](closing # "no" \/ \A r \in MadeRows : Times(r[1], Found(r[1])) >= r[2])

\* A consumer is given the messages of its topic in the order the engine made them,
\* whatever went through the list of the topic (push_message, produce_list, ut_kafka.c).
ConsumedInOrder ==
    \A c \in Consumer : \A i, j \in DOMAIN handled[c] : i < j => handled[c][i].n <= handled[c][j].n

\* Every message is consumed, except those refused by rd_kafka_produce and those given up.
EveryMessageConsumed ==
    <>[](closing # "no" \/
          \A n \in DOMAIN made : \A i \in DOMAIN Messages(n, made[n]) :
            LET m == Messages(n, made[n])[i]
            IN  \/ m \in Refused \cup givenUp
                \/ Times(m, handled[m.topic]) = Times(m, Messages(n, made[n])))
=============================================================================
