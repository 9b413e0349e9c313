------------------------------ MODULE MEServer ------------------------------
(***************************************************************************)
(* The answers of the matchengine's commands (me_server.c), over the       *)
(* market and the balances of MEMarket.  A command is answered between two *)
(* handlers, so its answer is a function of an idle state.  An answer is   *)
(* an error or a value; the orders in it are records as get_order_info     *)
(* makes them.  The depth of a book is in AWDepth, and what is logged of   *)
(* the commands that change something in MEPersist.                        *)
(***************************************************************************)
EXTENDS MEMarket, Sequences


CONSTANTS
    ShowGrain,      \* asset -> 10^-prec_show in the units of its balances
    ListMax         \* ORDER_LIST_MAX_LEN, ORDER_BOOK_MAX_LEN

ASSUME ShowAssumption ==
    \A a \in Assets : ShowGrain[a] \in Nat \ {0} /\ ShowGrain[a] % Grain(a) = 0
ASSUME ListMaxAssumption == ListMax \in Nat \ {0}

Invalid == "invalid argument"
Null == NoOrder    \* json_null

\* order_id_compare: the list of a user's orders starts with the newest
NewestFirst(i, j) == i > j

BestFirst(i, j) == MatchesBefore(orders[i], orders[j])

\* A skiplist of orders under its comparison
Listed(S, Before(_, _)) ==
    [k \in 1 .. Cardinality(S) |-> CHOOSE i \in S : Cardinality({j \in S : Before(j, i)}) = k - 1]

\* The loops of on_cmd_order_query and on_cmd_order_book: `offset' nodes are passed over,
\* and then up to `limit' are taken.

\* Mutant: the node that ends the first loop is lost.
PageAfterNext(list, offset, limit) ==
    IF offset < Len(list)
    THEN SubSeq(list, offset + (IF offset > 0 THEN 2 ELSE 1), Smaller(offset + limit, Len(list)))
    ELSE << >>

Page(list, offset, limit) ==
    IF offset < Len(list)
    THEN SubSeq(list, offset + 1, Smaller(offset + limit, Len(list)))
    ELSE << >>

\* What an order is answered as: all of it but what it holds frozen
Info(i) == [f \in DOMAIN orders[i] \ {"freeze"} |-> orders[i][f]]
Infos(page) == [k \in DOMAIN page |-> Info(page[k])]

OnCmdOrderQuery(u, offset, limit) ==
    IF limit > ListMax THEN Invalid
    ELSE LET list == Listed(users[u], NewestFirst)
         IN  [total |-> Len(list), records |-> Infos(Page(list, offset, limit))]

OnCmdOrderBook(side, offset, limit) ==
    IF limit > ListMax THEN Invalid
    ELSE LET list == Listed(Book(side), BestFirst)
         IN  [total |-> Len(list), orders |-> Infos(Page(list, offset, limit))]

OnCmdOrderDetail(i) == IF i \in OpenOrders THEN Info(i) ELSE Null

-----------------------------------------------------------------------------
(* Balances and totals *)

Shown(a, x) == (x \div ShowGrain[a]) * ShowGrain[a]

OnCmdBalanceQuery(u) ==
    [a \in Assets |-> [available |-> Shown(a, balance[<<u, "AVAILABLE", a>>]),
                       freeze |-> Shown(a, balance[<<u, "FREEZE", a>>])]]

\* balance_status goes through all entries of dict_balance; there is none for a zero.
BalanceStatus(a) ==
    LET entries == {k \in BalanceKeys : k[3] = a /\ balance[k] > 0}
        of(t) == {k \in entries : k[2] = t}
        sum(S) == SumFunctionOnSet(balance, S)
    IN  [total_balance |-> sum(entries),
         available_count |-> Cardinality(of("AVAILABLE")), available_balance |-> sum(of("AVAILABLE")),
         freeze_count |-> Cardinality(of("FREEZE")), freeze_balance |-> sum(of("FREEZE"))]
OnCmdAssetSummary == [a \in Assets |-> BalanceStatus(a)]

\* market_get_status
OnCmdMarketSummary ==
    [ask_count |-> Cardinality(asks), ask_amount |-> SumFunction([i \in asks |-> orders[i].left]),
     bid_count |-> Cardinality(bids), bid_amount |-> SumFunction([i \in bids |-> orders[i].left])]

-----------------------------------------------------------------------------
(* Whether an order is taken *)

Covers(u, a, x) == balance[<<u, "AVAILABLE", a>>] >= x * FeeOne

OnCmdOrderPutLimit(u, side, amount, price) ==
    CASE ~Covers(u, Gives(side), Value(Gives(side), price, amount)) -> "balance not enough"
      [] amount < MinAmount -> "amount too small"
      [] OTHER -> "taken"

\* A market bid gives its amount in money; it must buy min_amount at the best price.
Given(side, amount) == IF side = "ASK" THEN amount ELSE amount * PriceOne
Least(side) == IF side = "ASK" THEN MinAmount ELSE orders[Listed(asks, BestFirst)[1]].price * MinAmount
OnCmdOrderPutMarket(u, side, amount) ==
    IF ~Covers(u, Gives(side), Given(side, amount)) THEN "balance not enough"
    ELSE IF Opposite(side) = {} THEN "no enough trader"
    ELSE IF Given(side, amount) < Least(side) THEN "amount too small"
    ELSE "taken"

-----------------------------------------------------------------------------
(* Properties *)

\* The records of all pages of a length, in their order
Paged(Answer(_), total, length) ==
    LET pages[k \in 0 .. total] == IF k * length >= total THEN << >> ELSE Answer(k * length) \o pages[k + 1]
    IN  pages[0]
OrdersOf(u, length) ==
    Paged(LAMBDA offset : OnCmdOrderQuery(u, offset, length).records, OnCmdOrderQuery(u, 0, 0).total, length)
BookOf(side, length) ==
    Paged(LAMBDA offset : OnCmdOrderBook(side, offset, length).orders, OnCmdOrderBook(side, 0, 0).total, length)
Members(s) == {s[k] : k \in DOMAIN s}

\* What an answered order must hold of an asset, in the units of balances
Holds(o, a) == IF Gives(o.side) = a THEN Value(a, o.price, o.left) * FeeOne ELSE 0

\* What a client is shown tells whether its order is taken: not refused for a balance that
\* balance.query covers, and for want of a trader just when the other side's book is empty.
RefusedAsShown(u, side, amount) ==
    LET shown == OnCmdBalanceQuery(u)[Gives(side)].available
        answer == OnCmdOrderPutMarket(u, side, amount)
        others == OnCmdOrderBook(IF side = "ASK" THEN "BID" ELSE "ASK", 0, 0).total
    IN  /\ answer = "balance not enough" => shown < Given(side, amount) * FeeOne
        /\ answer = "no enough trader" => others = 0
        /\ answer = "taken" => others > 0
        /\ \A price \in Prices :
              OnCmdOrderPutLimit(u, side, amount, price) = "balance not enough"
              => shown < Value(Gives(side), price, amount) * FeeOne

\* What the commands answer fits together, however a client cuts its pages: a user's order.query
\* pages hold, newest first, exactly the user's orders of the order.book pages, which are in
\* matching order; order.detail knows these orders and no others; the frozen balance of
\* balance.query is what they hold; market.summary and asset.summary are the sums over the pages
\* and over the users; and an order is refused as RefusedAsShown says (on_cmd_order_query, on_cmd_order_book, on_cmd_order_detail,
\* on_cmd_balance_query, on_cmd_order_put_limit, on_cmd_order_put_market, balance_status,
\* market_get_status).
AnswersFitTogether ==
    Idle => \A length \in 1 .. ListMax :
        LET book_of == [side \in Sides |-> BookOf(side, length)]
            all == Members(book_of["ASK"]) \cup Members(book_of["BID"])
            of == [u \in Users |-> OrdersOf(u, length)]
            sums == OnCmdAssetSummary
        IN  /\ \A side \in Sides : \A k, l \in DOMAIN book_of[side] :
                  k < l => MatchesBefore(book_of[side][k], book_of[side][l])
            /\ \A u \in Users :
                  /\ Members(of[u]) = {o \in all : o.user_id = u}
                  /\ \A k, l \in DOMAIN of[u] : k < l => of[u][k].id > of[u][l].id
                  /\ \A a \in Assets :
                        OnCmdBalanceQuery(u)[a].freeze = Shown(a, SumFunction([o \in Members(of[u]) |-> Holds(o, a)]))
            /\ \A u \in Users, side \in Sides, amount \in Amounts : RefusedAsShown(u, side, amount)
            /\ \A i \in OrderIds : OnCmdOrderDetail(i) \in all \cup {Null}
            /\ \A o \in all : OnCmdOrderDetail(o.id) = o
            /\ OnCmdMarketSummary =
                  [ask_count |-> Len(book_of["ASK"]), ask_amount |-> SumFunction([o \in Members(book_of["ASK"]) |-> o.left]),
                   bid_count |-> Len(book_of["BID"]), bid_amount |-> SumFunction([o \in Members(book_of["BID"]) |-> o.left])]
            /\ \A a \in Assets :
                  /\ sums[a].freeze_balance = SumFunction([o \in all |-> Holds(o, a)])
                  /\ sums[a].total_balance = sums[a].available_balance + sums[a].freeze_balance
                  /\ sums[a].available_balance >= SumFunction([u \in Users |-> OnCmdBalanceQuery(u)[a].available])
=============================================================================
