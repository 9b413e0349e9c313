------------------------------ MODULE MEMarket ------------------------------
(***************************************************************************)
(* The matching core of matchengine: one market (me_market.c) over the     *)
(* balance dictionary of its users (me_balance.c).                         *)
(*                                                                         *)
(* The engine is a single-threaded event loop: a handler runs to its end   *)
(* before the next one starts.  A handler that matches an order loops over *)
(* the opposite book, and the model takes one step per iteration, so that  *)
(* what the loop relies on (the iterator, the taker's funds, the order of  *)
(* the updates) can be stated between two iterations.  While `taker' holds *)
(* an order no other handler can start.                                    *)
(*                                                                         *)
(* Units.  An amount is a whole number of steps of 10^-stock_prec and a    *)
(* price one of 10^-money_prec.  Balances are finer, because a fee is a    *)
(* fraction rate / FeeOne of what is received: a stock balance counts      *)
(* steps * FeeOne, a money balance (price * step) * FeeOne.                *)
(***************************************************************************)
EXTENDS Integers, FiniteSets, FiniteSetsExt, Functions

CONSTANTS
    Users,          \* user ids
    Prices,         \* prices of limit orders (put_limit rejects price <= 0)
    Amounts,        \* amounts of orders (put_limit/put_market reject <= 0)
    Fees,           \* pairs <<taker_fee, maker_fee>> of numerators over FeeOne
    FeeOne,         \* 10^fee_prec
    PriceOne,       \* 10^money_prec: a market bid's amount is an amount of money
    MoneyGrain,     \* 10^-prec_save(money) in money units; 1 when fees are exact
    MinAmount,      \* market_t.min_amount
    InitBalance,    \* balances the engine starts from (load_balance)
    Changes,        \* pairs <<asset, change>> of balance.update
    MaxOrders,      \* bound on order_id_start
    MaxUpdates      \* bound on the number of balance.update calls

Assets == {"stock", "money"}
BalanceTypes == {"AVAILABLE", "FREEZE"}
BalanceKeys == Users \X BalanceTypes \X Assets
Sides == {"ASK", "BID"}
OrderIds == 1..MaxOrders

\* me_config.c and the parameter checks of me_server.c
ASSUME UsersAssumption == IsFiniteSet(Users)
ASSUME PricesAssumption == Prices \subseteq Nat \ {0}
ASSUME AmountsAssumption == Amounts \subseteq Nat \ {0}
ASSUME FeesAssumption ==
    /\ FeeOne \in Nat \ {0}
    /\ Fees \subseteq (0..(FeeOne - 1)) \X (0..(FeeOne - 1))
ASSUME PriceOneAssumption == PriceOne \in Nat \ {0}
ASSUME BoundsAssumption ==
    MaxOrders \in Nat /\ MaxUpdates \in Nat /\ MinAmount \in Nat
\* market_create checks that a price * amount is exact at prec_save(money).
ASSUME GrainAssumption ==
    /\ MoneyGrain \in Nat \ {0}
    /\ \E k \in 1..FeeOne : FeeOne = k * MoneyGrain
\* Balances are kept at prec_save, and changes come at prec_show <= prec_save.
ASSUME InitBalanceAssumption ==
    /\ InitBalance \in [BalanceKeys -> Nat]
    /\ \A u \in Users, a \in Assets : InitBalance[<<u, "FREEZE", a>>] = 0
    /\ \A k \in BalanceKeys : k[3] = "money" => InitBalance[k] % MoneyGrain = 0
ASSUME ChangesAssumption ==
    /\ Changes \subseteq Assets \X Int
    /\ \A c \in Changes : c[1] = "money" => c[2] % MoneyGrain = 0

VARIABLES
    balance,         \* dict_balance; 0 stands for "no entry"
    orders,          \* market_t.orders: id -> order_t
    users,           \* market_t.users: user id -> ids of its order list
    asks, bids,      \* market_t.asks, market_t.bids: ids of the two books
    order_id_start,  \* the last order id given out
    deals_id_start,  \* the last deal id given out
    taker,           \* the order being executed, NoOrder between handlers
    iter,            \* skiplist_iter.next of the loop: an id, 0 for NULL
    balance_history, \* user id, asset -> sum of the changes appended
    order_history,   \* id -> rows appended by append_order_history
    deal_history,    \* ids named by rows of append_order_deal_history
    order_event,     \* id -> last event of push_order_message
    updates          \* number of balance.update calls so far

book == <<orders, users, asks, bids>>
records == <<balance_history, order_history, deal_history, order_event>>
vars == <<balance, book, order_id_start, deals_id_start, taker, iter, records,
          updates>>

-----------------------------------------------------------------------------
(* me_balance.c *)

Grain(a) == IF a = "stock" THEN 1 ELSE MoneyGrain

\* mpd_rescale to prec_save under MPD_ROUND_DOWN
Rescale(a, x) == (x \div Grain(a)) * Grain(a)

BalanceAdd(b, u, t, a, x) ==
    [b EXCEPT ![<<u, t, a>>] = Rescale(a, b[<<u, t, a>>] + x)]

\* Returns NULL and changes nothing when the balance is too small.
BalanceSub(b, u, t, a, x) ==
    IF b[<<u, t, a>>] < x
    THEN b
    ELSE [b EXCEPT ![<<u, t, a>>] = Rescale(a, b[<<u, t, a>>] - x)]

CanFreeze(b, u, a, x) == b[<<u, "AVAILABLE", a>>] >= x

BalanceFreeze(b, u, a, x) ==
    IF CanFreeze(b, u, a, x)
    THEN BalanceSub(BalanceAdd(b, u, "FREEZE", a, x), u, "AVAILABLE", a, x)
    ELSE b

CanUnfreeze(b, u, a, x) == b[<<u, "FREEZE", a>>] >= x

\* Mutant: the frozen entry is not reduced.
UnfreezeKeepsFrozen(b, u, a, x) ==
    IF CanUnfreeze(b, u, a, x) THEN BalanceAdd(b, u, "AVAILABLE", a, x) ELSE b

BalanceUnfreeze(b, u, a, x) ==
    IF CanUnfreeze(b, u, a, x)
    THEN BalanceSub(BalanceAdd(b, u, "AVAILABLE", a, x), u, "FREEZE", a, x)
    ELSE b

-----------------------------------------------------------------------------
(* Orders and the two books *)

Order == [id : OrderIds, type : {"LIMIT", "MARKET"}, side : Sides, user_id : Users,
          price : Nat, amount : Nat, taker_fee : 0..(FeeOne - 1),
          maker_fee : 0..(FeeOne - 1), left : Nat, freeze : Nat,
          deal_stock : Nat, deal_money : Nat, deal_fee : Nat]

NoOrder == [id |-> 0]
Idle == taker = NoOrder

Gives(side) == IF side = "ASK" THEN "stock" ELSE "money"
Gets(side) == IF side = "ASK" THEN "money" ELSE "stock"

\* What `amount' steps at `price' are worth in an asset.
Value(a, price, amount) == IF a = "stock" THEN amount ELSE price * amount

\* order_match_compare: price, then age
MatchesBefore(o, p) ==
    \/ o.side = "ASK" /\ o.price < p.price
    \/ o.side = "BID" /\ o.price > p.price
    \/ o.price = p.price /\ o.id < p.id

\* Mutant: the list is sorted by age only.
FrontByAge(S) ==
    IF S = {} THEN {0} ELSE {i \in S : \A j \in S \ {i} : i < j}

\* The node a traversal of the list S meets first: a set of one id, 0 is NULL.
Front(S) ==
    IF S = {} THEN {0}
    ELSE {i \in S : \A j \in S \ {i} : MatchesBefore(orders[i], orders[j])}

\* node->forward[0]
After(S, i) == {j \in S : MatchesBefore(orders[i], orders[j])}

Book(side) == IF side = "ASK" THEN asks ELSE bids
Opposite(side) == IF side = "ASK" THEN bids ELSE asks

OpenOrders == DOMAIN orders

Drop(f, i) == [j \in DOMAIN f \ {i} |-> f[j]]

\* order_put: balance_freeze comes last, and its failure undoes nothing.
OrderPut(o) ==
    LET give == Gives(o.side)
        need == Value(give, o.price, o.left)
    IN  /\ orders' = [j \in OpenOrders \cup {o.id} |->
                         IF j = o.id THEN [o EXCEPT !.freeze = need] ELSE orders[j]]
        /\ users' = [users EXCEPT ![o.user_id] = @ \cup {o.id}]
        /\ asks' = IF o.side = "ASK" THEN asks \cup {o.id} ELSE asks
        /\ bids' = IF o.side = "BID" THEN bids \cup {o.id} ELSE bids
        /\ balance' = BalanceFreeze(balance, o.user_id, give, need * FeeOne)

\* Mutant: the order stays in the list of its user.
FinishKeepsUser(o, b) ==
    LET give == Gives(o.side)
    IN  /\ asks' = asks \ {o.id} /\ bids' = bids \ {o.id}
        /\ balance' = BalanceUnfreeze(b, o.user_id, give, o.freeze * FeeOne)
        /\ orders' = Drop(orders, o.id)
        /\ users' = users
        /\ order_history' = IF o.deal_stock > 0
                            THEN [order_history EXCEPT ![o.id] = @ + 1]
                            ELSE order_history

\* Mutant: the history row of a traded maker is not written.
FinishWithoutRow(o, b) ==
    LET give == Gives(o.side)
    IN  /\ asks' = asks \ {o.id} /\ bids' = bids \ {o.id}
        /\ balance' = BalanceUnfreeze(b, o.user_id, give, o.freeze * FeeOne)
        /\ orders' = Drop(orders, o.id)
        /\ users' = [users EXCEPT ![o.user_id] = @ \ {o.id}]
        /\ order_history' = order_history

\* order_finish of o, from balances b.  When balance_unfreeze fails it returns
\* early: the order has left its book but is still in orders and users.
OrderFinish(o, b) ==
    LET give == Gives(o.side)
        ok == o.freeze = 0 \/ CanUnfreeze(b, o.user_id, give, o.freeze * FeeOne)
    IN  /\ asks' = IF o.side = "ASK" THEN asks \ {o.id} ELSE asks
        /\ bids' = IF o.side = "BID" THEN bids \ {o.id} ELSE bids
        /\ balance' = IF o.freeze > 0
                      THEN BalanceUnfreeze(b, o.user_id, give, o.freeze * FeeOne)
                      ELSE b
        /\ orders' = IF ok THEN Drop(orders, o.id) ELSE [orders EXCEPT ![o.id] = o]
        /\ users' = IF ok THEN [users EXCEPT ![o.user_id] = @ \ {o.id}] ELSE users
        /\ order_history' = IF ok /\ o.deal_stock > 0
                            THEN [order_history EXCEPT ![o.id] = @ + 1]
                            ELSE order_history

-----------------------------------------------------------------------------
(* One deal between the taker and a maker *)

\* Mutant: the fee is recorded but not taken.
TradeWithoutFee(b, u, t, side, price, amount, rate) ==
    LET give == Gives(side)
        get == Gets(side)
        paid == BalanceSub(b, u, t, give, Value(give, price, amount) * FeeOne)
    IN  BalanceAdd(paid, u, "AVAILABLE", get, Value(get, price, amount) * FeeOne)

\* One party's side of a deal: it pays `pay' from its balance of type t and
\* receives `get' less the fee.  The results of balance_sub are not checked.
Trade(b, u, t, side, price, amount, rate) ==
    LET give == Gives(side)
        get == Gets(side)
        paid == BalanceSub(b, u, t, give, Value(give, price, amount) * FeeOne)
        got == BalanceAdd(paid, u, "AVAILABLE", get, Value(get, price, amount) * FeeOne)
        fee == Value(get, price, amount) * rate
    IN  IF fee > 0 THEN BalanceSub(got, u, "AVAILABLE", get, fee) ELSE got

\* The balance history rows of one party: minus what it gives, plus what it
\* gets, minus the fee; appended whether or not the balances changed.
TradeHistory(h, u, side, price, amount, rate) ==
    [h EXCEPT
        ![<<u, Gives(side)>>] = @ - Value(Gives(side), price, amount) * FeeOne,
        ![<<u, Gets(side)>>] = @ + Value(Gets(side), price, amount) * (FeeOne - rate)]

\* Mutant: the maker's freeze is not reduced.
FilledStillFrozen(o, used, unfrozen, price, amount, rate) ==
    [o EXCEPT !.left = @ - used,
              !.deal_stock = @ + amount,
              !.deal_money = @ + price * amount,
              !.deal_fee = @ + Value(Gets(o.side), price, amount) * rate]

\* The order after the deal; `used' is what the deal takes from left.
Filled(o, used, unfrozen, price, amount, rate) ==
    [o EXCEPT !.left = @ - used,
              !.freeze = @ - unfrozen,
              !.deal_stock = @ + amount,
              !.deal_money = @ + price * amount,
              !.deal_fee = @ + Value(Gets(o.side), price, amount) * rate]

\* The balances after both sides of a deal, the taker's first
DealtBalance(amount) ==
    LET maker == orders[iter]
    IN  Trade(Trade(balance, taker.user_id, "AVAILABLE", taker.side, maker.price,
                    amount, taker.taker_fee),
              maker.user_id, "FREEZE", maker.side, maker.price, amount,
              maker.maker_fee)

DealtMaker(amount) ==
    LET maker == orders[iter]
    IN  Filled(maker, amount, Value(Gives(maker.side), maker.price, amount),
               maker.price, amount, maker.maker_fee)

\* The body of the execute_*_order loops for the maker under the iterator.
\* skiplist_next has moved the iterator on before the body runs.
Deal(amount, used) ==
    LET maker == orders[iter]
        m == DealtMaker(amount)
    IN  /\ iter' \in Front(After(Opposite(taker.side), iter))
        /\ deals_id_start' = deals_id_start + 1
        /\ taker' = Filled(taker, used, 0, maker.price, amount, taker.taker_fee)
        /\ balance_history' =
              TradeHistory(TradeHistory(balance_history, taker.user_id,
                               taker.side, maker.price, amount, taker.taker_fee),
                           maker.user_id, maker.side, maker.price, amount,
                           maker.maker_fee)
        /\ deal_history' = deal_history \cup {taker.id, maker.id}
        /\ IF m.left = 0
           THEN /\ OrderFinish(m, DealtBalance(amount))
                /\ order_event' = [order_event EXCEPT ![m.id] = "FINISH"]
           ELSE /\ balance' = DealtBalance(amount)
                /\ orders' = [orders EXCEPT ![m.id] = m]
                /\ order_event' = [order_event EXCEPT ![m.id] = "UPDATE"]
                /\ UNCHANGED <<users, asks, bids, order_history>>
        /\ UNCHANGED <<order_id_start, updates>>

\* Mutant: the comparison is the wrong way round.
Larger(x, y) == IF x < y THEN y ELSE x

Smaller(x, y) == IF x < y THEN x ELSE y

\* Mutant: equal prices do not match.
CrossesStrictly(o, p) ==
    IF o.side = "ASK" THEN o.price < p.price ELSE o.price > p.price

\* taker->price against maker->price
Crosses(o, p) == IF o.side = "ASK" THEN o.price <= p.price ELSE o.price >= p.price

\* The steps of amount a market bid can still pay for at the maker's price.
Affordable == taker.left \div orders[iter].price

\* The loop goes on: a node is left, the taker is not filled and, for a limit
\* order, the prices cross; for a market bid a step is still affordable.
LimitMatches == iter # 0 /\ taker.left > 0 /\ Crosses(taker, orders[iter])
MarketAskMatches == iter # 0 /\ taker.left > 0
MarketBidMatches ==
    iter # 0 /\ taker.left > 0 /\ Smaller(Affordable, orders[iter].left) > 0

\* execute_limit_ask_order and execute_limit_bid_order, one iteration
ExecuteLimitAskOrder ==
    /\ ~Idle /\ taker.type = "LIMIT" /\ taker.side = "ASK"
    /\ LimitMatches
    /\ LET amount == Smaller(taker.left, orders[iter].left)
       IN  Deal(amount, amount)

ExecuteLimitBidOrder ==
    /\ ~Idle /\ taker.type = "LIMIT" /\ taker.side = "BID"
    /\ LimitMatches
    /\ LET amount == Smaller(taker.left, orders[iter].left)
       IN  Deal(amount, amount)

\* execute_market_ask_order, one iteration
ExecuteMarketAskOrder ==
    /\ ~Idle /\ taker.type = "MARKET" /\ taker.side = "ASK"
    /\ MarketAskMatches
    /\ LET amount == Smaller(taker.left, orders[iter].left)
       IN  Deal(amount, amount)

\* execute_market_bid_order, one iteration: left counts money
ExecuteMarketBidOrder ==
    /\ ~Idle /\ taker.type = "MARKET" /\ taker.side = "BID"
    /\ MarketBidMatches
    /\ LET amount == Smaller(Affordable, orders[iter].left)
       IN  Deal(amount, orders[iter].price * amount)

-----------------------------------------------------------------------------
(* The handlers *)

NewOrder(type, side, u, price, amount, fees) ==
    [id |-> order_id_start + 1, type |-> type, side |-> side, user_id |-> u,
     price |-> price, amount |-> amount, taker_fee |-> fees[1],
     maker_fee |-> fees[2], left |-> amount, freeze |-> 0, deal_stock |-> 0,
     deal_money |-> 0, deal_fee |-> 0]

\* Create the order and start the loop over the opposite book.
StartExecution(order) ==
    /\ order_id_start' = order_id_start + 1
    /\ taker' = order
    /\ iter' \in Front(Opposite(order.side))
    /\ UNCHANGED <<balance, book, deals_id_start, records, updates>>

\* Mutant: a bid is checked against its amount instead of amount * price.
PutLimitChecksAmount(u, side, amount, price, fees) ==
    /\ Idle /\ order_id_start < MaxOrders
    /\ balance[<<u, "AVAILABLE", Gives(side)>>] >= amount * FeeOne
    /\ amount >= MinAmount
    /\ StartExecution(NewOrder("LIMIT", side, u, price, amount, fees))

\* market_put_limit_order up to the loop; -1 (balance) and -2 (min_amount)
\* return before anything changes.
PutLimitOrder(u, side, amount, price, fees) ==
    /\ Idle /\ order_id_start < MaxOrders
    /\ balance[<<u, "AVAILABLE", Gives(side)>>]
          >= Value(Gives(side), price, amount) * FeeOne
    /\ amount >= MinAmount
    /\ StartExecution(NewOrder("LIMIT", side, u, price, amount, fees))

\* market_put_market_order up to the loop; -1 (balance), -3 (no opposite
\* order) and -2 (too small) return before anything changes.
PutMarketOrder(u, side, amount, fees) ==
    LET given == IF side = "ASK" THEN amount ELSE amount * PriceOne
    IN  /\ Idle /\ order_id_start < MaxOrders
        /\ balance[<<u, "AVAILABLE", Gives(side)>>] >= given * FeeOne
        /\ Opposite(side) # {}
        /\ \/ side = "ASK" /\ amount >= MinAmount
           \/ side = "BID" /\ \E best \in Front(asks) :
                                  given >= orders[best].price * MinAmount
        /\ StartExecution(NewOrder("MARKET", side, u, 0, given, <<fees[1], 0>>))

\* market_put_limit_order after the loop, nothing left: the order is over.
FinishLimitOrder ==
    /\ ~Idle /\ taker.type = "LIMIT" /\ taker.left = 0
    /\ order_history' = [order_history EXCEPT ![taker.id] = @ + 1]
    /\ order_event' = [order_event EXCEPT ![taker.id] = "FINISH"]
    /\ taker' = NoOrder /\ iter' = 0
    /\ UNCHANGED <<balance, book, order_id_start, deals_id_start,
                   balance_history, deal_history, updates>>

\* market_put_limit_order after the loop, something left: the order is
\* announced and then put in its book.
PlaceLimitOrder ==
    /\ ~Idle /\ taker.type = "LIMIT" /\ taker.left > 0
    /\ ~LimitMatches
    /\ order_event' = [order_event EXCEPT ![taker.id] = "PUT"]
    /\ OrderPut(taker)
    /\ taker' = NoOrder /\ iter' = 0
    /\ UNCHANGED <<order_id_start, deals_id_start, balance_history,
                   order_history, deal_history, updates>>

\* market_put_market_order after the loop: what is left is dropped.
FinishMarketOrder ==
    /\ ~Idle /\ taker.type = "MARKET"
    /\ IF taker.side = "ASK" THEN ~MarketAskMatches ELSE ~MarketBidMatches
    /\ order_history' = [order_history EXCEPT ![taker.id] = @ + 1]
    /\ order_event' = [order_event EXCEPT ![taker.id] = "FINISH"]
    /\ taker' = NoOrder /\ iter' = 0
    /\ UNCHANGED <<balance, book, order_id_start, deals_id_start,
                   balance_history, deal_history, updates>>

\* market_cancel_order, for an order market_get_order finds
CancelOrder(i) ==
    /\ Idle /\ i \in OpenOrders
    /\ order_event' = [order_event EXCEPT ![i] = "FINISH"]
    /\ OrderFinish(orders[i], balance)
    /\ UNCHANGED <<order_id_start, deals_id_start, taker, iter,
                   balance_history, deal_history, updates>>

\* The effect of update_user_balance on an update that is not a repetition;
\* -2 (balance not enough) changes nothing.
UpdateUserBalance(u, a, change) ==
    /\ Idle /\ updates < MaxUpdates
    /\ change < 0 => balance[<<u, "AVAILABLE", a>>] >= -change
    /\ balance' = IF change >= 0
                  THEN BalanceAdd(balance, u, "AVAILABLE", a, change)
                  ELSE BalanceSub(balance, u, "AVAILABLE", a, -change)
    /\ balance_history' = [balance_history EXCEPT ![<<u, a>>] = @ + change]
    /\ updates' = updates + 1
    /\ UNCHANGED <<book, order_id_start, deals_id_start, taker, iter,
                   order_history, deal_history, order_event>>

Init ==
    /\ balance = InitBalance
    /\ orders = [i \in {} |-> NoOrder]
    /\ users = [u \in Users |-> {}]
    /\ asks = {} /\ bids = {}
    /\ order_id_start = 0 /\ deals_id_start = 0
    /\ taker = NoOrder /\ iter = 0
    /\ balance_history = [k \in Users \X Assets |-> InitBalance[<<k[1], "AVAILABLE", k[2]>>]]
    /\ order_history = [i \in OrderIds |-> 0]
    /\ deal_history = {}
    /\ order_event = [i \in OrderIds |-> "NONE"]
    /\ updates = 0

\* The loop and what market_put_*_order does after it
Execute ==
    \/ ExecuteLimitAskOrder \/ ExecuteLimitBidOrder
    \/ ExecuteMarketAskOrder \/ ExecuteMarketBidOrder
    \/ FinishLimitOrder \/ PlaceLimitOrder \/ FinishMarketOrder

Request ==
    \/ \E u \in Users, side \in Sides, amount \in Amounts, fees \in Fees :
          \/ \E price \in Prices : PutLimitOrder(u, side, amount, price, fees)
          \/ PutMarketOrder(u, side, amount, fees)
    \/ \E i \in OpenOrders : CancelOrder(i)
    \/ \E u \in Users, c \in Changes : UpdateUserBalance(u, c[1], c[2])

Next == Execute \/ Request

\* A handler that has started runs on; requests may or may not come.
Spec == Init /\ [][Next]_vars /\ WF_vars(Execute)
-----------------------------------------------------------------------------
(* Properties *)

TypeOK ==
    /\ balance \in [BalanceKeys -> Nat]
    /\ DOMAIN orders \subseteq 1..order_id_start
    /\ \A i \in DOMAIN orders : orders[i] \in Order /\ orders[i].price > 0
    /\ users \in [Users -> SUBSET OrderIds]
    /\ asks \subseteq OrderIds /\ bids \subseteq OrderIds
    /\ order_id_start \in 0..MaxOrders /\ deals_id_start \in Nat
    /\ ~Idle => taker \in Order /\ (taker.type = "LIMIT" => taker.price > 0)
    /\ iter \in Nat
    /\ balance_history \in [Users \X Assets -> Int]
    /\ order_history \in [OrderIds -> Nat]
    /\ deal_history \subseteq OrderIds
    /\ order_event \in [OrderIds -> {"NONE", "PUT", "UPDATE", "FINISH"}]
    /\ updates \in 0..MaxUpdates

\* The dictionary of orders, the lists of the users and the two books always
\* hold the same orders: order_put and order_finish never leave an order in one
\* and not in another (the books point to orders that order_finish frees).
IndexConsistent ==
    /\ asks = {i \in OpenOrders : orders[i].side = "ASK"}
    /\ bids = {i \in OpenOrders : orders[i].side = "BID"}
    /\ \A u \in Users : users[u] = {i \in OpenOrders : orders[i].user_id = u}
    /\ \A i \in OpenOrders : orders[i].id = i /\ orders[i].type = "LIMIT"

\* What an order has left, what it traded and what it holds frozen agree.
OrderAccounts ==
    \A i \in OpenOrders :
        LET o == orders[i]
        IN  /\ o.left > 0
            /\ o.left + o.deal_stock = o.amount
            /\ o.freeze = Value(Gives(o.side), o.price, o.left)

\* The books never cross, also in the middle of a match: a limit order rests
\* only after the loop has met the best opposite price.
Uncrossed ==
    \A i \in asks, j \in bids : orders[i].price > orders[j].price

\* The loop's prefetched node is a node of the list the loop runs over, never
\* one that order_finish has freed.
IterValid ==
    IF Idle THEN iter = 0 ELSE iter \in Opposite(taker.side) \cup {0}

\* A limit order whose loop is not over stands before the best order of the
\* opposite book, and it is in no index yet.
TakerAtFront ==
    ~Idle =>
        /\ taker.id = order_id_start /\ taker.id \notin OpenOrders
        /\ taker.freeze = 0
        /\ taker.type = "LIMIT" =>
              /\ taker.left + taker.deal_stock = taker.amount
              /\ taker.left > 0 => iter \in Front(Opposite(taker.side))

\* What an order being executed may still have to pay
Owed(o) == IF o.type = "LIMIT" THEN Value(Gives(o.side), o.price, o.left) ELSE o.left

\* The taker can always pay for all that it has left, whatever the deals
\* already made (with itself too) did to its balance: the loop never checks.
TakerFunded ==
    ~Idle => balance[<<taker.user_id, "AVAILABLE", Gives(taker.side)>>]
                >= Owed(taker) * FeeOne

\* The units of an asset the open orders of a user hold, one element a unit
HeldUnits(u, a) ==
    UNION {{i} \X (1..orders[i].freeze) :
              i \in {j \in OpenOrders : orders[j].user_id = u
                                        /\ Gives(orders[j].side) = a}}

\* The frozen balance of every user is what its open orders hold, to the unit.
FreezeBacked ==
    \A u \in Users, a \in Assets :
        balance[<<u, "FREEZE", a>>] = Cardinality(HeldUnits(u, a)) * FeeOne

TotalOf(u, a) == balance[<<u, "AVAILABLE", a>>] + balance[<<u, "FREEZE", a>>]

\* The balance history explains the balances: no change is recorded that a
\* balance_add or balance_sub (unchecked in the loops) did not make.  A fee finer than
\* prec_save(money) is rounded against the user, by less than a grain a deal.
BalanceHistoryExplains ==
    \A u \in Users, a \in Assets :
        LET lost == balance_history[<<u, a>>] - TotalOf(u, a)
        IN  lost >= 0 /\ lost <= deals_id_start * (Grain(a) - 1)

\* Consumers of order messages know the book: exactly the orders announced by
\* PUT or UPDATE and not by FINISH rest in it (order_put runs after the PUT).
AnnouncedOpen ==
    \A i \in OrderIds : i \in OpenOrders <=> order_event[i] \in {"PUT", "UPDATE"}

\* An order's history row is written once, when it is over, and no order that
\* has a deal ends without one.
OrderHistoryOnce ==
    \A i \in OrderIds :
        /\ order_history[i] <= 1
        /\ order_history[i] = 1 => order_event[i] = "FINISH"
        /\ i \in deal_history /\ order_event[i] = "FINISH" => order_history[i] = 1

\* The events and the history of an order tell the same story as the book
\* (push_order_message, append_order_history).
RecordsComplete == AnnouncedOpen /\ OrderHistoryOnce

Changed(i) == i \in OpenOrders /\ (i \in DOMAIN orders' => orders[i]' # orders[i])

\* Price-time priority: a resting order trades only when no order of its book
\* comes before it.
PriorityRespected ==
    [][deals_id_start' # deals_id_start =>
          \A i \in {j \in OpenOrders : Changed(j)}, k \in OpenOrders :
              orders[k].side = orders[i].side => ~MatchesBefore(orders[k], orders[i])]_vars

Total(a) == SumFunction([u \in Users |-> TotalOf(u, a)])

\* Only balance.update brings value in: placing, matching and cancelling never
\* increase the sum of an asset over all users, and only deals (their fees)
\* decrease it.
NoValueCreated ==
    [][updates' = updates => \A a \in Assets :
          /\ Total(a)' <= Total(a)
          /\ deals_id_start' = deals_id_start => Total(a)' = Total(a)]_vars

=============================================================================
