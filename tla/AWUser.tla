-------------------------------- MODULE AWUser --------------------------------
(***************************************************************************)
(* The private side of accessws: server.auth and server.sign on their      *)
(* threads (aw_auth.c, aw_sign.c), the asset and order subscriptions of a  *)
(* user (aw_asset.c, aw_order.c) and the balance and order events of the   *)
(* matchengine that kafka brings (aw_message.c).                           *)
(*                                                                         *)
(* The lists of a user hold addresses of nw_ses.  A closed nw_ses is used  *)
(* again for the next connection, which gets an id of its own; the answer  *)
(* about a token is for the id that asked.                                 *)
(*                                                                         *)
(* A balance is the number of its changes.  Only one failure of a send is  *)
(* left out: that of a session with two units in the list being walked,    *)
(* where on_close frees the node list_next has already fetched.            *)
(***************************************************************************)
EXTENDS Integers, Sequences, FiniteSets, SequencesExt

CONSTANTS
    Slots,       \* addresses of nw_ses
    Users,
    Assets,      \* the assets clients subscribe to
    Markets,     \* the markets clients subscribe to
    Traded,      \* market -> <<stock, money>>
    Faults,      \* "timeout": the answer to balance.query comes too late
    MaxConns,    \* bound on the connections
    MaxJobs,     \* bound on the tokens being looked up
    Active,      \* bound: the users whose balances and orders change
    MaxChanges   \* bound on the events of the matchengine

ASSUME UsersAssumption == Users \subseteq Nat \ {0} /\ Active \subseteq Users
ASSUME FaultsAssumption == Faults \subseteq {"timeout"}
\* A market trades a stock for a money.
ASSUME TradedAssumption == \A m \in Markets : Traded[m] = <<Traded[m][1], Traded[m][2]>>
ASSUME BoundsAssumption == MaxConns \in Nat /\ MaxJobs \in Nat \ {0} /\ MaxChanges \in Nat

Kinds == {"asset", "order"}
Items(kind) == IF kind = "asset" THEN Assets ELSE Markets

VARIABLES
    conn,      \* slot -> nw_ses.id, 0 when closed
    conns,     \* number of connections so far
    user,      \* clt_info: user_id, 0 unless auth
    jobs,      \* tokens being looked up, [ses, ses_id, user_id]
    units,     \* dict_sub: kind -> user -> set of <<ses, asset or market>>
    balance,   \* matchengine: the balance of <<user, asset>>
    events,    \* matchengine: the number of events of <<user, market>>
    balances,  \* the balances topic: <<user, asset>>
    orders,    \* the orders topic: [user, market, n]
    queries,   \* balance.query on their way, [user, asset, value]
    tokens,    \* users whose tokens the connection has sent
    told,      \* slot -> what "success" says it will be sent, <<kind, item>>, with
               \* the latest balance or event its client has had of it
    lost       \* balances whose last query has timed out

session == <<conn, conns, user>>
engine == <<balance, events>>
topics == <<balances, orders>>
ghosts == <<tokens, told, lost>>
vars == <<session, jobs, units, engine, topics, queries, ghosts>>

Unanswered == -1
Nothing == [x \in {} |-> 0]

-----------------------------------------------------------------------------
(* Connections *)

\* nw_svr_add_ses, on_upgrade: a new id, and clt_info is cleared.
Accept(p) ==
    /\ conn[p] = 0 /\ conns < MaxConns
    /\ conns' = conns + 1 /\ conn' = [conn EXCEPT ![p] = conns + 1]
    /\ user' = [user EXCEPT ![p] = 0]
    /\ UNCHANGED <<jobs, units, engine, topics, queries, ghosts>>

\* order_unsubscribe and asset_unsubscribe of the user's sessions P
Without(kind, u, P) == {x \in units[kind][u] : x[1] \notin P}

\* on_close for the sessions F, each with the user its clt_info has
Closed(F) ==
    /\ conn' = [p \in Slots |-> IF p \in F THEN 0 ELSE conn[p]]
    /\ units' = [kind \in Kinds |-> [u \in Users |-> Without(kind, u, {p \in F : user[p] = u})]]
    /\ tokens' = [p \in Slots |-> IF p \in F THEN {} ELSE tokens[p]]
    /\ UNCHANGED <<conns, user>>

\* The client leaves or has been idle for keep_alive seconds.
Close(p) ==
    /\ conn[p] # 0
    /\ Closed({p}) /\ told' = [told EXCEPT ![p] = Nothing]
    /\ UNCHANGED <<jobs, engine, topics, queries, lost>>

-----------------------------------------------------------------------------
(* server.auth and server.sign *)

\* send_auth_request, send_sign_request.  Two requests alike are one here.
SendAuthRequest(p, u) ==
    /\ conn[p] # 0 /\ Cardinality(jobs) < MaxJobs
    /\ jobs' = jobs \cup {[ses |-> p, ses_id |-> conn[p], user_id |-> u]}
    /\ tokens' = [tokens EXCEPT ![p] = @ \cup {u}]
    /\ UNCHANGED <<session, units, engine, topics, queries, told, lost>>

\* Mutant: the session stays in the lists of the user it had.
BecomesUserOnly(p, u) ==
    /\ user' = [user EXCEPT ![p] = u]
    /\ told' = [told EXCEPT ![p] = IF user[p] = u THEN @ ELSE Nothing]
    /\ UNCHANGED units

\* The session p becomes one of user u: it leaves the lists of another user.
BecomesUserOf(p, u) ==
    /\ user' = [user EXCEPT ![p] = u]
    /\ units' = [kind \in Kinds |-> [w \in Users |->
                   IF w = user[p] /\ w # u THEN Without(kind, w, {p}) ELSE units[kind][w]]]
    /\ told' = [told EXCEPT ![p] = IF user[p] = u THEN @ ELSE Nothing]

\* on_result: the token is good.  The jobs end in any order, and the answer to
\* a session that has been closed since is dropped.
OnResult(j) ==
    /\ jobs' = jobs \ {j}
    /\ IF conn[j.ses] = j.ses_id
       THEN BecomesUserOf(j.ses, j.user_id) ELSE UNCHANGED <<user, units, told>>
    /\ UNCHANGED <<conn, conns, engine, topics, queries, tokens, lost>>

\* on_result, on_timeout: the token is refused, or nobody answers in time.
OnResultError(j) ==
    /\ jobs' = jobs \ {j}
    /\ UNCHANGED <<session, units, engine, topics, queries, ghosts>>

-----------------------------------------------------------------------------
(* Subscribing *)

\* asset_unsubscribe and asset_subscribe, order_unsubscribe and order_subscribe
Subscribe(p, kind, I) ==
    units' = [units EXCEPT ![kind][user[p]] = Without(kind, user[p], {p}) \cup ({p} \X I)]

\* The events of the user's market that are still in the topic
Coming(u, m) == Cardinality({i \in DOMAIN orders : orders[i].user = u /\ orders[i].market = m})

\* The client learns the balances it subscribes to with asset.query, and is sent
\* the events of the topic from here on.
Current(u, S) ==
    [x \in S |-> IF x[1] = "asset" THEN balance[<<u, x[2]>>] ELSE events[<<u, x[2]>>] - Coming(u, x[2])]

Others(f, kind) == Restrict(f, {x \in DOMAIN f : x[1] # kind})

\* f with the items of `kind' replaced by those of g
Renewed(f, kind, g) ==
    [x \in DOMAIN g \cup DOMAIN Others(f, kind) |-> IF x \in DOMAIN g THEN g[x] ELSE f[x]]

\* on_method_asset_subscribe, on_method_order_subscribe, all arguments good
OnMethodSubscribe(p, kind, I) ==
    /\ conn[p] # 0 /\ user[p] # 0
    /\ Subscribe(p, kind, I)
    /\ told' = [told EXCEPT ![p] = Renewed(@, kind, Current(user[p], {kind} \X I))]
    /\ UNCHANGED <<session, jobs, engine, topics, queries, tokens, lost>>

\* With a bad argument after those of I: the reply is an error.
OnMethodSubscribeInvalid(p, kind, I) ==
    /\ conn[p] # 0 /\ user[p] # 0
    /\ Subscribe(p, kind, I)
    /\ told' = [told EXCEPT ![p] = Others(@, kind)]
    /\ UNCHANGED <<session, jobs, engine, topics, queries, tokens, lost>>

\* on_method_asset_unsubscribe, on_method_order_unsubscribe
OnMethodUnsubscribe(p, kind) ==
    /\ conn[p] # 0 /\ user[p] # 0
    /\ units' = [units EXCEPT ![kind][user[p]] = Without(kind, user[p], {p})]
    /\ told' = [told EXCEPT ![p] = Others(@, kind)]
    /\ UNCHANGED <<session, jobs, engine, topics, queries, tokens, lost>>

-----------------------------------------------------------------------------
(* The matchengine and kafka *)

\* The changes of balances and the events of orders so far
Pushed == FoldFunction(+, 0, events) + FoldFunction(+, 0, balance)

\* update_user_balance: push_balance_message
BalanceChange(u, a) ==
    /\ Pushed < MaxChanges
    /\ balance' = [balance EXCEPT ![<<u, a>>] = @ + 1]
    /\ balances' = Append(balances, <<u, a>>)
    /\ UNCHANGED <<session, jobs, units, events, orders, queries, ghosts>>

\* An order of the user is put, dealt or finished: push_order_message.  Some of
\* the two balances change with it.
OrderEvent(u, m, C) ==
    /\ Pushed < MaxChanges
    /\ balance' = [x \in DOMAIN balance |-> IF x[1] = u /\ x[2] \in C THEN balance[x] + 1 ELSE balance[x]]
    /\ events' = [events EXCEPT ![<<u, m>>] = @ + 1]
    /\ orders' = Append(orders, [user |-> u, market |-> m, n |-> events[<<u, m>>] + 1])
    /\ UNCHANGED <<session, jobs, units, balances, queries, ghosts>>

\* Who is sent an update of the user's item
Listeners(kind, u, item) == {p \in Slots : <<p, item>> \in units[kind][u]}

\* Mutant: a query on its way is taken for this one's.
AssetOnUpdateOnce(Q, u, a) ==
    IF Listeners("asset", u, a) # {} /\ ~\E i \in DOMAIN Q : Q[i].user = u /\ Q[i].asset = a
    THEN Append(Q, [user |-> u, asset |-> a, value |-> Unanswered]) ELSE Q

\* asset_on_update: balance.query for an asset somebody is subscribed to
AssetOnUpdate(Q, u, a) ==
    IF Listeners("asset", u, a) # {} THEN Append(Q, [user |-> u, asset |-> a, value |-> Unanswered]) ELSE Q

\* on_balances_message
OnBalancesMessage ==
    /\ balances # <<>> /\ balances' = Tail(balances)
    /\ queries' = AssetOnUpdate(queries, Head(balances)[1], Head(balances)[2])
    /\ UNCHANGED <<session, jobs, units, engine, orders, ghosts>>

\* send_notify of the value to the user's listeners, of which the sends of F fail
\* and close them; none of F has a second unit in the user's list.
Notify(kind, u, item, value, F) ==
    /\ F \subseteq Listeners(kind, u, item)
    /\ \A p \in F : Cardinality({x \in units[kind][u] : x[1] = p}) = 1
    /\ Closed(F)
    /\ told' = [p \in Slots |->
                 IF p \in F THEN Nothing
                 ELSE IF p \in Listeners(kind, u, item) /\ <<kind, item>> \in DOMAIN told[p]
                      THEN [told[p] EXCEPT ![<<kind, item>>] = Max({@, value})] ELSE told[p]]

\* Mutant: the order event is not sent.
OnOrdersMessageNoEvent(F) ==
    LET e == Head(orders)
    IN  /\ orders # <<>> /\ orders' = Tail(orders) /\ F = {}
        /\ queries' = AssetOnUpdate(AssetOnUpdate(queries, e.user, Traded[e.market][1]),
                                    e.user, Traded[e.market][2])
        /\ UNCHANGED <<session, jobs, units, engine, balances, ghosts>>

\* on_orders_message: both balances are asked for, and the event is sent on.
OnOrdersMessage(F) ==
    LET e == Head(orders)
    IN  /\ orders # <<>> /\ orders' = Tail(orders)
        /\ queries' = AssetOnUpdate(AssetOnUpdate(queries, e.user, Traded[e.market][1]),
                                    e.user, Traded[e.market][2])
        /\ Notify("order", e.user, e.market, e.n, F)
        /\ UNCHANGED <<jobs, engine, balances, lost>>

\* The matchengine answers the queries in the order they come.
EngineAnswers ==
    \E i \in DOMAIN queries :
        /\ queries[i].value = Unanswered
        /\ \A k \in 1..(i - 1) : queries[k].value # Unanswered
        /\ queries' = [queries EXCEPT ![i].value = balance[<<queries[i].user, queries[i].asset>>]]
        /\ UNCHANGED <<session, jobs, units, engine, topics, ghosts>>

\* on_balance_query_reply
OnBalanceQueryReply(F) ==
    LET q == Head(queries)
    IN  /\ queries # <<>> /\ q.value # Unanswered /\ queries' = Tail(queries)
        /\ Notify("asset", q.user, q.asset, q.value, F)
        /\ lost' = lost \ {<<q.user, q.asset>>}
        /\ UNCHANGED <<jobs, engine, topics>>

\* The state of the oldest query times out; its answer will find none.
OnTimeout ==
    /\ "timeout" \in Faults /\ queries # <<>> /\ queries' = Tail(queries)
    /\ lost' = lost \cup {<<Head(queries).user, Head(queries).asset>>}
    /\ UNCHANGED <<session, jobs, units, engine, topics, tokens, told>>

-----------------------------------------------------------------------------
Init ==
    /\ conn = [p \in Slots |-> 0] /\ conns = 0 /\ user = conn
    /\ jobs = {} /\ units = [kind \in Kinds |-> [u \in Users |-> {}]]
    /\ balance = [x \in Users \X Assets |-> 0] /\ events = [x \in Users \X Markets |-> 0]
    /\ balances = <<>> /\ orders = <<>> /\ queries = <<>> /\ lost = {}
    /\ tokens = [p \in Slots |-> {}] /\ told = [p \in Slots |-> Nothing]

Client ==
    \E p \in Slots :
        \/ Accept(p) \/ Close(p)
        \/ \E u \in Users : SendAuthRequest(p, u)
        \/ \E kind \in Kinds :
              \/ \E I \in SUBSET Items(kind) :
                    OnMethodSubscribe(p, kind, I) \/ OnMethodSubscribeInvalid(p, kind, I)
              \/ OnMethodUnsubscribe(p, kind)

Authority == \E j \in jobs : OnResult(j) \/ OnResultError(j)

Matchengine ==
    \E u \in Active :
        \/ \E a \in Assets : BalanceChange(u, a)
        \/ \E m \in Markets : \E C \in SUBSET (Range(Traded[m]) \cap Assets) : OrderEvent(u, m, C)

Pushes == OnBalancesMessage \/ EngineAnswers \/ OnTimeout
             \/ \E F \in SUBSET Slots : OnOrdersMessage(F) \/ OnBalanceQueryReply(F)

Next == Client \/ Authority \/ Matchengine \/ Pushes

Spec == Init /\ [][Next]_vars
-----------------------------------------------------------------------------
(* Properties *)

\* A connection is only ever the user of a token it has sent itself, however late an answer
\* comes and whoever has its address by then; and the balances and orders of a user go to open
\* connections that are authorized as this user, across new tokens, closing and reuse
\* (on_result, on_close, asset_subscribe, order_subscribe).
OwnEventsOnly ==
    /\ \A p \in Slots : conn[p] # 0 /\ user[p] # 0 => user[p] \in tokens[p]
    /\ \A kind \in Kinds, u \in Users : \A x \in units[kind][u] : conn[x[1]] # 0 /\ user[x[1]] = u

\* A subscriber to orders has been sent every event since it subscribed, in
\* order: the next one is the oldest that is still in the topic.
NoEventMissed ==
    \A p \in Slots, m \in Markets :
        LET x == <<"order", m>>
        IN  x \in DOMAIN told[p] => told[p][x] = events[<<user[p], m>>] - Coming(user[p], m)

Behind(p, a) ==
    LET x == <<"asset", a>> IN x \in DOMAIN told[p] /\ told[p][x] # balance[<<user[p], a>>]

\* A client that has an old balance has a message about it coming, or a query
\* whose answer is the balance, unless an answer was lost.
BalanceUnderWay ==
    \A p \in Slots, a \in Assets : Behind(p, a) =>
        LET u == user[p]
        IN  \/ \E i \in DOMAIN balances : balances[i] = <<u, a>>
            \/ \E i \in DOMAIN orders : orders[i].user = u /\ a \in Range(Traded[orders[i].market])
            \/ \E i \in DOMAIN queries : /\ queries[i].user = u /\ queries[i].asset = a
                                         /\ queries[i].value \in {Unanswered, balance[<<u, a>>]}
            \/ <<u, a>> \in lost
=============================================================================
