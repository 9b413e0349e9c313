-------------------------------- MODULE AWPush --------------------------------
(***************************************************************************)
(* The market subscriptions of accessws (aw_state.c, aw_today.c,           *)
(* aw_price.c, aw_deals.c, aw_kline.c): who is subscribed to what, the     *)
(* polling of marketprice and the pushes to the subscribers.               *)
(*                                                                         *)
(* A worker is a single-threaded event loop.  A subscription is the        *)
(* address of an nw_ses in the `sessions' dictionary of a market; a closed *)
(* nw_ses goes to a cache and the next connection is put in its place.     *)
(*                                                                         *)
(* The dictionaries hash the first eight bytes of the nw_ses, which are    *)
(* the fields `active' and `pending' of its libev watcher.  They are 1 and *)
(* 0 in the session's own callback, where it subscribes; `pending' is not  *)
(* 0 while an event of the session waits in libev for its turn, and then   *)
(* dict_delete looks in another bucket and finds nothing.                  *)
(***************************************************************************)
EXTENDS Integers, Sequences, FiniteSets, SequencesExt

CONSTANTS
    Slots,        \* addresses of nw_ses
    Instances,    \* [topics, markets, values]: what is asked for, and what marketprice answers
                  \* (prices, states, klines); Init takes one
    Unknown,      \* markets marketprice does not have
    DealsLimit,   \* DEALS_QUERY_LIMIT
    Faults,
    MaxDeals,     \* bound on the deals of a market
    MaxRequests   \* bound on the requests of a topic on their way

\* "foreign_close": a session is closed while an event of it waits in libev;
\* "slow_backend": marketprice takes longer than a polling interval;
\* "timeout": an answer is lost or comes after the timeout of its request.
ASSUME FaultsAssumption == Faults \subseteq {"foreign_close", "slow_backend", "timeout"}
AllTopics == {"state", "today", "price", "deals", "kline"}
ASSUME InstancesAssumption ==
    \A i \in Instances : /\ i.topics \subseteq AllTopics /\ IsFiniteSet(i.markets)
                        /\ i.values \subseteq Nat \ {0}
ASSUME BoundsAssumption ==
    DealsLimit \in Nat \ {0} /\ MaxDeals \in Nat /\ MaxRequests \in Nat

VARIABLES
    instance,  \* one of Instances
    open,      \* nw_ses in use, upgraded to a websocket
    gone,      \* the client is away: a read fails, and a send may
    pending,   \* an event of the session waits in libev
    sessions,  \* dict_market, dict_kline: channel -> addresses of nw_ses
    last,      \* market_val.last, kline_val.last: 0 for NULL and for price zero
    deals,     \* market_val of aw_deals.c: the ids of the list, last_id
    requests,  \* topic -> polls on their way, [market, since]
    deal_id,   \* marketprice: market -> number of its deals
    asked,     \* what the connection in a slot may be sent
    owed,      \* what it was told, by "success", that it will be sent
    told,      \* the last value it was sent of a channel, 0 for none
    got        \* the deals it was sent since it subscribed

Topics == instance.topics
Markets == instance.markets
Values == instance.values
Channels == Topics \X Markets
Of(topic, M) == {topic} \X M

clients == <<open, gone, pending>>
ghosts == <<asked, owed, told, got>>
vars == <<instance, clients, sessions, last, deals, requests, deal_id, ghosts>>

NoDeals == [list |-> <<>>, last_id |-> 0]

-----------------------------------------------------------------------------
(* Connections *)

\* on_listener_recv_fd, nw_svr_add_ses_by_fd: a closed nw_ses is used again.
Accept(p) ==
    /\ ~open[p] /\ open' = [open EXCEPT ![p] = TRUE]
    /\ UNCHANGED <<instance, gone, pending, sessions, last, deals, requests, deal_id, ghosts>>

\* The client goes away; a send to it may fail from now on.
Leave(p) ==
    /\ open[p] /\ ~gone[p] /\ gone' = [gone EXCEPT ![p] = TRUE]
    /\ UNCHANGED <<instance, open, pending, sessions, last, deals, requests, deal_id, ghosts>>

\* The poll of the event loop finds the session readable.
Ready(p) ==
    /\ open[p] /\ ~pending[p] /\ pending' = [pending EXCEPT ![p] = TRUE]
    /\ UNCHANGED <<instance, open, gone, sessions, last, deals, requests, deal_id, ghosts>>

\* The topics on_close unsubscribes from; state_unsubscribe is not called.
ClosedTopics == {"kline", "price", "today", "deals"}

\* on_close for the sessions F, of which dict_delete finds those of Found
OnClose(F, Found) ==
    /\ open' = [p \in Slots |-> open[p] /\ p \notin F]
    /\ gone' = [p \in Slots |-> gone[p] /\ p \notin F]
    /\ pending' = [p \in Slots |-> pending[p] /\ p \notin F]
    /\ sessions' = [c \in DOMAIN sessions |->
                      IF c[1] \in ClosedTopics THEN sessions[c] \ Found ELSE sessions[c]]
    /\ asked' = [p \in Slots |-> IF p \in F THEN {} ELSE asked[p]]
    /\ owed' = [p \in Slots |-> IF p \in F THEN {} ELSE owed[p]]

\* A closed session forgets what it was sent.
Forget(f, F, nothing) == [p \in Slots |-> IF p \in F THEN nothing ELSE f[p]]
NothingTold == [c \in Channels |-> 0]
NothingGot == [m \in Markets |-> {}]

\* The session's own callback reads the end of the connection.
OnRead(p) ==
    /\ open[p] /\ pending[p] /\ gone[p]
    /\ OnClose({p}, {p})
    /\ told' = Forget(told, {p}, NothingTold) /\ got' = Forget(got, {p}, NothingGot)
    /\ UNCHANGED <<instance, last, deals, requests, deal_id>>

\* In the callback of somebody else: of the sessions F that are closed there,
\* those with an event waiting are not found.
CloseForeign(F) ==
    /\ "foreign_close" \in Faults \/ \A p \in F : ~pending[p]
    /\ OnClose(F, {p \in F : ~pending[p]})

\* ut_ws_svr.c, on_timer: the session has been idle for keep_alive seconds.
OnIdle(p) ==
    /\ open[p]
    /\ CloseForeign({p})
    /\ told' = Forget(told, {p}, NothingTold) /\ got' = Forget(got, {p}, NothingGot)
    /\ UNCHANGED <<instance, last, deals, requests, deal_id>>

-----------------------------------------------------------------------------
(* Subscribing: the session's own callback handles a message *)

Message(p) == open[p] /\ pending[p] /\ ~gone[p] /\ pending' = [pending EXCEPT ![p] = FALSE]

\* Mutant: the subscriptions the session had are kept.
SubscribedMore(p, topic, C) ==
    [c \in DOMAIN sessions \cup C |->
        IF c \in C THEN (IF c \in DOMAIN sessions THEN sessions[c] ELSE {}) \cup {p}
        ELSE sessions[c]]

\* *_unsubscribe and then *_subscribe for each channel of C
Subscribed(p, topic, C) ==
    [c \in DOMAIN sessions \cup C |->
        LET others == IF c \notin DOMAIN sessions THEN {}
                      ELSE IF c[1] = topic THEN sessions[c] \ {p} ELSE sessions[c]
        IN  IF c \in C THEN others \cup {p} ELSE others]

\* dict_add of a zeroed market_val for the channels of C that are new
Extended(f, C, x) == [c \in DOMAIN f \cup C |-> IF c \in DOMAIN f THEN f[c] ELSE x]

\* Mutant: nothing is sent to the new subscriber.
SendNoLast(p, C) == UNCHANGED <<told, got>>

DealsSendFull(p, C) ==
    got' = [got EXCEPT ![p] = [m \in Markets |->
               IF <<"deals", m>> \in C \cap DOMAIN sessions THEN ToSet(deals[m].list) ELSE @[m]]]
\* state_send_last, today_send_last, price_send_last, deals_send_full
SendLast(p, C) ==
    /\ told' = [told EXCEPT ![p] = [c \in Channels |->
                   IF c \in C \cap DOMAIN last /\ last[c] # 0 THEN last[c] ELSE @[c]]]
    /\ DealsSendFull(p, C)

\* deals_subscribe: a market that is new has no deals yet.
DealsSubscribe(C) ==
    deals' = [m \in Markets |-> IF <<"deals", m>> \in C \ DOMAIN sessions THEN NoDeals ELSE deals[m]]
\* *_unsubscribe, and *_subscribe for the channels C.
Subscribe(p, topic, C) ==
    /\ topic \in Topics /\ Message(p)
    /\ sessions' = Subscribed(p, topic, C)
    /\ last' = Extended(last, C, 0)
    /\ DealsSubscribe(C)
    /\ asked' = [asked EXCEPT ![p] = (@ \ Of(topic, Markets)) \cup C]
    /\ UNCHANGED <<instance, open, gone, requests, deal_id>>
Owe(p, topic, C) == owed' = [owed EXCEPT ![p] = (@ \ Of(topic, Markets)) \cup C]

\* on_method_{state,today,price,deals}_subscribe with the markets M, all good: "success",
\* and then what is known of each market; or with an argument after M that is no market
\* name: an error, and nothing is sent.
SubscribeMarkets(p, topic, M) ==
    /\ Subscribe(p, topic, Of(topic, M))
    /\ \/ Owe(p, topic, Of(topic, M)) /\ SendLast(p, Of(topic, M))
       \/ Owe(p, topic, {}) /\ UNCHANGED <<told, got>>
OnMethodStateSubscribe(p) == \E M \in SUBSET Markets : SubscribeMarkets(p, "state", M)
OnMethodTodaySubscribe(p) == \E M \in SUBSET Markets : SubscribeMarkets(p, "today", M)
OnMethodPriceSubscribe(p) == \E M \in SUBSET Markets : SubscribeMarkets(p, "price", M)
OnMethodDealsSubscribe(p) == \E M \in SUBSET Markets : SubscribeMarkets(p, "deals", M)

\* One market and interval, checked first; nothing is sent.
OnMethodKlineSubscribe(p) ==
    \E m \in Markets :
        /\ Subscribe(p, "kline", Of("kline", {m})) /\ Owe(p, "kline", Of("kline", {m}))
        /\ UNCHANGED <<told, got>>

\* on_method_*_unsubscribe
OnMethodUnsubscribe(p, topic) ==
    Subscribe(p, topic, {}) /\ Owe(p, topic, {}) /\ UNCHANGED <<told, got>>

-----------------------------------------------------------------------------
(* Polling marketprice *)

\* Mutant: a market without sessions is polled too.
PolledAll(topic) == {c \in DOMAIN sessions : c[1] = topic}

\* The channels of the topic that somebody is subscribed to
Polled(topic) == {c \in DOMAIN sessions : c[1] = topic /\ sessions[c] # {}}

\* on_timer: a market without sessions is deleted, the others are asked for.
OnTimer(topic) ==
    LET dropped == {c \in DOMAIN sessions : c[1] = topic} \ Polled(topic)
        Request(c) == [market |-> c[2],
                       since |-> IF topic = "deals" THEN deals[c[2]].last_id ELSE 0]
    IN  /\ topic \in Topics
        /\ "slow_backend" \in Faults \/ requests[topic] = <<>>
        /\ Len(requests[topic]) + Cardinality(Polled(topic)) <= MaxRequests
        /\ sessions' = [c \in DOMAIN sessions \ dropped |-> sessions[c]]
        /\ last' = [c \in DOMAIN last \ dropped |-> last[c]]
        /\ requests' = [requests EXCEPT ![topic] =
                           @ \o SetToSeq({Request(c) : c \in Polled(topic)})]
        /\ UNCHANGED <<instance, clients, deals, deal_id, ghosts>>

\* The sends of a broadcast to the sessions S: those of F fail, and the failure
\* closes the session (a client that has reset, a send buffer that is full); the
\* pointer of a closed session is passed over.
Broadcast(S, F) == F \subseteq {p \in S : open[p]} /\ CloseForeign(F)

Head1(topic) == Head(requests[topic])
TakeReply(topic) ==
    /\ topic \in Topics /\ requests[topic] # <<>>
    /\ requests' = [requests EXCEPT ![topic] = Tail(@)]

\* obj->last == NULL or different; a price starts from zero.
Changed(old, new) == old # new

\* A value that changed is sent to every subscriber.
OnValueReply(topic, value, F) ==
    LET c == <<topic, Head1(topic).market>>
    IN  /\ TakeReply(topic) /\ c[2] \notin Unknown
        /\ IF c \in DOMAIN sessions /\ Changed(last[c], value)
           THEN /\ Broadcast(sessions[c], F)
                /\ last' = [last EXCEPT ![c] = value]
                /\ told' = [p \in Slots |-> IF p \in F THEN NothingTold
                              ELSE IF p \in sessions[c] /\ open[p]
                                   THEN [told[p] EXCEPT ![c] = value] ELSE told[p]]
                /\ got' = Forget(got, F, NothingGot)
           ELSE F = {} /\ UNCHANGED <<clients, sessions, last, ghosts>>
        /\ UNCHANGED <<instance, deals, deal_id>>

OnMarketStatusReply(F) == \E value \in Values : OnValueReply("state", value, F)
OnMarketStatusTodayReply(F) == \E value \in Values : OnValueReply("today", value, F)
\* The price of a market without a deal is zero, as is the last price of a new market_val.
OnMarketLastReply(F) == \E value \in Values \cup {0} : OnValueReply("price", value, F)
\* Of the klines of the answer the newest is compared with the last one, and all are sent.
OnMarketKlineReply(F) == \E value \in Values : OnValueReply("kline", value, F)

Newest(n, ids) == SubSeq(ids, 1, IF Len(ids) < n THEN Len(ids) ELSE n)

\* market.deals: the newest deals after `since', the newest first
DealsAfter(since, id) ==
    Newest(DealsLimit, [i \in 1..(IF id > since THEN id - since ELSE 0) |-> id - i + 1])

\* Mutant: last_id is not kept.
DealsForgetLast(d, ids) == [list |-> Newest(DealsLimit, ids \o d.list), last_id |-> d.last_id]

\* on_order_deals_reply: the deals are put before the list, which is then cut.
DealsAdded(d, ids) == [list |-> Newest(DealsLimit, ids \o d.list), last_id |-> Head(ids)]

OnOrderDealsReply(F) ==
    LET r == Head1("deals")
        c == <<"deals", r.market>>
        ids == DealsAfter(r.since, deal_id[r.market])
    IN  /\ TakeReply("deals") /\ r.market \notin Unknown
        /\ IF c \in DOMAIN sessions /\ ids # <<>>
           THEN /\ Broadcast(sessions[c], F)
                /\ deals' = [deals EXCEPT ![r.market] = DealsAdded(@, ids)]
                /\ got' = [p \in Slots |-> IF p \in F THEN NothingGot
                             ELSE IF p \in sessions[c] /\ open[p]
                                  THEN [got[p] EXCEPT ![r.market] = @ \cup ToSet(ids)] ELSE got[p]]
                /\ told' = Forget(told, F, NothingTold)
           ELSE F = {} /\ UNCHANGED <<clients, sessions, deals, ghosts>>
        /\ UNCHANGED <<instance, last, deal_id>>

\* on_backend_recv_pkg of an error reply: the market is deleted, its
\* subscribers with it.
OnErrorReply(topic) ==
    LET c == <<topic, Head1(topic).market>>
    IN  /\ TakeReply(topic) /\ c[2] \in Unknown
        /\ sessions' = [d \in DOMAIN sessions \ {c} |-> sessions[d]]
        /\ last' = [d \in DOMAIN last \ {c} |-> last[d]]
        /\ UNCHANGED <<instance, clients, deals, deal_id, ghosts>>

\* The state of the oldest request times out; its reply will be ignored.
OnTimeout(topic) ==
    /\ "timeout" \in Faults /\ TakeReply(topic)
    /\ UNCHANGED <<instance, clients, sessions, last, deals, deal_id, ghosts>>

\* on_backend_recv_pkg, on_timer and on_timeout of each topic.
OnStateRecvPkg == OnErrorReply("state") \/ \E F \in SUBSET Slots : OnMarketStatusReply(F)
OnTodayRecvPkg == OnErrorReply("today") \/ \E F \in SUBSET Slots : OnMarketStatusTodayReply(F)
OnPriceRecvPkg == OnErrorReply("price") \/ \E F \in SUBSET Slots : OnMarketLastReply(F)
OnDealsRecvPkg == OnErrorReply("deals") \/ \E F \in SUBSET Slots : OnOrderDealsReply(F)
OnKlineRecvPkg == OnErrorReply("kline") \/ \E F \in SUBSET Slots : OnMarketKlineReply(F)
OnStateTimer == OnTimer("state") \/ OnTimeout("state")
OnTodayTimer == OnTimer("today") \/ OnTimeout("today")
OnPriceTimer == OnTimer("price") \/ OnTimeout("price")
OnDealsTimer == OnTimer("deals") \/ OnTimeout("deals")
OnKlineTimer == OnTimer("kline") \/ OnTimeout("kline")

\* A deal of the market gets to marketprice.
NewDeal(m) ==
    /\ "deals" \in Topics /\ m \in Markets \ Unknown
    /\ deal_id[m] < MaxDeals /\ deal_id' = [deal_id EXCEPT ![m] = @ + 1]
    /\ UNCHANGED <<instance, clients, sessions, last, deals, requests, ghosts>>

-----------------------------------------------------------------------------
Init ==
    /\ instance \in Instances
    /\ open = [p \in Slots |-> FALSE] /\ gone = open /\ pending = open
    /\ sessions = [c \in {} |-> {}] /\ last = [c \in {} |-> 0]
    /\ deals = [m \in Markets |-> NoDeals]
    /\ requests = [t \in Topics |-> <<>>]
    /\ deal_id = [m \in Markets |-> 0]
    /\ asked = [p \in Slots |-> {}] /\ owed = asked
    /\ told = [p \in Slots |-> NothingTold] /\ got = [p \in Slots |-> NothingGot]

Connection == \E p \in Slots : Accept(p) \/ Leave(p) \/ Ready(p) \/ OnRead(p) \/ OnIdle(p)

Handler ==
    \E p \in Slots :
        \/ OnMethodStateSubscribe(p) \/ OnMethodTodaySubscribe(p) \/ OnMethodPriceSubscribe(p)
        \/ OnMethodDealsSubscribe(p) \/ OnMethodKlineSubscribe(p)
        \/ \E t \in Topics : OnMethodUnsubscribe(p, t)

RecvPkg == OnStateRecvPkg \/ OnTodayRecvPkg \/ OnPriceRecvPkg \/ OnDealsRecvPkg \/ OnKlineRecvPkg
Timer == OnStateTimer \/ OnTodayTimer \/ OnPriceTimer \/ OnDealsTimer \/ OnKlineTimer

\* An answer about one of the markets
Answered(t, m) == t \in Topics /\ requests[t] # <<>> /\ Head1(t).market = m /\ RecvPkg

Next == Connection \/ Handler \/ RecvPkg \/ Timer \/ \E m \in Markets : NewDeal(m)

AllMarkets == UNION {i.markets : i \in Instances}
\* libev runs what is pending, timers fire, and marketprice answers about every
\* market now and then, however many answers come too late.
Fairness ==
    /\ \A p \in Slots : WF_vars(OnRead(p))
    /\ \A t \in AllTopics : WF_vars(OnTimer(t))
    /\ \A m \in AllMarkets : SF_vars(\E t \in Topics : Answered(t, m))

Spec == Init /\ [][Next]_vars /\ Fairness
-----------------------------------------------------------------------------
(* Properties *)

\* A connection is sent only updates it has subscribed to: no dictionary of a topic holds
\* the address of a session for longer than its connection and subscription last.
OnlyAsked(topics) ==
    \A c \in DOMAIN sessions : c[1] \in topics =>
        \A p \in sessions[c] : open[p] /\ c \in asked[p]
SentOnlyWhatAsked == OnlyAsked(ClosedTopics)
\* The same of state.update, from which on_close (aw_server.c) does not unsubscribe.
StateSentOnlyWhatAsked == OnlyAsked({"state"})

\* Whoever was told "success" for a market that exists stays subscribed to it until it
\* unsubscribes or closes, and has been sent the value the worker holds, whenever it
\* subscribed: either when the value changed or right after the "success" (*_send_last,
\* deals_send_full; a kline is sent to a new subscriber only when it changes).
CaughtUp ==
    \A p \in Slots : \A c \in owed[p] :
        /\ c[2] \notin Unknown => c \in DOMAIN sessions /\ p \in sessions[c]
        /\ c[1] \in {"state", "today", "price"} /\ c \in DOMAIN last /\ last[c] # 0
              => told[p][c] = last[c]
        /\ c[1] = "deals" /\ c \in DOMAIN sessions
              => ToSet(deals[c[2]].list) \subseteq got[p][c[2]]

\* The list of a market holds its latest deals, each one once and in order.
DealsListed ==
    \A m \in Markets : <<"deals", m>> \in DOMAIN sessions =>
        deals[m].list = DealsAfter(0, deals[m].last_id)

Wanted(c) == \E p \in Slots : open[p] /\ c \in asked[p]

\* A channel that no connection has subscribed to is not polled for ever: its
\* dictionary gets empty and the timer drops it (on_timer of the topics).
PollingEnds ==
    \A c \in ClosedTopics \X AllMarkets :
        []<>(c \in DOMAIN sessions => \E p \in Slots : open[p] /\ c \in asked[p])
=============================================================================
