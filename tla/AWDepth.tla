------------------------------ MODULE AWDepth ------------------------------
(***************************************************************************)
(* The depth of a market: accessws/aw_depth.c polls order.depth of the     *)
(* matchengine (get_depth, get_depth_merge and the reply cache of          *)
(* me_server.c) once per key that somebody subscribed to, and sends its    *)
(* subscribers the whole depth or what changed in it since the last reply. *)
(* A subscriber applies a change to what it has: the new amount of a       *)
(* price, 0 for a price that is gone, and cuts the list at its limit.      *)
(***************************************************************************)
EXTENDS Integers, Sequences, FiniteSets, SequencesExt

CONSTANTS
    Client,              \* websocket sessions of one worker
    Keys,                \* [known, interval, limit] of subscriptions, in order; known:
                         \* whether the matchengine has the market
    AskPrices, BidPrices,
    Amounts,
    Starts,              \* [asks, bids, changes, moves]: the books a behaviour may start
                         \* with and, as bounds, how often each side of it may act
    NoDepth,             \* no reply yet, or nothing sent yet
    MaxPackets, MaxLost    \* bounds

ASSUME DepthAssumption ==
    /\ \A a \in AskPrices, b \in BidPrices : b < a
    /\ AskPrices \cup BidPrices \cup Amounts \subseteq Nat \ {0}
    /\ \A i \in DOMAIN Keys : Keys[i].limit \in Nat \ {0} /\ Keys[i].interval \in Nat
    /\ \A start \in Starts : \A side \in {start.asks, start.bids} :
          side \in Seq((Nat \ {0}) \X (Nat \ {0}))

VARIABLES
    asks, bids,    \* the two skiplists: orders <<price, left>> in their order
    meCache,       \* dict_cache of the matchengine: key -> depth, a partial function
    depth,         \* dict_depth: key -> [sessions, last, due], a partial function;
                   \* due: CLEAN_INTERVAL has passed since last_clean
    requests, replies,    \* packets between the worker and the matchengine
    view,          \* what each client made of the messages since its subscription
    changes, moves, lost  \* bounds: what may still happen, and what was lost

book == <<asks, bids>>
packets == <<requests, replies>>
vars == <<book, meCache, depth, packets, view, changes, lost, moves>>

Key == {Keys[i] : i \in DOMAIN Keys}
With(f, x, v) == [y \in DOMAIN f \cup {x} |-> IF y = x THEN v ELSE f[y]]
Without(f, S) == [y \in DOMAIN f \ S |-> f[y]]

-----------------------------------------------------------------------------
(* A side is 1 for asks and -1 for bids, as in get_list_diff.               *)

Better(p, q, side) == (q - p) * side > 0
InOrder(orders, side) ==
    \A i, j \in DOMAIN orders : i < j => ~Better(orders[j][1], orders[i][1], side)
ASSUME StartsAssumption ==
    \A start \in Starts : InOrder(start.asks, 1) /\ InOrder(start.bids, -1)

Cut(list, limit) == SubSeq(list, 1, IF Len(list) < limit THEN Len(list) ELSE limit)

\* A set of levels as the sequence with the best first.
Sorted(levels, side) ==
    [i \in 1 .. Cardinality(levels) |->
        CHOOSE x \in levels : Cardinality({y \in levels : Better(y[1], x[1], side)}) = i - 1]

-----------------------------------------------------------------------------
(* matchengine: the orders of a side, best price first, become levels.  An  *)
(* interval of 0 merges only orders of the same price.                      *)

RoundedDown(price, interval) == IF interval = 0 THEN price ELSE price - (price % interval)
BothDown(price, interval, side) == RoundedDown(price, interval)
Group(price, interval, side) ==
    LET down == RoundedDown(price, interval)
    IN  IF side = -1 \/ down = price THEN down ELSE down + interval

\* An order joins the last level when its price is within it; a level is opened
\* while there are fewer than limit.
Join(levels, order, k, side) ==
    IF levels # <<>> /\ ~Better(Last(levels)[1], order[1], side)
    THEN [levels EXCEPT ![Len(levels)][2] = @ + order[2]]
    ELSE IF Len(levels) < k.limit
         THEN Append(levels, <<Group(order[1], k.interval, side), order[2]>>)
         ELSE levels

Grouped(orders, k, side) ==
    LET upto[i \in 0 .. Len(orders)] ==
          IF i = 0 THEN <<>> ELSE Join(upto[i - 1], orders[i], k, side)
    IN  upto[Len(orders)]

GetDepthMerge(k) == [asks |-> Grouped(asks, k, 1), bids |-> Grouped(bids, k, -1)]

\* on_cmd_order_book_depth: from the cache, or computed and cached.
OnCmdOrderBookDepth ==
    /\ requests # <<>>
    /\ requests' = Tail(requests)
    /\ LET k == Head(requests)
           result == IF k \in DOMAIN meCache THEN meCache[k] ELSE GetDepthMerge(k)
       IN  /\ replies' = Append(replies, [key |-> k, result |-> IF k.known THEN result ELSE NoDepth])
           /\ meCache' = IF k.known THEN With(meCache, k, result) ELSE meCache
    /\ UNCHANGED <<book, depth, view, changes, lost, moves>>

\* cache_timeout passes for an answer, or on_cache_timer clears all of them.
CacheEnds(k) ==
    /\ k \in DOMAIN meCache
    /\ meCache' = Without(meCache, {k})
    /\ UNCHANGED <<book, depth, packets, view, changes, lost, moves>>

Place(list, order, side) ==
    LET n == Cardinality({i \in DOMAIN list : ~Better(order[1], list[i][1], side)})
    IN  SubSeq(list, 1, n) \o <<order>> \o SubSeq(list, n + 1, Len(list))

\* The market: an order is placed, filled in part, or leaves (see MEMarket).
BookChanges ==
    /\ changes > 0
    /\ changes' = changes - 1
    /\ \/ \E p \in AskPrices, a \in Amounts :
            asks' = Place(asks, <<p, a>>, 1) /\ UNCHANGED bids
       \/ \E p \in BidPrices, a \in Amounts :
            bids' = Place(bids, <<p, a>>, -1) /\ UNCHANGED asks
       \/ \E i \in DOMAIN asks, a \in Amounts :
            a < asks[i][2] /\ asks' = [asks EXCEPT ![i][2] = a] /\ UNCHANGED bids
       \/ \E i \in DOMAIN asks : asks' = RemoveAt(asks, i) /\ UNCHANGED bids
       \/ \E i \in DOMAIN bids : bids' = RemoveAt(bids, i) /\ UNCHANGED asks
    /\ UNCHANGED <<meCache, depth, packets, view, lost, moves>>

-----------------------------------------------------------------------------
(* What changed between two depths, and what a subscriber makes of it.      *)

PricesOf(list) == {list[i][1] : i \in DOMAIN list}
LevelsOf(list) == {list[i] : i \in DOMAIN list}

\* Prices of the first list that the merge of both lists passes before the second
\* one ends, and those left over: these only count when the second list is not full.
Passed(list1, list2, side) ==
    {p \in PricesOf(list1) : \E q \in PricesOf(list2) : Better(p, q, side)}

PassedOnly(list1, list2, limit, side) ==
    (LevelsOf(list2) \ LevelsOf(list1))
    \cup {<<p, 0>> : p \in Passed(list1, list2, side) \ PricesOf(list2)}

GetListDiff(list1, list2, limit, side) ==
    (LevelsOf(list2) \ LevelsOf(list1))
    \cup {<<p, 0>> : p \in (IF Len(list2) < limit THEN PricesOf(list1)
                            ELSE Passed(list1, list2, side)) \ PricesOf(list2)}

GetDepthDiff(a, b, k) ==
    [asks |-> GetListDiff(a.asks, b.asks, k.limit, 1),
     bids |-> GetListDiff(a.bids, b.bids, k.limit, -1)]
NoDiff == [asks |-> {}, bids |-> {}]

\* The client's side: put the new levels in place of the old ones, drop those of
\* amount 0, sort, and cut at the limit.
Apply(list, diff, limit, side) ==
    LET kept == {l \in LevelsOf(list) : \A d \in diff : d[1] # l[1]}
        new == {d \in diff : d[2] # 0}
    IN  Cut(Sorted(kept \cup new, side), limit)

Updated(v, diff, k) ==
    [asks |-> Apply(v.asks, diff.asks, k.limit, 1),
     bids |-> Apply(v.bids, diff.bids, k.limit, -1)]

-----------------------------------------------------------------------------
(* accessws. *)

Sessions(k) == IF k \in DOMAIN depth THEN depth[k].sessions ELSE {}

\* broadcast_update: the whole depth (clean), or the changes.  A session whose send
\* fails is closed at once: it is then as if it had left before.
BroadcastClean(S, d) == view' = [c \in Client |-> IF c \in S THEN d ELSE view[c]]
BroadcastDiff(S, diff, k) ==
    view' = [c \in Client |-> IF c \in S /\ view[c] # NoDepth THEN Updated(view[c], diff, k)
                              ELSE view[c]]

\* on_market_depth_reply.
OnMarketDepthReply(k, result) ==
    LET val == depth[k]
        diff == GetDepthDiff(val.last, result, k)
    IN  IF val.last = NoDepth \/ (diff # NoDiff /\ val.due)
        THEN /\ depth' = [depth EXCEPT ![k].last = result, ![k].due = FALSE]
             /\ BroadcastClean(val.sessions, result)
        ELSE IF diff = NoDiff
        THEN UNCHANGED <<depth, view>>
        ELSE /\ depth' = [depth EXCEPT ![k].last = result]
             /\ BroadcastDiff(val.sessions, diff, k)

\* on_backend_recv_pkg: an error takes the key away with all its subscribers.
OnBackendRecvPkg ==
    /\ replies # <<>>
    /\ replies' = Tail(replies)
    /\ LET k == Head(replies).key
           result == Head(replies).result
       IN  IF result = NoDepth
           THEN depth' = Without(depth, {k}) /\ UNCHANGED view
           ELSE IF k \in DOMAIN depth THEN OnMarketDepthReply(k, result)
           ELSE UNCHANGED <<depth, view>>
    /\ UNCHANGED <<book, meCache, requests, changes, lost, moves>>

\* A poll is given up: its time is over (on_timeout) or its connection broke.  The
\* reply, when it still comes, finds no state.
Lose ==
    /\ lost < MaxLost
    /\ lost' = lost + 1
    /\ \/ \E i \in DOMAIN requests : requests' = RemoveAt(requests, i) /\ UNCHANGED replies
       \/ \E i \in DOMAIN replies : replies' = RemoveAt(replies, i) /\ UNCHANGED requests
    /\ UNCHANGED <<book, meCache, depth, view, changes, moves>>

Empty == {k \in DOMAIN depth : depth[k].sessions = {}}

PollNew ==
    /\ \E k \in DOMAIN depth : depth[k].last = NoDepth
    /\ Len(requests) + Len(replies) + Cardinality(DOMAIN depth) <= MaxPackets
    /\ requests' = requests \o SelectSeq(Keys, LAMBDA k : k \in DOMAIN depth /\ depth[k].last = NoDepth)
    /\ UNCHANGED <<book, meCache, depth, replies, view, changes, lost, moves>>

\* on_timer: keys nobody listens to are deleted, the others polled.
\* Bound: no poll while MaxPackets are on the way.
OnTimer ==
    /\ DOMAIN depth # {}
    /\ Len(requests) + Len(replies) + Cardinality(DOMAIN depth \ Empty) <= MaxPackets
    /\ depth' = Without(depth, Empty)
    /\ requests' = requests \o SelectSeq(Keys, LAMBDA k : k \in DOMAIN depth')
    /\ UNCHANGED <<book, meCache, replies, view, changes, lost, moves>>

CleanIsDue(k) ==
    /\ k \in DOMAIN depth /\ depth[k].last # NoDepth /\ ~depth[k].due
    /\ depth' = [depth EXCEPT ![k].due = TRUE]
    /\ UNCHANGED <<book, meCache, packets, view, changes, lost, moves>>

\* depth_unsubscribe goes through every key.
Unsubscribed(c) == [k \in DOMAIN depth |-> [depth[k] EXCEPT !.sessions = @ \ {c}]]

\* depth_send_clean, to a client that starts anew.
DepthSendClean(c, d) == [view EXCEPT ![c] = d]

DepthSubscribed(c, k) ==
    LET old == Unsubscribed(c)
        val == IF k \in DOMAIN old THEN old[k]
               ELSE [sessions |-> {}, last |-> NoDepth, due |-> FALSE]
    IN  With(old, k, [val EXCEPT !.sessions = @ \cup {c}])

\* Of a good limit and interval: a client has one depth subscription.
OnMethodDepthSubscribe(c, k) ==
    /\ moves > 0 /\ moves' = moves - 1
    /\ depth' = DepthSubscribed(c, k)
    /\ view' = DepthSendClean(c, depth'[k].last)
    /\ UNCHANGED <<book, meCache, packets, changes, lost>>

\* And on_close of the session.
OnMethodDepthUnsubscribe(c) ==
    /\ \E k \in DOMAIN depth : c \in depth[k].sessions
    /\ depth' = Unsubscribed(c)
    /\ view' = [view EXCEPT ![c] = NoDepth]
    /\ UNCHANGED <<book, meCache, packets, changes, lost, moves>>

-----------------------------------------------------------------------------

Init ==
    /\ \E start \in Starts :
          asks = start.asks /\ bids = start.bids /\ changes = start.changes /\ moves = start.moves
    /\ meCache = <<>> /\ depth = <<>>
    /\ requests = <<>> /\ replies = <<>>
    /\ view = [c \in Client |-> NoDepth]
    /\ lost = 0

Next ==
    \/ BookChanges \/ OnCmdOrderBookDepth
    \/ OnTimer \/ OnBackendRecvPkg \/ Lose
    \/ \E k \in Key : CacheEnds(k) \/ CleanIsDue(k)
    \/ \E c \in Client, k \in Key : OnMethodDepthSubscribe(c, k)
    \/ \E c \in Client : OnMethodDepthUnsubscribe(c)

\* The timer of the worker and the times of the cache pass, and the matchengine
\* and the event loop handle what they are sent.
Fairness ==
    /\ WF_vars(OnTimer) /\ \A k \in Key : WF_vars(CacheEnds(k))
    /\ WF_vars(OnCmdOrderBookDepth) /\ WF_vars(OnBackendRecvPkg)

Spec == Init /\ [][Next]_vars
FairSpec == Spec /\ Fairness

-----------------------------------------------------------------------------
(* Properties. *)

\* Whatever a client was sent since it subscribed, whole depths or changes, early or
\* late, after other subscriptions, lost polls and limits that cut the lists: what it
\* made of it is the depth the worker got last.
ViewIsLast ==
    \A k \in DOMAIN depth : \A c \in depth[k].sessions : view[c] = depth[k].last

\* Reference: each order counts in exactly the level of its rounded price, asks
\* rounded up and bids down, and the best levels are kept.
Rounded(p, i, side) ==
    IF i = 0 THEN p ELSE IF side = 1 THEN ((p + i - 1) \div i) * i ELSE (p \div i) * i
Amount(orders, p, k, side) ==
    LET upto[i \in 0 .. Len(orders)] ==
          IF i = 0 THEN 0
          ELSE upto[i - 1] + (IF Rounded(orders[i][1], k.interval, side) = p THEN orders[i][2] ELSE 0)
    IN  upto[Len(orders)]
Levels(orders, k, side) ==
    LET prices == {Rounded(orders[i][1], k.interval, side) : i \in DOMAIN orders}
    IN  Cut(Sorted({<<p, Amount(orders, p, k, side)>> : p \in prices}, side), k.limit)

\* The loops over the skiplists, which only look at the next order, give the
\* same levels as the reference.
MergeIsExact ==
    \A k \in Key : GetDepthMerge(k) = [asks |-> Levels(asks, k, 1), bids |-> Levels(bids, k, -1)]

\* Clients that stay subscribed to a market the matchengine has come to hold the
\* depth of its book, all of them at one time (subscriptions and changes of the book
\* are bounded), in spite of lost polls, cached replies and changes they miss.
Behind(c, k) == k.known /\ c \in Sessions(k) /\ view[c] # GetDepthMerge(k)
SomeoneBehind == \E k \in DOMAIN depth : \E c \in depth[k].sessions : Behind(c, k)
CaughtUp == SomeoneBehind ~> ~SomeoneBehind
=============================================================================
