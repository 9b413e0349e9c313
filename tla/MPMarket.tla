------------------------------- MODULE MPMarket -------------------------------
(***************************************************************************)
(* marketprice (mp_message.c, mp_kline.c): the klines, the deals and the   *)
(* last price of every market, made from the deals that matchengine sends  *)
(* to kafka, written to redis every ten seconds together with the offset   *)
(* of the last deal, and loaded from there at a start.                     *)
(*                                                                         *)
(* The service is one event loop: while it flushes to redis it does        *)
(* nothing else, but a crash may come between any two commands.  Commands  *)
(* that fail are left out.  Time is counted in seconds.                    *)
(***************************************************************************)
EXTENDS Integers, Sequences, FiniteSets, SequencesExt

CONSTANTS
    Markets,
    Prices, Amounts,     \* of the deals, positive
    Minute, Hour, Day,   \* 60, 3600 and 86400
    LookBack,            \* 86400 * 30: how far back a price before an answer is looked for
    SecMax, MinMax,      \* settings.sec_max, and min_max in seconds
    HourMax,             \* hour_max in seconds
    DealsMax,            \* MARKET_DEALS_MAX
    FirstOffset,         \* offset of the first deal in the topic
    Faults,
    Spans,               \* [markets, times, asked]: the markets with deals, the seconds at which
                         \* anything happens, a bound on the time, and what MPServer is asked
    MaxDeals, MaxCrashes

ASSUME UnitsAssumption ==
    /\ {Minute, Hour, Day, LookBack} \subseteq Nat \ {0}
    /\ Hour % Minute = 0 /\ Day % Hour = 0 /\ MinMax % Minute = 0 /\ HourMax % Hour = 0
ASSUME SettingsAssumption ==
    {SecMax, MinMax, HourMax, DealsMax} \subseteq Nat \ {0} /\ FirstOffset \in {0, 1}

\* matchengine has a list of markets, and no deal without a price and an amount.
ASSUME DealsAssumption ==
    /\ IsFiniteSet(Markets) /\ Prices \cup Amounts \subseteq Nat \ {0}
    /\ \A s \in Spans : s.markets \subseteq Markets /\ s.times \subseteq Nat

\* "crash_in_flush": the process dies while it writes to redis.
ASSUME FaultsAssumption == Faults \subseteq {"crash_in_flush"}

Units == {"sec", "min", "hour", "day"}
Length(u) == CASE u = "sec" -> 1 [] u = "min" -> Minute [] u = "hour" -> Hour [] u = "day" -> Day

VARIABLES
    span,     \* one of Spans
    now,
    feed,     \* kafka: the deals [market, time, price, amount]
    up,       \* marketprice runs
    position, \* offset of the next message of the consumer
    klines,   \* market_info.sec, min, hour, day
    update,   \* market_info.update: klines to write, <<unit, time>>
    last,     \* market_info.last
    deals,    \* market_info.deals: offsets to write, the oldest first
    deals_json, \* market_info.deals_json: offsets, the newest first
    dirty,    \* update_time >= last_flush, both 0 at a start
    last_offset,
    flushing, \* <<>> or what flush_market has to do
    redis,    \* [klines, last, deals, offset]
    crashes

memory == <<klines, update, last, deals, deals_json, dirty, last_offset>>
priceVars == <<span, now, feed, up, position, memory, flushing, redis, crashes>>

-----------------------------------------------------------------------------
(* mp_kline.c *)

NewKline(open) == [open |-> open, close |-> open, high |-> open, low |-> open,
                   volume |-> 0, deal |-> 0]

\* kline_info_merge
Merge(k, other) ==
    [k EXCEPT !.close = other.close, !.volume = @ + other.volume, !.deal = @ + other.deal,
              !.high = Max({@, other.high}), !.low = Min({@, other.low})]

\* kline_info_update
Update(k, price, amount) ==
    [k EXCEPT !.close = price, !.volume = @ + amount, !.deal = @ + price * amount,
              !.high = Max({@, price}), !.low = Min({@, price})]

\* The klines of a dictionary at the times S, merged in the order of time
Merged(dict, S) ==
    LET times == SetToSortSeq(S, <)
        op(k, t) == Merge(k, dict[t])
    IN  FoldLeft(op, NewKline(dict[times[1]].open), times)

\* get_last_kline: its closing price, or 0
LastClose(dict, start, end) ==
    LET S == {t \in DOMAIN dict : end <= t /\ t <= start}
    IN  IF S = {} THEN 0 ELSE dict[Max(S)].close

\* The earliest time the dictionary of a unit is asked for and loaded from
Oldest(u, time) ==
    CASE u = "sec" -> time - SecMax
      [] u = "min" -> (time \div Minute) * Minute - MinMax
      [] u = "hour" -> (time \div Hour) * Hour - HourMax
      [] u = "day" -> 0


\* The loop of get_market_kline_sec, _min, _hour and _day: the klines inside
\* each interval are merged, and an empty interval repeats the last price.
Buckets(dict, low, start, end, interval) ==
    LET n == (end - start) \div interval
        inside(i) == {t \in DOMAIN dict : start + i * interval <= t /\ t < start + (i + 1) * interval}
        k[i \in 0..n] ==
            IF inside(i) # {} THEN Merged(dict, inside(i))
            ELSE NewKline(IF i = 0 THEN LastClose(dict, start - 1, low) ELSE k[i - 1].close)
    IN  [i \in {j \in 0..n : k[j].close # 0} |-> k[i]]

\* The first interval: `start' is moved to the oldest time and down to a
\* multiple of the interval.
Aligned(u, start, interval) == (Max({start, Oldest(u, now)}) \div interval) * interval

GetMarketKline(m, u, start, end, interval) ==
    LET first == Aligned(u, start, interval)
    IN  IF first > end THEN [i \in {} |-> NewKline(0)]
        ELSE Buckets(klines[m][u],
                     IF u = "day" THEN first - LookBack ELSE Oldest(u, now),
                     first, end, interval)

\* The klines get_market_status and get_market_status_today go through: the
\* seconds of the first minute, then the minutes
StatusKlines(m, period) ==
    LET start == now - period
        start_min == (start \div Minute) * Minute + Minute
    IN  <<{t \in DOMAIN klines[m]["sec"] : start <= t /\ t < start_min},
          {t \in DOMAIN klines[m]["min"] : start_min <= t /\ t < now}>>

GetMarketStatus(m, period) ==
    LET S == StatusKlines(m, period)
        sec == klines[m]["sec"]
        min == klines[m]["min"]
    IN  CASE S[1] = {} /\ S[2] = {} -> NewKline(0)
          [] S[1] # {} /\ S[2] = {} -> Merged(sec, S[1])
          [] S[1] = {} /\ S[2] # {} -> Merged(min, S[2])
          [] OTHER -> Merge(Merged(sec, S[1]), Merged(min, S[2]))

GetMarketStatusToday(m) ==
    LET day == klines[m]["day"]
        start == (now \div Day) * Day
        close == LastClose(day, start - Day, start - LookBack)
        S == StatusKlines(m, Day)
        k == IF start \in DOMAIN day THEN day[start] ELSE NewKline(close)
    IN  [open |-> k.open, last |-> k.close, high |-> k.high, low |-> k.low,
         volume |-> MapThenSumSet(LAMBDA t : klines[m]["sec"][t].volume, S[1])
                    + MapThenSumSet(LAMBDA t : klines[m]["min"][t].volume, S[2])]

-----------------------------------------------------------------------------
(* The deals *)

End == FirstOffset + Len(feed)
DealAt(offset) == feed[offset - FirstOffset + 1]

\* matchengine sends a deal, in the order and with the time of its clock.
Produce(m) ==
    /\ Len(feed) < MaxDeals /\ m \in span.markets
    /\ \E p \in Prices, a \in Amounts :
          feed' = Append(feed, [market |-> m, time |-> now, price |-> p, amount |-> a])
    /\ UNCHANGED <<span, now, up, position, memory, flushing, redis, crashes>>

Tick ==
    /\ \E t \in span.times : now < t /\ now' = t
    /\ UNCHANGED <<span, feed, up, position, memory, flushing, redis, crashes>>

\* The time of the kline of a unit: time / 60 * 60, time / 3600 * 3600 and
\* get_day_start
KlineTime(u, time) == (time \div Length(u)) * Length(u)

Newest(n, s) == SubSeq(s, 1, IF Len(s) < n THEN Len(s) ELSE n)

Put(f, x, y) == [z \in DOMAIN f \cup {x} |-> IF z = x THEN y ELSE f[z]]

\* market_update for one unit
Entered(dict, t, d) ==
    Put(dict, t, Update(IF t \in DOMAIN dict THEN dict[t] ELSE NewKline(d.price), d.price, d.amount))

\* Mutant: last_offset is not kept.
OnDealsMessageForgets ==
    LET d == DealAt(position)
        m == d.market
    IN  /\ up /\ flushing = <<>> /\ position < End
        /\ klines' = [klines EXCEPT ![m] = [u \in Units |-> Entered(@[u], KlineTime(u, d.time), d)]]
        /\ update' = [update EXCEPT ![m] = @ \cup {<<u, KlineTime(u, d.time)>> : u \in Units}]
        /\ last' = [last EXCEPT ![m] = d.price]
        /\ deals' = [deals EXCEPT ![m] = Append(@, position)]
        /\ deals_json' = [deals_json EXCEPT ![m] = Newest(DealsMax, <<position>> \o @)]
        /\ dirty' = [dirty EXCEPT ![m] = TRUE]
        /\ position' = position + 1
        /\ UNCHANGED <<span, now, feed, up, last_offset, flushing, redis, crashes>>

\* on_deals_message, market_update
OnDealsMessage ==
    LET d == DealAt(position)
        m == d.market
    IN  /\ up /\ flushing = <<>> /\ position < End
        /\ klines' = [klines EXCEPT ![m] = [u \in Units |-> Entered(@[u], KlineTime(u, d.time), d)]]
        /\ update' = [update EXCEPT ![m] = @ \cup {<<u, KlineTime(u, d.time)>> : u \in Units}]
        /\ last' = [last EXCEPT ![m] = d.price]
        /\ deals' = [deals EXCEPT ![m] = Append(@, position)]
        /\ deals_json' = [deals_json EXCEPT ![m] = Newest(DealsMax, <<position>> \o @)]
        /\ dirty' = [dirty EXCEPT ![m] = TRUE]
        /\ last_offset' = position /\ position' = position + 1
        /\ UNCHANGED <<span, now, feed, up, flushing, redis, crashes>>

-----------------------------------------------------------------------------
(* flush_market *)

\* flush_update, flush_last and flush_deals of the markets, one after the other, then flush_offset
FlushSteps(order) ==
    [i \in 1 .. 3 * Len(order) |-> <<<<"update", "last", "deals">>[1 + ((i - 1) % 3)], order[1 + ((i - 1) \div 3)]>>]
    \o <<<<"offset">>>>

\* on_market_timer: the markets that changed, in some order
OnMarketTimer ==
    /\ up /\ flushing = <<>>
    /\ \E order \in SetToSeqs({m \in Markets : dirty[m]}) : flushing' = FlushSteps(order)
    /\ UNCHANGED <<span, now, feed, up, position, memory, redis, crashes>>

Doing(step) == up /\ flushing # <<>> /\ Head(flushing)[1] = step
Done == flushing' = Tail(flushing)

Written(m, K) ==
    [redis.klines EXCEPT ![m] = [u \in Units |->
        LET T == {t \in DOMAIN klines[m][u] : <<u, t>> \in K}
        IN  [t \in DOMAIN @[u] \cup T |-> IF t \in T THEN klines[m][u][t] ELSE @[u][t]]]]

\* Mutant: the daily klines are not written.
FlushUpdateNoDay ==
    LET m == Head(flushing)[2]
    IN  /\ Doing("update") /\ Done
        /\ redis' = [redis EXCEPT !.klines = Written(m, {k \in update[m] : k[1] # "day"})]
        /\ update' = [update EXCEPT ![m] = {}]
        /\ UNCHANGED <<span, now, feed, up, position, klines, last, deals, deals_json, dirty,
                       last_offset, crashes>>

\* flush_update, flush_kline: HSET for each kline of the list
FlushUpdate ==
    LET m == Head(flushing)[2]
    IN  /\ Doing("update") /\ Done
        /\ redis' = [redis EXCEPT !.klines = Written(m, update[m])]
        /\ update' = [update EXCEPT ![m] = {}]
        /\ UNCHANGED <<span, now, feed, up, position, klines, last, deals, deals_json, dirty,
                       last_offset, crashes>>

\* flush_last: SET
FlushLast ==
    LET m == Head(flushing)[2]
    IN  /\ Doing("last") /\ Done
        /\ redis' = [redis EXCEPT !.last[m] = last[m]]
        /\ UNCHANGED <<span, now, feed, up, position, memory, crashes>>

\* LPUSH of the deals, the oldest first, and LTRIM
Pushed(m) == Newest(DealsMax, Reverse(deals[m]) \o redis.deals[m])

\* flush_deals: LPUSH and LTRIM
FlushDeals ==
    LET m == Head(flushing)[2]
    IN  /\ Doing("deals") /\ Done
        /\ redis' = [redis EXCEPT !.deals[m] = Pushed(m)]
        /\ deals' = [deals EXCEPT ![m] = <<>>]
        /\ UNCHANGED <<span, now, feed, up, position, klines, update, last, deals_json, dirty,
                       last_offset, crashes>>

\* flush_offset: SET k:offset, and then last_flush is now.
FlushOffset ==
    /\ Doing("offset") /\ Done
    /\ redis' = [redis EXCEPT !.offset = last_offset]
    /\ dirty' = [m \in Markets |-> FALSE]
    /\ UNCHANGED <<span, now, feed, up, position, klines, update, last, deals, deals_json,
                   last_offset, crashes>>

-----------------------------------------------------------------------------
(* Old klines, crashes and starts *)

Kept(dict, time) ==
    [u \in Units |-> [t \in {t \in DOMAIN dict[u] : u = "day" \/ t >= Oldest(u, time)} |-> dict[u][t]]]

\* on_clear_timer, clear_kline
OnClearTimer ==
    /\ up /\ flushing = <<>>
    /\ klines' = [m \in Markets |-> Kept(klines[m], now)]
    /\ klines' # klines
    /\ UNCHANGED <<span, now, feed, up, position, update, last, deals, deals_json, dirty,
                   last_offset, flushing, redis, crashes>>

\* on_redis_timer: a forked child does the same to redis (clear_redis).
ClearRedis ==
    /\ up
    /\ redis' = [redis EXCEPT !.klines = [m \in Markets |-> Kept(@[m], now)]]
    /\ redis' # redis
    /\ UNCHANGED <<span, now, feed, up, position, memory, flushing, crashes>>

Crash ==
    /\ up /\ crashes < MaxCrashes
    /\ "crash_in_flush" \in Faults \/ flushing = <<>>
    /\ up' = FALSE /\ flushing' = <<>> /\ crashes' = crashes + 1
    /\ UNCHANGED <<span, now, feed, position, memory, redis>>

\* send_market_list_req: accesshttp answers with the markets of matchengine; without an
\* answer the start ends before it has changed anything
MarketList == Markets
\* create_market, a market without anything; load_market, what redis holds of it
CreateMarkets ==
    /\ update' = [m \in MarketList |-> {}] /\ deals' = [m \in MarketList |-> <<>>]
    /\ dirty' = [m \in MarketList |-> TRUE]
LoadMarkets ==
    /\ klines' = [m \in MarketList |-> Kept(redis.klines[m], now)]
    /\ last' = [m \in MarketList |-> redis.last[m]]
    /\ deals_json' = [m \in MarketList |-> redis.deals[m]]
InitMarket == CreateMarkets /\ LoadMarkets

\* init_message: init_market, get_message_offset and the consumer, which kafka
\* puts at the end of the topic when its offset is beyond it
Start ==
    /\ ~up /\ up' = TRUE
    /\ InitMarket
    /\ last_offset' = redis.offset
    /\ position' = IF redis.offset + 1 > End THEN End ELSE redis.offset + 1
    /\ UNCHANGED <<span, now, feed, flushing, redis, crashes>>

-----------------------------------------------------------------------------
NoKlines == [m \in Markets |-> [u \in Units |-> [t \in {} |-> NewKline(0)]]]
Nothing == [klines |-> NoKlines, last |-> [m \in Markets |-> 0],
            deals |-> [m \in Markets |-> <<>>], offset |-> 0]

PriceInit ==
    /\ span \in Spans
    /\ now = 0 /\ feed = <<>> /\ up = FALSE /\ position = 0 /\ crashes = 0
    /\ klines = NoKlines /\ update = [m \in Markets |-> {}] /\ last = Nothing.last
    /\ deals = Nothing.deals /\ deals_json = deals /\ dirty = [m \in Markets |-> FALSE]
    /\ last_offset = 0 /\ flushing = <<>> /\ redis = Nothing

Flush == FlushUpdate \/ FlushLast \/ FlushDeals \/ FlushOffset

PriceNext ==
    \/ Tick \/ \E m \in Markets : Produce(m)
    \/ OnDealsMessage \/ OnMarketTimer \/ Flush
    \/ OnClearTimer \/ ClearRedis \/ Crash \/ Start

\* Timers fire, commands are answered and a crashed process is started again;
\* between two flushes, ten seconds apart, the loop reads the consumer's pipe.
Fairness ==
    /\ SF_priceVars(OnDealsMessage) /\ WF_priceVars(OnMarketTimer) /\ WF_priceVars(Start)
    /\ WF_priceVars(Flush)

PriceSpec == PriceInit /\ [][PriceNext]_priceVars /\ Fairness

-----------------------------------------------------------------------------
(* Properties *)

\* The deals of a market up to an offset
DealsOf(m, offset) == {o \in FirstOffset .. offset : DealAt(o).market = m}

NoKline == NewKline(0)
Consumed == position - 1

\* The kline of those of the given deals with a time in start..end-1, without
\* regard to how it was put together
KlineOf(given, start, end) ==
    LET D == {o \in given : start <= DealAt(o).time /\ DealAt(o).time < end}
        prices == {DealAt(o).price : o \in D}
    IN  IF D = {} THEN NoKline ELSE
        [open |-> DealAt(Min(D)).price, close |-> DealAt(Max(D)).price,
         high |-> Max(prices), low |-> Min(prices),
         volume |-> SumFunction([o \in D |-> DealAt(o).amount]),
         deal |-> SumFunction([o \in D |-> DealAt(o).price * DealAt(o).amount])]

\* The klines of a market that are right for the deals up to an offset, but for
\* those that are old enough to be cleared
Explained(K, m, offset) ==
    LET D == DealsOf(m, offset)
    IN  \A u \in Units : \A t \in Oldest(u, now)..now :
            t % Length(u) = 0 =>
                KlineOf(D, t, t + Length(u)) = IF t \in DOMAIN K[u] THEN K[u][t] ELSE NoKline

\* The list has the newest of the deals D, as many as it may have, each with those before it
\* that are newer.
IsNewest(list, D) ==
    /\ Len(list) = Min({DealsMax, Cardinality(D)})
    /\ \A i \in DOMAIN list : list[i] \in D /\ Cardinality({o \in D : o > list[i]}) = i - 1

LastPrice(m, offset) ==
    LET D == DealsOf(m, offset) IN IF D = {} THEN 0 ELSE DealAt(Max(D)).price

\* Every kline, the last price and the list of deals are those of the deals of the topic that
\* the consumer is past, each counted once, whatever was flushed, cleared or loaded in between;
\* and between two flushes redis holds the same of the deals up to k:offset (market_update,
\* flush_market, clear_kline, load_market).
DealsExplained ==
    \A m \in Markets :
        /\ up => /\ Explained(klines[m], m, Consumed)
                 /\ last[m] = LastPrice(m, Consumed)
                 /\ IsNewest(deals_json[m], DealsOf(m, Consumed))
        /\ flushing = <<>> => /\ Explained(redis.klines[m], m, redis.offset)
                               /\ redis.last[m] = LastPrice(m, redis.offset)
                               /\ IsNewest(redis.deals[m], DealsOf(m, redis.offset))

\* A deal of the topic is in redis at last, and the offset says so.
DealsReachRedis == \A n \in 1..MaxDeals : Len(feed) >= n ~> redis.offset >= n + FirstOffset - 1
=============================================================================
