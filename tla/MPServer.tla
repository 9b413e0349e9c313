------------------------------ MODULE MPServer ------------------------------
(***************************************************************************)
(* The commands of marketprice (mp_server.c) and the weekly and monthly    *)
(* klines (mp_message.c): what a request is answered, in every state of    *)
(* MPMarket, out of the reply cache or anew.  The times are UTC;           *)
(* settings.timezone is 0.                                                 *)
(***************************************************************************)
EXTENDS MPMarket

CONSTANTS Week, Month,    \* the intervals 86400 * 7 and 86400 * 30 of a request
          Monday,         \* 3 * 86400: how long before a multiple of Week a week begins
          MonthStarts,    \* the times at which months begin
          CacheTimeout,   \* settings.cache_timeout, rounded up to whole seconds
          Invalid,        \* the error "invalid argument"
          Never           \* in place of an answer that never comes

ASSUME CalendarAssumption ==
    /\ Week % Day = 0 /\ Monday % Day = 0 /\ Monday < Week /\ Week < Month
    /\ 0 \in MonthStarts /\ \A t \in MonthStarts : t % Day = 0
    /\ \A s \in Spans : \E t \in MonthStarts : \A u \in s.times : t > u
ASSUME CacheAssumption == CacheTimeout \in Nat \ {0}

VARIABLE cache   \* dict_cache: request -> [time, position, result]

serverVars == <<priceVars, cache>>
NoCache == [r \in {} |-> 0]

-----------------------------------------------------------------------------
(* Klines *)

\* The begin of the first week: a multiple of Week less three days, and then as many
\* weeks as fit before start.
WeekStart(start) ==
    LET base == (start \div Week) * Week - Monday
    IN  base + Week * ((start - base) \div Week)
GetMarketKlineWeek(m, start, end) ==
    LET first == WeekStart(start)
    IN  Buckets(klines[m]["day"], first - LookBack, first, end, Week)

GetMonthStart(start) == Max({t \in MonthStarts : t <= start})
GetNextMonth(start) == Min({t \in MonthStarts : t > start})

\* What a round of the loop of get_market_kline_month begins with: the begin of the kline to
\* answer, the month the calendar is at, the last price, and the answer so far, by begin.
\* A round that finds no kline and knows no price moves on in the calendar and not in from.
MonthRound(dict, end, r) ==
    LET next == GetNextMonth(r.month)
        inside == {d \in DOMAIN dict : r.from <= d /\ d < next /\ d <= end}
        kline == IF inside # {} THEN Merged(dict, inside) ELSE NewKline(r.close)
    IN  IF inside = {} /\ r.close = 0 THEN [r EXCEPT !.month = next]
        ELSE [from |-> next, month |-> next, close |-> kline.close, answer |-> Put(r.answer, r.from, kline)]
\* The last kline before the first month is looked for from LookBack before start on.  A loop
\* that has gone through the calendar of the model goes on for ever.
GetMarketKlineMonth(m, start, end) ==
    LET dict == klines[m]["day"]
        first == GetMonthStart(start)
        rounds[n \in 0 .. Cardinality(MonthStarts)] ==
            IF n = 0 THEN [from |-> first, month |-> first, close |-> LastClose(dict, first - Day, start - LookBack),
                           answer |-> [t \in {} |-> NewKline(0)]]
            ELSE IF rounds[n - 1].from > end \/ rounds[n - 1].month = Max(MonthStarts) THEN rounds[n - 1]
            ELSE MonthRound(dict, end, rounds[n - 1])
        last_round == rounds[Cardinality(MonthStarts)]
    IN  IF last_round.from > end THEN last_round.answer ELSE Never

\* The dictionary of an interval; the divisors it must be of, and a multiple of.
Unit(interval) ==
    CASE interval < Minute -> "sec"
      [] interval >= Minute /\ interval < Hour -> "min"
      [] interval >= Hour /\ interval < Day -> "hour"
      [] interval >= Day /\ interval < Week -> "day"
      [] interval = Week -> "week"
      [] interval = Month -> "month"
      [] OTHER -> "none"
IsGoodInterval(interval) ==
    /\ interval > 0
    /\ CASE Unit(interval) = "sec" -> Minute % interval = 0
         [] Unit(interval) = "min" -> interval % Minute = 0 /\ Hour % interval = 0
         [] Unit(interval) = "hour" -> interval % Hour = 0 /\ Day % interval = 0
         [] Unit(interval) = "day" -> interval % Day = 0
         [] OTHER -> Unit(interval) # "none"

MarketKline(m, start, until, interval) ==
    LET end == Min({until, now})
    IN  IF start <= 0 \/ end <= 0 \/ start > end \/ ~IsGoodInterval(interval) THEN Invalid
        ELSE CASE Unit(interval) = "week" -> GetMarketKlineWeek(m, start, end)
               [] Unit(interval) = "month" -> GetMarketKlineMonth(m, start, end)
               [] OTHER -> GetMarketKline(m, Unit(interval), start, end, interval)

-----------------------------------------------------------------------------
(* Deals, status and the last price *)

\* get_market_deals: the list is left at the first deal up to last_id, or after limit deals.
GetMarketDeals(m, limit, last_id) ==
    LET older == {i \in DOMAIN deals_json[m] : deals_json[m][i] <= last_id}
        newer == IF older = {} THEN deals_json[m] ELSE SubSeq(deals_json[m], 1, Min(older) - 1)
    IN  Newest(limit, newer)
OnCmdMarketDeals(m, limit, last_id) ==
    IF limit <= 0 \/ limit > DealsMax THEN Invalid ELSE GetMarketDeals(m, limit, last_id)

MarketStatus(m, period) ==
    IF period <= 0 \/ period > SecMax THEN Invalid ELSE GetMarketStatus(m, period)
OnCmdMarketLast(m) == last[m]

-----------------------------------------------------------------------------
(* The reply cache *)

\* The requests whose replies are kept: the key of dict_cache is the command and its arguments.
KlineRequest(m, start, until, interval) ==
    [command |-> "kline", market |-> m, start |-> start, until |-> until, interval |-> interval]
StatusRequest(m, period) == [command |-> "status", market |-> m, period |-> period]
TodayRequest(m) == [command |-> "status_today", market |-> m]

\* What a request is answered anew
Result(r) ==
    CASE r.command = "kline" -> MarketKline(r.market, r.start, r.until, r.interval)
      [] r.command = "status" -> MarketStatus(r.market, r.period)
      [] r.command = "status_today" -> GetMarketStatusToday(r.market)

\* svr_on_recv_pkg: the loop answers while it does not flush.
MayAnswer == up /\ flushing = <<>>

\* process_cache: an entry answers for cache_timeout.  Its clock is finer than that of the model:
\* entries of a second that began CacheTimeout ago may answer or not.
HitsCache(r) == r \in DOMAIN cache /\ now - cache[r].time <= CacheTimeout
MissesCache(r) == r \in DOMAIN cache => now - cache[r].time >= CacheTimeout - 1

\* add_cache: a result is kept, an error is not; the entry that was too old is gone.
AddCache(r) ==
    cache' = IF Result(r) \in {Invalid, Never} THEN [q \in DOMAIN cache \ {r} |-> cache[q]]
             ELSE Put(cache, r, [time |-> now, position |-> position, result |-> Result(r)])

\* A command is answered from the cache, or anew and kept.
Cached(r) ==
    /\ MayAnswer
    /\ \/ HitsCache(r) /\ UNCHANGED cache
       \/ MissesCache(r) /\ AddCache(r)
    /\ UNCHANGED priceVars

OnCmdMarketKline(r) == r.command = "kline" /\ Cached(r)
OnCmdMarketStatus(r) == r.command = "status" /\ Cached(r)
OnCmdMarketStatusToday(r) == r.command = "status_today" /\ Cached(r)

\* on_cache_timer, once a minute
OnCacheTimer ==
    /\ MayAnswer /\ cache # NoCache
    /\ cache' = NoCache
    /\ UNCHANGED priceVars

\* The cache is memory: it is gone with the process.
MarketStep == PriceNext /\ cache' = IF up' THEN cache ELSE NoCache

ServerInit == PriceInit /\ cache = NoCache
ServerNext ==
    \/ MarketStep \/ OnCacheTimer
    \/ \E r \in span.asked : OnCmdMarketKline(r) \/ OnCmdMarketStatus(r) \/ OnCmdMarketStatusToday(r)
ServerSpec == ServerInit /\ [][ServerNext]_serverVars /\ Fairness

-----------------------------------------------------------------------------
(* Properties *)

\* What an answer of market.kline holds for the interval from b to end: its deals, or the price
\* before them that a kline of the unit u not before low has.
BucketOf(given, u, low, b, end) ==
    LET here == KlineOf(given, b, end)
        before == {o \in given : KlineTime(u, DealAt(o).time) >= low /\ DealAt(o).time < b}
    IN  IF here # NoKline \/ before = {} THEN here
        ELSE NewKline(DealAt(Max(before)).price)

Intervals == {i \in 1 .. Week : IsGoodInterval(i)}
\* The begin of the interval an answer starts with: the one start is in, unless that is too
\* old at the time t; weeks begin on the first day of a week.
First(u, start, interval, t) ==
    IF u = "week" THEN CHOOSE b \in start - Week + 1 .. start : (b + Monday) % Week = 0
    ELSE CHOOSE b \in {Max({start, Oldest(u, t)}) - i : i \in 0 .. interval - 1} : b % interval = 0

\* The answer of market.kline at the time t, read off the deals D: for every interval from the
\* one of start to the one of the end, the kline of the deals in it, and the price before it
\* when there are none; the intervals without any price before them are left out.
KlineReading(D, t, r) ==
    LET u == Unit(r.interval)
        end == Min({r.until, t})
        first == First(u, r.start, r.interval, t)
        days == u \in {"day", "week"}
        K == [i \in 0 .. Max({end - first, 0}) \div r.interval |->
                BucketOf(D, IF days THEN "day" ELSE u, IF days THEN first - LookBack ELSE Oldest(u, t),
                         first + i * r.interval, first + (i + 1) * r.interval)]
    IN  [i \in {i \in DOMAIN K : first <= end /\ K[i] # NoKline} |-> K[i]]

\* The same for months up to now
MonthReading(D, t, r) ==
    LET K == [b \in {b \in MonthStarts : GetMonthStart(r.start) <= b /\ b <= t} |->
                BucketOf(D, "day", r.start - LookBack, b, GetNextMonth(b))]
    IN  [b \in {b \in DOMAIN K : K[b] # NoKline} |-> K[b]]

\* The volume of the last day, with the present second or without, and the prices of today or
\* else the last one before
TodayReadings(D, t) ==
    LET start == KlineTime("day", t)
        k == BucketOf(D, "day", start - LookBack, start, start + Day)
    IN  {[open |-> k.open, last |-> k.close, high |-> k.high, low |-> k.low,
          volume |-> KlineOf(D, t - Day, end).volume] : end \in {t, t + 1}}

\* What a request may be answered at the time t when the deals D are known
Readings(D, t, r) ==
    CASE r.command = "kline" /\ r.interval = Month -> {MonthReading(D, t, r)}
      [] r.command = "kline" /\ r.interval # Month -> {KlineReading(D, t, r)}
      [] r.command = "status" -> {KlineOf(D, t - r.period, end) : end \in {t, t + 1}}
      [] r.command = "status_today" -> TodayReadings(D, t)

\* A price in the first month of an answer, or one that is looked for before it
HasPriceInMonth(m, start) ==
    \E o \in DealsOf(m, Consumed) :
        KlineTime("day", DealAt(o).time) \in start - LookBack .. GetNextMonth(GetMonthStart(start)) - 1

\* The requests for the klines up to now, the statuses and, where sec_max has a day, today's
Requests(m) ==
    {KlineRequest(m, start, now, interval) : start \in 1 .. now, interval \in Intervals}
    \cup {KlineRequest(m, start, now, Month) : start \in {t \in 1 .. now : HasPriceInMonth(m, t)}}
    \cup {StatusRequest(m, period) : period \in 1 .. SecMax}
    \cup IF SecMax >= Day THEN {TodayRequest(m)} ELSE {}

\* Every market.kline of months is answered, with the klines of its months
\* (get_market_kline_month).
MonthsAnswered ==
    MayAnswer => \A m \in span.markets, start \in 1 .. now :
        LET r == KlineRequest(m, start, now, Month)
        IN  Result(r) \in Readings(DealsOf(m, Consumed), now, r)

\* What is answered anew is what the deals up to the consumer's position say now
\* (on_cmd_market_kline, on_cmd_market_status, on_cmd_market_status_today).
AnsweredAnew ==
    \A m \in span.markets : \A r \in Requests(m) : Result(r) \in Readings(DealsOf(m, Consumed), now, r)

\* What is answered from the cache is what the deals said when this very request was answered
\* anew, no longer than cache_timeout ago (process_cache, add_cache).
AnsweredFromCache ==
    \A r \in DOMAIN cache : HitsCache(r) =>
        LET kept == cache[r]
        IN  /\ kept.time \in now - CacheTimeout .. now
            /\ kept.result \in Readings(DealsOf(r.market, kept.position - 1), kept.time, r)

\* market.deals answers the deals after last_id, or the newest ones the list holds.
DealsAnswers ==
    \A m \in span.markets, last_id \in 0 .. Consumed :
        IsNewest(OnCmdMarketDeals(m, DealsMax, last_id), {o \in DealsOf(m, Consumed) : o > last_id})

=============================================================================
