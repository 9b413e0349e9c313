------------------------------ MODULE Gateway ------------------------------
(***************************************************************************)
(* How a request of a client is forwarded to a service and its answer is   *)
(* brought back: accesshttp (ah_server.c) and the queries of accessws      *)
(* (aw_server.c), with the table of request states both keep (nw_state.c), *)
(* their connections to the services (ut_rpc_clt.c), the cache of accessws *)
(* and, as one of the services, readhistory with its job threads.          *)
(*                                                                         *)
(* A front is one event loop: each handler is one step.  What a service    *)
(* answers is a version of its data.  A request that cannot be decoded, a  *)
(* send that fails and a client that leaves all close the connection.      *)
(***************************************************************************)
EXTENDS RHServer

CONSTANTS
    Plans,         \* [front, methods, services, asks]: "http" or "ws", what its
                   \* clients ask ("unknown": a method it has not), the services
                   \* that needs, and how many requests come at most
    Slots,         \* the nw_ses objects of the server
    Users,
    IdSpace,       \* state ids are 0 .. IdSpace - 1 (2^32 in the code)
    None, Error,
    Faults,        \* "stale_id": an id is given out while a packet still carries it
    MaxSes, MaxData, MaxDrops    \* bounds

ASSUME GatewayAssumption ==
    /\ \A p \in Plans : p.front \in {"http", "ws"} /\ p.asks \in Nat
    /\ IdSpace \in Nat \ {0, 1} /\ Faults \subseteq {"stale_id"}
    /\ {MaxSes, MaxData, MaxDrops} \subseteq Nat

Services == {"matchengine", "marketprice", "readhistory"}

VARIABLES
    plan,       \* the front this behaviour is about, one of Plans
    idCount,    \* nw_svr.id_start: connections accepted
    ses,        \* ses[s]: the id in the session object s, 0 when it is free
    user,       \* clt_info.user_id of the session, None before its auth
    asked,      \* the requests, in the order they came: [by, about]
    answer,     \* what was sent in answer to each of them: [to, about, ver]
    table,      \* nw_state: state id -> [slot, ses, n], a partial function
    idStart,    \* nw_state.id_start
    cache,      \* backend_cache: method -> [ver, old], a partial function
    up,         \* rpc_clt_connected
    drops,      \* connections to each service that broke
    toService, fromService,    \* packets on the way
    data        \* version of the data the services hold

clientVars == <<plan, idCount, ses, user>>
stateVars == <<asked, answer, table, idStart, cache>>
linkVars == <<up, drops, toService, fromService, rhSes>>
vars == <<clientVars, stateVars, linkVars, jobVars, data>>

front == plan.front

With(f, x, v) == [y \in DOMAIN f \cup {x} |-> IF y = x THEN v ELSE f[y]]
Without(f, x) == [y \in DOMAIN f \ {x} |-> f[y]]

-----------------------------------------------------------------------------
(* nw_state.c; the chains of its hash table are the function table. *)

FreeIds == 1 .. IdSpace - 1 \ DOMAIN table
Ahead(i) == (i + IdSpace - idStart - 1) % IdSpace

EvenIfUsed == IF idStart + 1 = IdSpace THEN 1 ELSE idStart + 1

\* Count on from id_start, wrap, skip 0 and the ids in use.
GetAvailableId == CHOOSE i \in FreeIds : \A j \in FreeIds : Ahead(i) <= Ahead(j)

StateAdd(s, n) ==
    /\ idStart' = GetAvailableId
    /\ table' = With(table, idStart', [slot |-> s, ses |-> ses[s], n |-> n])
StateDel(i) ==
    /\ table' = Without(table, i)
    /\ UNCHANGED idStart

-----------------------------------------------------------------------------
(* The connections to the services. *)

Packets(q) == {q[i] : i \in DOMAIN q}
JobPackets == {e.pkg : e \in {j \in Unfinished : Answers(j)}}
InFlight == (UNION {Packets(toService[b]) \cup Packets(fromService[b]) : b \in Services})
              \cup JobPackets

\* State ids that a packet still carries although its request was given up.
StaleIds == {p.seq : p \in {q \in InFlight :
                 ~(q.seq \in DOMAIN table /\ table[q.seq].n = q.n)}}

\* rpc_clt_send; when it fails the state is left to its timer, as after Drop.
SendTo(b, p) ==
    /\ toService' = [toService EXCEPT ![b] = Append(@, p)]
    /\ UNCHANGED <<up, drops, fromService, rhSes>>

DropAndForget(b) ==
    /\ b \in plan.services /\ up[b] /\ \A c \in Services : drops[c] < MaxDrops
    /\ up' = [up EXCEPT ![b] = FALSE] /\ drops' = [drops EXCEPT ![b] = @ + 1]
    /\ toService' = [toService EXCEPT ![b] = <<>>]
    /\ fromService' = [fromService EXCEPT ![b] = <<>>]
    /\ rhSes' = (IF b = "readhistory" THEN 0 ELSE rhSes) /\ table' = <<>>
    /\ UNCHANGED <<clientVars, asked, answer, idStart, cache, jobVars, data>>

\* The connection breaks, or no heartbeat came in time: what it held is lost.
\* Bound: only a connection that the plan uses.
Drop(b) ==
    /\ b \in plan.services
    /\ up[b] /\ \A c \in Services : drops[c] < MaxDrops
    /\ up' = [up EXCEPT ![b] = FALSE]
    /\ drops' = [drops EXCEPT ![b] = @ + 1]
    /\ toService' = [toService EXCEPT ![b] = <<>>]
    /\ fromService' = [fromService EXCEPT ![b] = <<>>]
    /\ rhSes' = IF b = "readhistory" THEN 0 ELSE rhSes
    /\ UNCHANGED <<clientVars, stateVars, jobVars, data>>

Reconnect(b) ==
    /\ ~up[b]
    /\ up' = [up EXCEPT ![b] = TRUE]
    /\ rhSes' = IF b = "readhistory" THEN drops[b] + 1 ELSE rhSes
    /\ UNCHANGED <<clientVars, stateVars, drops, toService, fromService, jobVars, data>>

-----------------------------------------------------------------------------
(* The clients' connections. *)

Accept(s) ==
    /\ ses[s] = 0 /\ idCount < MaxSes
    /\ idCount' = idCount + 1
    /\ ses' = [ses EXCEPT ![s] = idCount']
    /\ user' = [user EXCEPT ![s] = None]
    /\ UNCHANGED <<plan, stateVars, linkVars, jobVars, data>>

\* on_close of accessws takes the subscriptions away; no request is given up.
Close(s) ==
    /\ ses[s] # 0
    /\ ses' = [ses EXCEPT ![s] = 0]
    /\ UNCHANGED <<plan, idCount, user, stateVars, linkVars, jobVars, data>>

\* The token of the session was verified (see AWUser).
Authenticate(s, u) ==
    /\ front = "ws" /\ ses[s] # 0 /\ user[s] = None
    /\ user' = [user EXCEPT ![s] = u]
    /\ UNCHANGED <<plan, idCount, ses, stateVars, linkVars, jobVars, data>>

-----------------------------------------------------------------------------
(* Requests: where they go, and whether accessws caches the answer. *)

\* accesshttp, init_methods_handler.
HttpHandler(m) ==
    CASE m \in {"market.last", "market.deals", "market.kline", "market.status",
                "market.status_today"} -> "marketprice"
      [] m \in {"balance.history", "order.deals", "order.finished",
                "order.finished_detail", "market.user_deals"} -> "readhistory"
      [] OTHER -> "matchengine"

\* accessws: queries about a market, cached, and about the user of the session.
KlineQuery == [to |-> "marketprice", cached |-> TRUE]
DepthQuery == [to |-> "matchengine", cached |-> TRUE]
PriceQuery == [to |-> "marketprice", cached |-> TRUE]
StateQuery == [to |-> "marketprice", cached |-> TRUE]
TodayQuery == [to |-> "marketprice", cached |-> TRUE]
DealsQuery == [to |-> "marketprice", cached |-> TRUE]
OrderQuery == [to |-> "matchengine", cached |-> FALSE]
OrderHistory == [to |-> "readhistory", cached |-> FALSE]
AssetQuery == [to |-> "matchengine", cached |-> FALSE]
AssetHistory == [to |-> "readhistory", cached |-> FALSE]

WsHandler(m) ==
    CASE m = "kline.query" -> KlineQuery [] m = "depth.query" -> DepthQuery
      [] m = "price.query" -> PriceQuery [] m = "state.query" -> StateQuery
      [] m = "today.query" -> TodayQuery [] m = "deals.query" -> DealsQuery
      [] m = "order.query" -> OrderQuery [] m = "order.history" -> OrderHistory
      [] m = "asset.query" -> AssetQuery [] OTHER -> AssetHistory

Service(m) == IF front = "http" THEN HttpHandler(m) ELSE WsHandler(m).to
IsCached(m) == front = "ws" /\ WsHandler(m).cached
NeedsAuth(m) == front = "ws" /\ ~WsHandler(m).cached

AboutOf(s, m) == <<m, IF m # "unknown" /\ NeedsAuth(m) THEN user[s] ELSE None>>

\* Request n = Len(asked) + 1 comes in and is answered now, or not yet.
Asked(s, m, now) ==
    /\ asked' = Append(asked, [by |-> ses[s], about |-> AboutOf(s, m)])
    /\ answer' = Append(answer, now)

ErrorTo(c) == [to |-> c, about |-> Error, ver |-> NoData]
DataTo(c, about, v) == [to |-> c, about |-> about, ver |-> v]

\* A method nobody handles: accesshttp says so, accessws only logs it.
UnknownMethod(s, m) ==
    /\ m = "unknown"
    /\ Asked(s, m, IF front = "http" THEN <<ErrorTo(ses[s])>> ELSE <<>>)
    /\ UNCHANGED <<table, idStart, cache, linkVars>>

\* The service is not connected, or the session has not authenticated.
Refuse(s, m) ==
    /\ m # "unknown"
    /\ ~up[Service(m)] \/ (NeedsAuth(m) /\ user[s] = None)
    /\ Asked(s, m, <<ErrorTo(ses[s])>>)
    /\ UNCHANGED <<table, idStart, cache, linkVars>>

\* process_cache finds an answer younger than cache_timeout.
FromCache(s, m) ==
    /\ m # "unknown" /\ up[Service(m)]
    /\ IsCached(m) /\ m \in DOMAIN cache /\ ~cache[m].old
    /\ Asked(s, m, <<DataTo(ses[s], AboutOf(s, m), cache[m].ver)>>)
    /\ UNCHANGED <<table, idStart, cache, linkVars>>

\* The request gets a state and goes to the service.  Without "stale_id" no packet
\* carries an id that was given up by the time the ids have wrapped.
Forward(s, m) ==
    /\ m # "unknown" /\ up[Service(m)]
    /\ NeedsAuth(m) => user[s] # None
    /\ IsCached(m) /\ m \in DOMAIN cache => cache[m].old
    /\ FreeIds # {} /\ ("stale_id" \in Faults \/ GetAvailableId \notin StaleIds)
    /\ Asked(s, m, <<>>)
    /\ StateAdd(s, Len(asked'))
    /\ cache' = IF IsCached(m) THEN Without(cache, m) ELSE cache
    /\ SendTo(Service(m), [seq |-> idStart', n |-> Len(asked'), ver |-> NoData])

\* on_http_request, on_message.
OnRequest(s, m) ==
    /\ ses[s] # 0 /\ Len(asked) < plan.asks
    /\ UnknownMethod(s, m) \/ Refuse(s, m) \/ FromCache(s, m) \/ Forward(s, m)
    /\ UNCHANGED <<clientVars, jobVars, data>>

-----------------------------------------------------------------------------
(* Answers. *)

\* The session object may by now be free, or belong to another connection.
Asker(e) == ses[e.slot] # 0 /\ ses[e.slot] = e.ses

CacheIfAbsent(m, v) ==
    IF m \in DOMAIN cache THEN cache ELSE With(cache, m, [ver |-> v, old |-> FALSE])
ToCache(m, v) == With(cache, m, [ver |-> v, old |-> FALSE])

\* on_backend_recv_pkg looks the state up, sends, caches a result and deletes it.
OnBackendRecvPkg(b) ==
    /\ fromService[b] # <<>>
    /\ fromService' = [fromService EXCEPT ![b] = Tail(@)]
    /\ LET p == Head(fromService[b])
           e == table[p.seq]
           m == asked[e.n].about[1]
       IN  IF p.seq \notin DOMAIN table
           THEN UNCHANGED stateVars
           ELSE /\ answer' = IF Asker(e)
                             THEN [answer EXCEPT ![e.n] = Append(@,
                                    DataTo(ses[e.slot], asked[p.n].about, p.ver))]
                             ELSE answer
                /\ cache' = IF IsCached(m) /\ p.ver # Refusal THEN ToCache(m, p.ver) ELSE cache
                /\ StateDel(p.seq)
                /\ UNCHANGED asked
    /\ UNCHANGED <<clientVars, up, drops, toService, rhSes, jobVars, data>>

\* The timer of the state ends: on_state_timeout (on_timeout), then state_remove.
OnTimeout(i) ==
    /\ i \in DOMAIN table
    /\ LET e == table[i]
       IN  answer' = IF Asker(e)
                     THEN [answer EXCEPT ![e.n] = Append(@, ErrorTo(ses[e.slot]))]
                     ELSE answer
    /\ StateDel(i)
    /\ UNCHANGED <<asked, cache, clientVars, linkVars, jobVars, data>>

\* More than cache_timeout has passed since the answer was cached.
CacheAges(m) ==
    /\ m \in DOMAIN cache /\ ~cache[m].old
    /\ cache' = [cache EXCEPT ![m].old = TRUE]
    /\ UNCHANGED <<asked, answer, table, idStart, clientVars, linkVars, jobVars, data>>

\* Every 60 seconds.
OnCacheTimer ==
    /\ DOMAIN cache # {}
    /\ cache' = <<>>
    /\ UNCHANGED <<asked, answer, table, idStart, clientVars, linkVars, jobVars, data>>

-----------------------------------------------------------------------------
(* The services. *)

DataChanges ==
    /\ front = "ws" /\ data < MaxData
    /\ data' = data + 1
    /\ UNCHANGED <<clientVars, stateVars, linkVars, jobVars>>

\* matchengine and marketprice answer in their event loop, with an error result
\* when the arguments are invalid or the service is blocked.
Serve(b) ==
    /\ b # "readhistory" /\ toService[b] # <<>>
    /\ toService' = [toService EXCEPT ![b] = Tail(@)]
    /\ \E v \in {data, Refusal} :
          fromService' = [fromService EXCEPT ![b] = Append(@, [Head(toService[b]) EXCEPT !.ver = v])]
    /\ UNCHANGED <<clientVars, stateVars, up, drops, rhSes, jobVars, data>>

\* readhistory, svr_on_recv_pkg.
RHRecv ==
    LET b == "readhistory" IN
    /\ toService[b] # <<>> /\ loop = "idle"
    /\ toService' = [toService EXCEPT ![b] = Tail(@)]
    /\ \/ Enqueue(Head(toService[b])) /\ UNCHANGED fromService
       \/ /\ ~HasRoom
          /\ fromService' = [fromService EXCEPT ![b] =
                Append(@, [Head(toService[b]) EXCEPT !.ver = Refusal])]
          /\ UNCHANGED jobVars
    /\ UNCHANGED <<clientVars, stateVars, up, drops, rhSes, data>>

RHThread(t) ==
    /\ TakeRequest(t) \/ RunJob(t, {0, Refusal})
    /\ UNCHANGED <<clientVars, stateVars, linkVars, data>>

\* on_can_read of nw_job, with on_job_finish for each entry.
RHFinish ==
    /\ TakeReply
    /\ fromService' = IF Answers(Head(reply))
                      THEN [fromService EXCEPT !["readhistory"] = Append(@, Head(reply).pkg)]
                      ELSE fromService
    /\ UNCHANGED <<clientVars, stateVars, up, drops, toService, rhSes, data>>

RHLoop == RHFinish \/ ((DrainPipe \/ NoMoreReplies)
                         /\ UNCHANGED <<clientVars, stateVars, linkVars, data>>)

-----------------------------------------------------------------------------

Init ==
    /\ plan \in Plans
    /\ idCount = 0
    /\ ses = [s \in Slots |-> 0]
    /\ user = [s \in Slots |-> None]
    /\ asked = <<>> /\ answer = <<>>
    /\ table = <<>> /\ cache = <<>>
    /\ idStart = 0
    /\ up = [b \in Services |-> TRUE]
    /\ drops = [b \in Services |-> 0]
    /\ toService = [b \in Services |-> <<>>]
    /\ fromService = [b \in Services |-> <<>>]
    /\ rhSes = 1
    /\ data = 0
    /\ JobInit

Next ==
    \/ \E s \in Slots : Accept(s) \/ Close(s)
    \/ \E s \in Slots, u \in Users : Authenticate(s, u)
    \/ \E s \in Slots, m \in plan.methods : OnRequest(s, m)
    \/ \E b \in Services : Drop(b) \/ Reconnect(b) \/ Serve(b) \/ OnBackendRecvPkg(b)
    \/ \E i \in 1 .. IdSpace - 1 : OnTimeout(i)
    \/ \E m \in plan.methods : CacheAges(m)
    \/ OnCacheTimer
    \/ DataChanges
    \/ RHRecv
    \/ \E t \in Thread : RHThread(t)
    \/ RHLoop

\* Timers fire, and the threads and the event loop of readhistory go on.
Fairness ==
    /\ \A i \in 1 .. IdSpace - 1 : WF_vars(OnTimeout(i))
    /\ \A t \in Thread : WF_vars(RHThread(t))
    /\ WF_vars(RHLoop)

Spec == Init /\ [][Next]_vars
FairSpec == Spec /\ Fairness

-----------------------------------------------------------------------------
(* Properties. *)

Open == {ses[s] : s \in Slots} \ {0}

\* What the clients see of it: neither versions nor anything inside.
Seen(a) == [k \in DOMAIN a |-> [to |-> a[k].to, about |-> a[k].about]]
Promise == INSTANCE AnswerService WITH
    seen <- idCount, open <- Open, asked <- asked,
    answer <- [n \in DOMAIN answer |-> Seen(answer[n])],
    Question <- {<<m, u>> : m \in UNION {p.methods : p \in Plans}, u \in Users \cup {None}}

\* The fronts implement AnswerService: however answers, time-outs, reused state ids
\* and reused session objects race, each request is answered at most once, to the
\* connection that asked, about what it asked.
KeepsPromise == Promise!Spec

\* Every request of a known method is answered unless its client goes away, although
\* services are lost with the requests they hold.  (accessws never answers a method
\* it does not know.)
Requests == UNION {1 .. p.asks : p \in Plans}
Waiting(n) == /\ n \in DOMAIN asked /\ answer[n] = <<>>
              /\ asked[n].by \in Open /\ asked[n].about[1] # "unknown"
EveryRequestAnswered == \A n \in Requests : Waiting(n) ~> ~Waiting(n)

\* Whoever asks accessws about a market, from the cache or not, is never sent older
\* data than the worker has sent before.
Told(n, a) == n \in DOMAIN a /\ a[n] # <<>> /\ a[n][1].ver \in 0 .. MaxData
NeverOlder ==
    [][\A n, k \in DOMAIN answer' :
           /\ Told(n, answer') /\ ~Told(n, answer) /\ Told(k, answer)
           /\ asked'[n].about = asked'[k].about /\ IsCached(asked'[n].about[1])
           => answer'[n][1].ver >= answer[k][1].ver]_vars

\* Every job readhistory accepts (a bounded number) comes back to its event loop: a
\* wake-up of the loop is never lost between its look at the list and the write of a
\* thread.
JobsComeBack == (Unfinished # {}) ~> (Unfinished = {})
=============================================================================
