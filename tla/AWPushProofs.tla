----------------------------- MODULE AWPushProofs -----------------------------
(***************************************************************************)
(* Proofs about AWPush, for every set of addresses, topics, markets and    *)
(* values, and every bound.                                                *)
(*                                                                         *)
(* Two things can go wrong with a subscription: it outlives its connection *)
(* or its request to unsubscribe, and a stranger gets the updates; or it   *)
(* ends before, and a client that relies on it misses an update.  The      *)
(* first cannot happen when on_close finds what it looks for; the second   *)
(* cannot happen at all.                                                   *)
(***************************************************************************)
EXTENDS AWPush, FiniteSetTheorems, SequenceTheorems, TLAPS

\* Connections, dictionaries, and what the clients have
ClientTypes ==
    /\ open \in [Slots -> BOOLEAN] /\ gone \in [Slots -> BOOLEAN] /\ pending \in [Slots -> BOOLEAN]
    /\ asked \in [Slots -> SUBSET Channels] /\ owed \in [Slots -> SUBSET Channels]
SubTypes ==
    /\ sessions \in [DOMAIN sessions -> SUBSET Slots] /\ DOMAIN sessions \subseteq Channels
    /\ last = [c \in DOMAIN sessions |-> last[c]]
DataTypes ==
    /\ deals = [m \in Markets |-> deals[m]]
    /\ told = [p \in Slots |-> told[p]] /\ got = [p \in Slots |-> got[p]]
    /\ \A p \in Slots : /\ told[p] = [c \in Channels |-> told[p][c]]
                        /\ got[p] = [m \in Markets |-> got[p][m]]
PushTypes == ClientTypes /\ SubTypes /\ DataTypes

\* Nothing is owed to an address without a connection.
OwedOpen == \A p \in Slots : owed[p] # {} => open[p]

SentInv == PushTypes /\ SentOnlyWhatAsked
CaughtInv == PushTypes /\ OwedOpen /\ CaughtUp

-----------------------------------------------------------------------------
(* What a step is *)

\* A request to subscribe or unsubscribe, of whatever topic
Subscription(p, topic, C) ==
    /\ C \subseteq Of(topic, Markets) /\ Subscribe(p, topic, C)
    /\ \/ Owe(p, topic, C) /\ SendLast(p, C)
       \/ Owe(p, topic, C) /\ topic = "kline" /\ UNCHANGED <<told, got>>
       \/ Owe(p, topic, {}) /\ UNCHANGED <<told, got>>

\* The end of the sessions F, of which those of Found are unsubscribed
Ending(F, Found) ==
    /\ OnClose(F, Found)
    /\ told' = Forget(told, F, NothingTold) /\ got' = Forget(got, F, NothingGot)
    /\ UNCHANGED <<instance, last, deals, requests, deal_id>>

\* A subscription that ends with its channel
Dropping(D) ==
    /\ D \subseteq DOMAIN sessions
    /\ \A c \in D : sessions[c] = {} \/ c[2] \in Unknown
    /\ sessions' = [c \in DOMAIN sessions \ D |-> sessions[c]]
    /\ last' = [c \in DOMAIN last \ D |-> last[c]]
    /\ UNCHANGED <<instance, clients, deals, ghosts>>

\* A new value of the channel c, sent to its subscribers
ValueSent(c, value, F) ==
    /\ c \in DOMAIN sessions /\ c[2] \notin Unknown /\ Broadcast(sessions[c], F)
    /\ last' = [last EXCEPT ![c] = value]
    /\ told' = [p \in Slots |-> IF p \in F THEN NothingTold
                  ELSE IF p \in sessions[c] /\ open[p]
                       THEN [told[p] EXCEPT ![c] = value] ELSE told[p]]
    /\ got' = Forget(got, F, NothingGot)
    /\ UNCHANGED <<instance, deals>>

\* New deals of the market m, sent to its subscribers
DealsSent(m, ids, F) ==
    /\ <<"deals", m>> \in DOMAIN sessions /\ m \notin Unknown /\ Broadcast(sessions[<<"deals", m>>], F)
    /\ deals' = [deals EXCEPT ![m] = DealsAdded(@, ids)]
    /\ got' = [p \in Slots |-> IF p \in F THEN NothingGot
                 ELSE IF p \in sessions[<<"deals", m>>] /\ open[p]
                      THEN [got[p] EXCEPT ![m] = @ \cup ToSet(ids)] ELSE got[p]]
    /\ told' = Forget(told, F, NothingTold)
    /\ UNCHANGED <<instance, last>>

\* The deals of an answer
Answer(m, ids) ==
    /\ "deals" \in Topics /\ ids # <<>> /\ requests["deals"] # <<>> /\ Head1("deals").market = m
    /\ ids = DealsAfter(Head1("deals").since, deal_id[m])

Quiet == UNCHANGED <<instance, clients, sessions, last, deals, ghosts>>

\* Every step is one of a few kinds.
LEMMA Steps ==
    ASSUME PushTypes, [Next]_vars
    PROVE  \/ Quiet
           \/ \E p \in Slots : Accept(p) \/ Leave(p) \/ Ready(p)
           \/ \E p \in Slots : Ending({p}, {p}) \/ ("foreign_close" \in Faults /\ Ending({p}, {}))
           \/ \E p \in Slots : \E topic, C : Subscription(p, topic, C)
           \/ \E D : Dropping(D)
           \/ \E c, value : \E F \in SUBSET Slots : ValueSent(c, value, F)
           \/ \E m, ids : \E F \in SUBSET Slots : Answer(m, ids) /\ DealsSent(m, ids, F)
<1>1. CASE Connection
  <2>1. PICK p \in Slots : Accept(p) \/ Leave(p) \/ Ready(p) \/ OnRead(p) \/ OnIdle(p)
    BY <1>1 DEF Connection
  <2>2. CASE OnRead(p)
    BY <2>2 DEF OnRead, Ending
  <2>3. CASE OnIdle(p)
    <3>1. CASE pending[p]
      <4>1. "foreign_close" \in Faults /\ {q \in {p} : ~pending[q]} = {}
        BY <2>3, <3>1 DEF OnIdle, CloseForeign
      <4> QED
        BY <2>3, <4>1 DEF OnIdle, CloseForeign, Ending
    <3>2. CASE ~pending[p]
      <4>1. {q \in {p} : ~pending[q]} = {p}
        BY <3>2
      <4> QED
        BY <2>3, <4>1 DEF OnIdle, CloseForeign, Ending
    <3> QED
      BY <3>1, <3>2
  <2> QED
    BY <2>1, <2>2, <2>3
<1>2. CASE Handler
  <2>1. PICK p \in Slots :
           \/ OnMethodStateSubscribe(p) \/ OnMethodTodaySubscribe(p) \/ OnMethodPriceSubscribe(p)
           \/ OnMethodDealsSubscribe(p) \/ OnMethodKlineSubscribe(p)
           \/ \E t \in Topics : OnMethodUnsubscribe(p, t)
    BY <1>2 DEF Handler
  <2>2. ASSUME NEW topic, NEW M \in SUBSET Markets, SubscribeMarkets(p, topic, M)
        PROVE  Subscription(p, topic, Of(topic, M))
    BY <2>2 DEF SubscribeMarkets, Subscription, Of
  <2>3. CASE OnMethodKlineSubscribe(p)
    <3>1. PICK m \in Markets : /\ Subscribe(p, "kline", Of("kline", {m})) /\ Owe(p, "kline", Of("kline", {m}))
                               /\ UNCHANGED <<told, got>>
      BY <2>3 DEF OnMethodKlineSubscribe
    <3>2. Of("kline", {m}) \subseteq Of("kline", Markets)
      BY DEF Of
    <3>3. Subscription(p, "kline", Of("kline", {m}))
      BY <3>1, <3>2 DEF Subscription
    <3> QED
      BY <3>3
  <2>4. CASE \E t \in Topics : OnMethodUnsubscribe(p, t)
    <3>1. PICK t : OnMethodUnsubscribe(p, t)
      BY <2>4
    <3>2. Subscription(p, t, {})
      BY <3>1 DEF OnMethodUnsubscribe, Subscription
    <3> QED
      BY <3>2
  <2>5. CASE \E topic : \E M \in SUBSET Markets : SubscribeMarkets(p, topic, M)
    BY <2>2, <2>5
  <2> QED
    BY <2>1, <2>3, <2>4, <2>5 DEF OnMethodStateSubscribe, OnMethodTodaySubscribe,
                                  OnMethodPriceSubscribe, OnMethodDealsSubscribe
<1>3. ASSUME NEW topic, OnErrorReply(topic) PROVE Quiet \/ \E D : Dropping(D)
  <2> DEFINE c == <<topic, Head1(topic).market>>
  <2>1. /\ c[2] \in Unknown
        /\ sessions' = [d \in DOMAIN sessions \ {c} |-> sessions[d]]
        /\ last' = [d \in DOMAIN last \ {c} |-> last[d]]
        /\ UNCHANGED <<instance, clients, deals, ghosts>>
    BY <1>3 DEF OnErrorReply
  <2> HIDE DEF c
  <2>2. DOMAIN sessions \ {c} = DOMAIN sessions \ (DOMAIN sessions \cap {c})
    OBVIOUS
  <2>3. DOMAIN last \ {c} = DOMAIN last \ (DOMAIN sessions \cap {c})
    BY DEF PushTypes, SubTypes
  <2>4. Dropping(DOMAIN sessions \cap {c})
    BY <2>1, <2>2, <2>3 DEF Dropping
  <2> QED
    BY <2>4
<1>4. ASSUME NEW topic, OnTimer(topic) PROVE \E D : Dropping(D)
  <2> DEFINE D == {c \in DOMAIN sessions : c[1] = topic} \ Polled(topic)
  <2>1. /\ sessions' = [c \in DOMAIN sessions \ D |-> sessions[c]]
        /\ last' = [c \in DOMAIN last \ D |-> last[c]]
        /\ UNCHANGED <<instance, clients, deals, ghosts>>
    BY <1>4 DEF OnTimer
  <2>2. D \subseteq DOMAIN sessions /\ \A c \in D : sessions[c] = {}
    BY DEF Polled
  <2> HIDE DEF D
  <2>3. Dropping(D)
    BY <2>1, <2>2 DEF Dropping
  <2> QED
    BY <2>3
<1>5. ASSUME NEW topic, OnTimeout(topic) PROVE Quiet
  BY <1>5 DEF OnTimeout, Quiet
<1>6. CASE RecvPkg
  <2>1. \/ \E topic : OnErrorReply(topic)
        \/ \E F \in SUBSET Slots : \/ OnMarketStatusReply(F) \/ OnMarketStatusTodayReply(F)
                                   \/ OnMarketLastReply(F) \/ OnMarketKlineReply(F)
        \/ \E F \in SUBSET Slots : OnOrderDealsReply(F)
    BY <1>6 DEF RecvPkg, OnStateRecvPkg, OnTodayRecvPkg, OnPriceRecvPkg, OnDealsRecvPkg, OnKlineRecvPkg
  <2>2. ASSUME NEW F \in SUBSET Slots, \/ OnMarketStatusReply(F) \/ OnMarketStatusTodayReply(F)
                                      \/ OnMarketLastReply(F) \/ OnMarketKlineReply(F)
        PROVE  Quiet \/ \E c, value : ValueSent(c, value, F)
    <3>1. PICK topic, value : OnValueReply(topic, value, F)
      BY <2>2 DEF OnMarketStatusReply, OnMarketStatusTodayReply, OnMarketLastReply, OnMarketKlineReply
    <3>2. ValueSent(<<topic, Head1(topic).market>>, value, F) \/ Quiet
      BY <3>1 DEF OnValueReply, ValueSent, Quiet
    <3> QED
      BY <3>2
  <2>3. ASSUME NEW F \in SUBSET Slots, OnOrderDealsReply(F)
        PROVE  Quiet \/ \E m, ids : Answer(m, ids) /\ DealsSent(m, ids, F)
    <3> DEFINE m == Head1("deals").market
               ids == DealsAfter(Head1("deals").since, deal_id[m])
    <3>1. Quiet \/ (DealsSent(m, ids, F) /\ Answer(m, ids))
      BY <2>3 DEF OnOrderDealsReply, TakeReply, DealsSent, Answer, Quiet
    <3> HIDE DEF m, ids
    <3> QED
      BY <3>1
  <2> QED
    BY <1>3, <2>1, <2>2, <2>3
<1>7. CASE Timer
  BY <1>4, <1>5, <1>7 DEF Timer, OnStateTimer, OnTodayTimer, OnPriceTimer, OnDealsTimer, OnKlineTimer
<1>8. CASE \E m \in Markets : NewDeal(m)
  BY <1>8 DEF NewDeal, Quiet
<1>9. CASE UNCHANGED vars
  BY <1>9 DEF vars, Quiet
<1> QED
  BY <1>1, <1>2, <1>6, <1>7, <1>8, <1>9 DEF Next

-----------------------------------------------------------------------------
(* Types *)

\* The topics and markets are chosen once.
LEMMA SameChannels ==
    ASSUME UNCHANGED instance
    PROVE  Topics' = Topics /\ Markets' = Markets /\ Channels' = Channels
BY DEF Topics, Markets, Channels

\* on_close keeps the types of connections and dictionaries.
LEMMA CloseTypes ==
    ASSUME PushTypes, NEW F \in SUBSET Slots, NEW Found, OnClose(F, Found), UNCHANGED instance
    PROVE  /\ ClientTypes' /\ sessions' \in [DOMAIN sessions -> SUBSET Slots]
           /\ DOMAIN sessions' = DOMAIN sessions
<1>1. Channels' = Channels
  BY SameChannels
<1>2. /\ open' \in [Slots -> BOOLEAN] /\ gone' \in [Slots -> BOOLEAN] /\ pending' \in [Slots -> BOOLEAN]
  BY DEF OnClose
<1>3. asked' \in [Slots -> SUBSET Channels] /\ owed' \in [Slots -> SUBSET Channels]
  BY DEF OnClose, PushTypes, ClientTypes
<1>4. sessions' \in [DOMAIN sessions -> SUBSET Slots]
  BY DEF OnClose, PushTypes, SubTypes
<1> QED
  BY <1>1, <1>2, <1>3, <1>4 DEF ClientTypes

\* What is left of what was sent keeps its type when sessions are closed.
LEMMA ForgetTypes ==
    ASSUME PushTypes, NEW F, UNCHANGED instance
    PROVE  /\ told' = Forget(told, F, NothingTold) =>
                 /\ told' = [p \in Slots |-> told'[p]]
                 /\ \A p \in Slots : told'[p] = [c \in Channels' |-> told'[p][c]]
           /\ got' = Forget(got, F, NothingGot) =>
                 /\ got' = [p \in Slots |-> got'[p]]
                 /\ \A p \in Slots : got'[p] = [m \in Markets' |-> got'[p][m]]
<1>1. Channels' = Channels /\ Markets' = Markets
  BY SameChannels
<1>2. ASSUME told' = Forget(told, F, NothingTold)
      PROVE  /\ told' = [p \in Slots |-> told'[p]]
             /\ \A p \in Slots : told'[p] = [c \in Channels |-> told'[p][c]]
  BY <1>2 DEF Forget, NothingTold, PushTypes, DataTypes
<1>3. ASSUME got' = Forget(got, F, NothingGot)
      PROVE  /\ got' = [p \in Slots |-> got'[p]]
             /\ \A p \in Slots : got'[p] = [m \in Markets |-> got'[p][m]]
  BY <1>3 DEF Forget, NothingGot, PushTypes, DataTypes
<1> QED
  BY <1>1, <1>2, <1>3

\* The end of sessions keeps the types.
LEMMA EndingTypes ==
    ASSUME PushTypes, NEW F \in SUBSET Slots, NEW Found, Ending(F, Found)
    PROVE  PushTypes'
<1>1. /\ OnClose(F, Found) /\ UNCHANGED <<instance, last, deals>>
      /\ told' = Forget(told, F, NothingTold) /\ got' = Forget(got, F, NothingGot)
  BY DEF Ending
<1>2. Channels' = Channels /\ Markets' = Markets
  BY <1>1, SameChannels
<1>3. /\ ClientTypes' /\ sessions' \in [DOMAIN sessions -> SUBSET Slots]
      /\ DOMAIN sessions' = DOMAIN sessions
  BY <1>1, CloseTypes
<1>4. SubTypes'
  BY <1>1, <1>2, <1>3 DEF PushTypes, SubTypes
<1>5. DataTypes'
  <2>1. deals' = [m \in Markets' |-> deals'[m]]
    BY <1>1, <1>2 DEF PushTypes, DataTypes
  <2> QED
    BY <1>1, <2>1, ForgetTypes DEF DataTypes
<1> QED
  BY <1>3, <1>4, <1>5 DEF PushTypes

\* A connection that comes, goes or gets readable keeps the types.
LEMMA ConnectionTypes ==
    ASSUME PushTypes, NEW p \in Slots, Accept(p) \/ Leave(p) \/ Ready(p)
    PROVE  PushTypes'
<1>1. UNCHANGED <<instance, sessions, last, deals, asked, owed, told, got>>
  BY DEF Accept, Leave, Ready, ghosts
<1>2. Channels' = Channels /\ Markets' = Markets
  BY <1>1, SameChannels
<1>3. /\ open' \in [Slots -> BOOLEAN] /\ gone' \in [Slots -> BOOLEAN] /\ pending' \in [Slots -> BOOLEAN]
  BY DEF Accept, Leave, Ready, PushTypes, ClientTypes
<1> QED
  BY <1>1, <1>2, <1>3 DEF PushTypes, ClientTypes, SubTypes, DataTypes

\* A channel that ends takes its last value with it.
LEMMA DroppingTypes ==
    ASSUME PushTypes, NEW D, Dropping(D)
    PROVE  PushTypes'
<1>1. /\ D \subseteq DOMAIN sessions
      /\ sessions' = [c \in DOMAIN sessions \ D |-> sessions[c]]
      /\ last' = [c \in DOMAIN last \ D |-> last[c]]
      /\ UNCHANGED <<instance, open, gone, pending, deals, asked, owed, told, got>>
  BY DEF Dropping, clients, ghosts
<1>2. Channels' = Channels /\ Markets' = Markets
  BY <1>1, SameChannels
<1>3. SubTypes'
  <2>1. DOMAIN last = DOMAIN sessions
    BY DEF PushTypes, SubTypes
  <2>2. DOMAIN sessions' = DOMAIN sessions \ D
    BY <1>1
  <2>3. sessions' \in [DOMAIN sessions' -> SUBSET Slots]
    BY <1>1, <2>2 DEF PushTypes, SubTypes
  <2>4. last' = [c \in DOMAIN sessions' |-> last'[c]]
    BY <1>1, <2>1, <2>2
  <2> QED
    BY <1>2, <2>2, <2>3, <2>4 DEF PushTypes, SubTypes
<1> QED
  BY <1>1, <1>2, <1>3 DEF PushTypes, ClientTypes, DataTypes

\* A request to subscribe or unsubscribe keeps the types.
LEMMA SubscriptionTypes ==
    ASSUME PushTypes, NEW p \in Slots, NEW topic, NEW C, Subscription(p, topic, C)
    PROVE  PushTypes'
<1>1. /\ C \subseteq Of(topic, Markets) /\ topic \in Topics /\ Message(p)
      /\ sessions' = Subscribed(p, topic, C) /\ last' = Extended(last, C, 0) /\ DealsSubscribe(C)
      /\ asked' = [asked EXCEPT ![p] = (asked[p] \ Of(topic, Markets)) \cup C]
      /\ UNCHANGED <<instance, open, gone>>
  BY DEF Subscription, Subscribe
<1>2. Channels' = Channels /\ Markets' = Markets
  BY <1>1, SameChannels
<1>3. C \subseteq Channels
  BY <1>1 DEF Of, Channels
<1>4. ClientTypes'
  <2>1. pending' \in [Slots -> BOOLEAN]
    BY <1>1 DEF Message, PushTypes, ClientTypes
  <2>2. asked' \in [Slots -> SUBSET Channels]
    BY <1>1, <1>3 DEF PushTypes, ClientTypes
  <2>3. owed' \in [Slots -> SUBSET Channels]
    BY <1>3 DEF Subscription, Owe, PushTypes, ClientTypes
  <2> QED
    BY <1>1, <1>2, <2>1, <2>2, <2>3 DEF PushTypes, ClientTypes
<1>5. SubTypes'
  <2>1. DOMAIN last = DOMAIN sessions /\ DOMAIN sessions \subseteq Channels
    BY DEF PushTypes, SubTypes
  <2>2. DOMAIN sessions' = DOMAIN sessions \cup C
    BY <1>1 DEF Subscribed
  <2>3. sessions' \in [DOMAIN sessions \cup C -> SUBSET Slots]
    BY <1>1 DEF Subscribed, PushTypes, SubTypes
  <2>4. last' = [c \in DOMAIN sessions \cup C |-> last'[c]]
    BY <1>1, <2>1 DEF Extended
  <2> QED
    BY <1>2, <1>3, <2>1, <2>2, <2>3, <2>4 DEF SubTypes
<1>6. DataTypes'
  <2>1. deals' = [m \in Markets |-> deals'[m]]
    BY <1>1 DEF DealsSubscribe
  <2>2. CASE UNCHANGED <<told, got>>
    BY <1>2, <2>1, <2>2 DEF PushTypes, DataTypes
  <2>3. CASE SendLast(p, C)
    <3>1. /\ told' = [told EXCEPT ![p] = [c \in Channels |->
                       IF c \in C \cap DOMAIN last /\ last[c] # 0 THEN last[c] ELSE told[p][c]]]
          /\ got' = [got EXCEPT ![p] = [m \in Markets |->
                       IF <<"deals", m>> \in C \cap DOMAIN sessions THEN ToSet(deals[m].list) ELSE got[p][m]]]
      BY <2>3 DEF SendLast, DealsSendFull
    <3>2. /\ told' = [q \in Slots |-> told'[q]]
          /\ \A q \in Slots : told'[q] = [c \in Channels |-> told'[q][c]]
      BY <3>1 DEF PushTypes, DataTypes
    <3>3. /\ got' = [q \in Slots |-> got'[q]]
          /\ \A q \in Slots : got'[q] = [m \in Markets |-> got'[q][m]]
      BY <3>1 DEF PushTypes, DataTypes
    <3> QED
      BY <1>2, <2>1, <3>2, <3>3 DEF DataTypes
  <2> QED
    BY <2>2, <2>3 DEF Subscription
<1> QED
  BY <1>4, <1>5, <1>6 DEF PushTypes

\* A broadcast closes the sessions whose send fails.
LEMMA BroadcastCloses ==
    ASSUME PushTypes, NEW S, NEW F \in SUBSET Slots, Broadcast(S, F)
    PROVE  /\ F \subseteq S /\ \A p \in F : open[p]
           /\ OnClose(F, {p \in F : ~pending[p]})
BY DEF Broadcast, CloseForeign

\* The broadcast of a value keeps the types.
LEMMA ValueTypes ==
    ASSUME PushTypes, NEW c, NEW value, NEW F \in SUBSET Slots, ValueSent(c, value, F)
    PROVE  PushTypes'
<1>1. /\ c \in DOMAIN sessions /\ Broadcast(sessions[c], F)
      /\ last' = [last EXCEPT ![c] = value] /\ UNCHANGED <<instance, deals>>
      /\ got' = Forget(got, F, NothingGot)
  BY DEF ValueSent
<1>2. Channels' = Channels /\ Markets' = Markets
  BY <1>1, SameChannels
<1>3. OnClose(F, {p \in F : ~pending[p]})
  BY <1>1, BroadcastCloses
<1>4. /\ ClientTypes' /\ sessions' \in [DOMAIN sessions -> SUBSET Slots]
      /\ DOMAIN sessions' = DOMAIN sessions
  BY <1>1, <1>3, CloseTypes
<1>5. SubTypes'
  <2>1. last' = [d \in DOMAIN sessions |-> last'[d]]
    BY <1>1 DEF PushTypes, SubTypes
  <2> QED
    BY <1>2, <1>4, <2>1 DEF PushTypes, SubTypes
<1>6. DataTypes'
  <2>1. deals' = [m \in Markets' |-> deals'[m]]
    BY <1>1, <1>2 DEF PushTypes, DataTypes
  <2>2. /\ told' = [p \in Slots |-> told'[p]]
        /\ \A p \in Slots : told'[p] = [d \in Channels |-> told'[p][d]]
    BY DEF ValueSent, NothingTold, PushTypes, DataTypes
  <2> QED
    BY <1>1, <1>2, <2>1, <2>2, ForgetTypes DEF DataTypes
<1> QED
  BY <1>4, <1>5, <1>6 DEF PushTypes

\* The broadcast of deals keeps the types.
LEMMA DealsTypes ==
    ASSUME PushTypes, NEW m, NEW ids, NEW F \in SUBSET Slots, DealsSent(m, ids, F)
    PROVE  PushTypes'
<1> DEFINE c == <<"deals", m>>
<1>1. /\ c \in DOMAIN sessions /\ Broadcast(sessions[c], F)
      /\ UNCHANGED <<instance, last>> /\ told' = Forget(told, F, NothingTold)
  BY DEF DealsSent
<1>2. Channels' = Channels /\ Markets' = Markets
  BY <1>1, SameChannels
<1>3. OnClose(F, {p \in F : ~pending[p]})
  BY <1>1, BroadcastCloses
<1>4. /\ ClientTypes' /\ sessions' \in [DOMAIN sessions -> SUBSET Slots]
      /\ DOMAIN sessions' = DOMAIN sessions
  BY <1>1, <1>3, CloseTypes
<1>5. SubTypes'
  BY <1>1, <1>2, <1>4 DEF PushTypes, SubTypes
<1>6. DataTypes'
  <2>1. deals' = [k \in Markets |-> deals'[k]]
    BY DEF DealsSent, PushTypes, DataTypes
  <2>2. /\ got' = [p \in Slots |-> got'[p]]
        /\ \A p \in Slots : got'[p] = [k \in Markets |-> got'[p][k]]
    BY DEF DealsSent, NothingGot, PushTypes, DataTypes
  <2> QED
    BY <1>1, <1>2, <2>1, <2>2, ForgetTypes DEF DataTypes
<1> QED
  BY <1>4, <1>5, <1>6 DEF PushTypes

\* Every step keeps the types.
LEMMA TypesStep ==
    ASSUME PushTypes, [Next]_vars
    PROVE  PushTypes'
<1>1. CASE Quiet
  <2>1. /\ UNCHANGED <<instance, open, gone, pending, sessions, last, deals, asked, owed, told, got>>
    BY <1>1 DEF Quiet, clients, ghosts
  <2> QED
    BY <2>1, SameChannels DEF PushTypes, ClientTypes, SubTypes, DataTypes
<1> QED
  BY <1>1, Steps, ConnectionTypes, EndingTypes, SubscriptionTypes, DroppingTypes, ValueTypes, DealsTypes

\* The program starts without connections, channels and polls.
LEMMA InitTypes == ASSUME Init PROVE PushTypes /\ OwedOpen /\ SentOnlyWhatAsked /\ CaughtUp
<1>1. PushTypes
  BY DEF Init, PushTypes, ClientTypes, SubTypes, DataTypes, NothingTold, NothingGot
<1> QED
  BY <1>1 DEF Init, OwedOpen, SentOnlyWhatAsked, OnlyAsked, CaughtUp

-----------------------------------------------------------------------------
(* Only what was asked for is sent, while on_close finds what it looks for *)

\* A close that finds its sessions leaves their addresses in no dictionary.
LEMMA CloseKeepsApart ==
    ASSUME PushTypes, SentOnlyWhatAsked, NEW F \in SUBSET Slots, OnClose(F, F)
    PROVE  SentOnlyWhatAsked'
<1> SUFFICES ASSUME NEW c \in DOMAIN sessions', c[1] \in ClosedTopics, NEW p \in sessions'[c]
             PROVE  open'[p] /\ c \in asked'[p]
  BY DEF SentOnlyWhatAsked, OnlyAsked, ClosedTopics
<1>1. c \in DOMAIN sessions /\ p \in sessions[c] /\ p \notin F /\ p \in Slots
  BY DEF OnClose, PushTypes, SubTypes
<1>2. open[p] /\ c \in asked[p]
  BY <1>1 DEF SentOnlyWhatAsked, OnlyAsked
<1> QED
  BY <1>1, <1>2 DEF OnClose

\* Only who asks for a channel is put in its dictionary, and who no longer asks is taken out.
LEMMA SubscriptionKeepsApart ==
    ASSUME PushTypes, SentOnlyWhatAsked, NEW p \in Slots, NEW topic, NEW C, Subscription(p, topic, C)
    PROVE  SentOnlyWhatAsked'
<1>1. /\ C \subseteq Of(topic, Markets) /\ Message(p) /\ sessions' = Subscribed(p, topic, C)
      /\ asked' = [asked EXCEPT ![p] = (asked[p] \ Of(topic, Markets)) \cup C]
      /\ open' = open
  BY DEF Subscription, Subscribe
<1> SUFFICES ASSUME NEW c \in DOMAIN sessions', c[1] \in ClosedTopics, NEW q \in sessions'[c]
             PROVE  open'[q] /\ c \in asked'[q]
  BY DEF SentOnlyWhatAsked, OnlyAsked, ClosedTopics
<1>2. CASE q = p /\ c \in C
  BY <1>1, <1>2 DEF Message, PushTypes, ClientTypes
<1>3. CASE ~(q = p /\ c \in C)
  <2>1. c \in DOMAIN sessions /\ q \in sessions[c] /\ (q = p => c[1] # topic)
    BY <1>1, <1>3 DEF Subscribed
  <2>2. open[q] /\ c \in asked[q] /\ q \in Slots
    BY <2>1 DEF SentOnlyWhatAsked, OnlyAsked, PushTypes, SubTypes
  <2>3. q = p => c \notin Of(topic, Markets)
    BY <2>1 DEF Of
  <2> QED
    BY <1>1, <2>2, <2>3 DEF PushTypes, ClientTypes
<1> QED
  BY <1>2, <1>3

\* What is sent stays what was asked for, step by step.
LEMMA SentStep ==
    ASSUME SentInv, [Next]_vars, "foreign_close" \notin Faults
    PROVE  SentInv'
<1>0. PushTypes /\ SentOnlyWhatAsked /\ PushTypes'
  BY TypesStep DEF SentInv
<1>1. CASE Quiet
  BY <1>0, <1>1 DEF Quiet, clients, ghosts, SentInv, SentOnlyWhatAsked, OnlyAsked, ClosedTopics
<1>2. ASSUME NEW p \in Slots, Accept(p) \/ Leave(p) \/ Ready(p) PROVE SentOnlyWhatAsked'
  <2>1. /\ UNCHANGED <<sessions, asked>>
        /\ \A q \in Slots : open[q] => open'[q]
    BY <1>0, <1>2 DEF Accept, Leave, Ready, ghosts, PushTypes, ClientTypes
  <2> QED
    BY <1>0, <2>1 DEF SentOnlyWhatAsked, OnlyAsked, ClosedTopics, PushTypes, SubTypes
<1>3. ASSUME NEW p \in Slots, Ending({p}, {p}) PROVE SentOnlyWhatAsked'
  BY <1>0, <1>3, CloseKeepsApart DEF Ending
<1>4. ASSUME NEW D, Dropping(D) PROVE SentOnlyWhatAsked'
  BY <1>0, <1>4 DEF Dropping, clients, ghosts, SentOnlyWhatAsked, OnlyAsked, ClosedTopics
<1>5. ASSUME NEW S, NEW F \in SUBSET Slots, Broadcast(S, F) PROVE SentOnlyWhatAsked'
  <2>1. OnClose(F, F)
    <3>1. /\ OnClose(F, {p \in F : ~pending[p]})
          /\ "foreign_close" \in Faults \/ \A p \in F : ~pending[p]
      BY <1>5 DEF Broadcast, CloseForeign
    <3>2. {p \in F : ~pending[p]} = F
      BY <3>1
    <3> QED
      BY <3>1, <3>2
  <2> QED
    BY <1>0, <2>1, CloseKeepsApart
<1>6. ASSUME NEW F \in SUBSET Slots, NEW c, NEW value, ValueSent(c, value, F) PROVE SentOnlyWhatAsked'
  BY <1>5, <1>6 DEF ValueSent
<1>7. ASSUME NEW F \in SUBSET Slots, NEW m, NEW ids, DealsSent(m, ids, F) PROVE SentOnlyWhatAsked'
  BY <1>5, <1>7 DEF DealsSent
<1>8. ASSUME NEW p \in Slots, NEW topic, NEW C, Subscription(p, topic, C) PROVE SentOnlyWhatAsked'
  BY <1>0, <1>8, SubscriptionKeepsApart
<1>9. SentOnlyWhatAsked'
  BY <1>0, <1>1, <1>2, <1>3, <1>4, <1>6, <1>7, <1>8, Steps DEF SentInv
<1> QED
  BY <1>0, <1>9 DEF SentInv

\* A connection is sent only updates it has subscribed to, of the prices, days, deals and
\* klines (on_close, *_unsubscribe), unless a session is closed while an event of it waits
\* in libev: then dict_delete does not find it.
THEOREM StrangersGetNothing ==
    "foreign_close" \notin Faults => (Spec => []SentOnlyWhatAsked)
<1> SUFFICES ASSUME "foreign_close" \notin Faults PROVE Spec => []SentOnlyWhatAsked
  OBVIOUS
<1>1. Init => SentInv
  BY InitTypes DEF SentInv
<1>2. SentInv /\ [Next]_vars => SentInv'
  BY SentStep
<1>3. SentInv => SentOnlyWhatAsked
  BY DEF SentInv
<1> QED
  BY <1>1, <1>2, <1>3, PTL DEF Spec

-----------------------------------------------------------------------------
(* The deals of a market and the polls for them *)

\* Deals are numbered, and asked for by the number of the last one that is known.
FlowTypes ==
    /\ \A m \in Markets : deals[m] \in [list : Seq(Nat), last_id : Nat]
    /\ deal_id \in [Markets -> Nat]
    /\ requests \in [Topics -> Seq([market : Markets, since : Nat])]

\* The timer puts every element of a set in the queue once (the loop of on_timer).
LEMMA SetToSeqIs ==
    ASSUME NEW S, IsFiniteSet(S)
    PROVE  /\ SetToSeq(S) \in Seq(S)
           /\ \A i, j \in 1..Len(SetToSeq(S)) : SetToSeq(S)[i] = SetToSeq(S)[j] => i = j
<1> DEFINE n == Cardinality(S)
<1>1. n \in Nat /\ ExistsBijection(1..n, S)
  BY FS_CardinalityType
<1>2. \E f \in [1..n -> S] : IsInjective(f)
  BY <1>1 DEF ExistsBijection, Bijection, Injection
<1>3. SetToSeq(S) \in [1..n -> S] /\ IsInjective(SetToSeq(S))
  BY <1>2 DEF SetToSeq
<1> HIDE DEF n
<1>4. SetToSeq(S) \in Seq(S) /\ Len(SetToSeq(S)) = n
  BY <1>1, <1>3
<1> QED
  BY <1>3, <1>4 DEF IsInjective

\* The newest entries of a list are its first.
LEMMA NewestIs ==
    ASSUME NEW s \in Seq(Nat)
    PROVE  /\ Newest(DealsLimit, s) \in Seq(Nat)
           /\ Len(Newest(DealsLimit, s)) = IF Len(s) < DealsLimit THEN Len(s) ELSE DealsLimit
           /\ \A i \in 1..Len(Newest(DealsLimit, s)) : Newest(DealsLimit, s)[i] = s[i]
<1> DEFINE n == IF Len(s) < DealsLimit THEN Len(s) ELSE DealsLimit
<1>1. DealsLimit \in Nat \ {0}
  BY BoundsAssumption
<1>2. n \in Nat /\ n <= Len(s)
  BY <1>1
<1>3. Newest(DealsLimit, s) = SubSeq(s, 1, n)
  BY DEF Newest
<1> HIDE DEF n
<1>4. \A i \in 1..n : s[i] \in Nat
  BY <1>2
<1>5. /\ SubSeq(s, 1, n) \in Seq(Nat)
      /\ Len(SubSeq(s, 1, n)) = IF 1 <= n THEN n - 1 + 1 ELSE 0
      /\ \A i \in 1..(n - 1 + 1) : SubSeq(s, 1, n)[i] = s[1 + i - 1]
  BY <1>2, <1>4, SubSeqProperties
<1>6. Len(SubSeq(s, 1, n)) = n /\ \A i \in 1..n : SubSeq(s, 1, n)[i] = s[i]
  BY <1>2, <1>5
<1> QED
  BY <1>3, <1>5, <1>6 DEF n

\* marketprice answers with the newest of the deals after the one it is told.
LEMMA DealsAfterIs ==
    ASSUME NEW since \in Nat, NEW id \in Nat
    PROVE  LET k == IF id > since THEN id - since ELSE 0
               ids == DealsAfter(since, id)
           IN  /\ ids \in Seq(Nat)
               /\ Len(ids) = IF k < DealsLimit THEN k ELSE DealsLimit
               /\ \A i \in 1..Len(ids) : ids[i] = id - i + 1
<1> DEFINE k == IF id > since THEN id - since ELSE 0
           all == [i \in 1..k |-> id - i + 1]
<1>1. k \in Nat /\ k <= id
  OBVIOUS
<1>2. DealsAfter(since, id) = Newest(DealsLimit, all)
  BY DEF DealsAfter
<1>3. all \in Seq(Nat) /\ Len(all) = k /\ \A i \in 1..k : all[i] = id - i + 1
  BY <1>1
<1> HIDE DEF k, all
<1>4. /\ Newest(DealsLimit, all) \in Seq(Nat)
      /\ Len(Newest(DealsLimit, all)) = IF Len(all) < DealsLimit THEN Len(all) ELSE DealsLimit
      /\ \A i \in 1..Len(Newest(DealsLimit, all)) : Newest(DealsLimit, all)[i] = all[i]
  BY <1>3, NewestIs
<1>5. Len(Newest(DealsLimit, all)) = IF k < DealsLimit THEN k ELSE DealsLimit
  BY <1>3, <1>4
<1>6. Len(Newest(DealsLimit, all)) <= k
  BY <1>1, <1>5, BoundsAssumption
<1>7. \A i \in 1..Len(Newest(DealsLimit, all)) : Newest(DealsLimit, all)[i] = id - i + 1
  BY <1>1, <1>3, <1>4, <1>6
<1> QED
  BY <1>2, <1>4, <1>5, <1>7 DEF k

\* A list of deals that is put before another and cut
LEMMA DealsAddedTypes ==
    ASSUME NEW d \in [list : Seq(Nat), last_id : Nat], NEW ids \in Seq(Nat), ids # <<>>
    PROVE  DealsAdded(d, ids) \in [list : Seq(Nat), last_id : Nat]
<1>1. d.list \in Seq(Nat)
  OBVIOUS
<1>2. ids \o d.list \in Seq(Nat)
  BY <1>1, ConcatProperties
<1>3. Newest(DealsLimit, ids \o d.list) \in Seq(Nat)
  BY <1>2, NewestIs
<1>4. Head(ids) \in Nat
  BY HeadTailProperties
<1> QED
  BY <1>3, <1>4 DEF DealsAdded

\* An answer, an error or a timeout takes the oldest poll of a topic from the queue; only
\* an answer changes the deals.
Taking(topic) ==
    /\ TakeReply(topic) /\ UNCHANGED <<instance, deal_id>>
    /\ \/ deals' = deals /\ DOMAIN sessions' = DOMAIN sessions
       \/ deals' = deals /\ \E c : c[2] \in Unknown /\ DOMAIN sessions' = DOMAIN sessions \ {c}
       \/ /\ topic = "deals" /\ DOMAIN sessions' = DOMAIN sessions
          /\ \E m, ids : \E F \in SUBSET Slots : Answer(m, ids) /\ DealsSent(m, ids, F)

\* Subscribing adds channels; a market that is new has no deals.
Adding ==
    /\ UNCHANGED <<instance, requests, deal_id>> /\ DOMAIN sessions \subseteq DOMAIN sessions'
    /\ \A m \in Markets : \/ <<"deals", m>> \in DOMAIN sessions /\ deals'[m] = deals[m]
                          \/ <<"deals", m>> \notin DOMAIN sessions /\ deals'[m] \in {deals[m], NoDeals}
    /\ deals' = [m \in Markets |-> deals'[m]]

\* What a step does to the polls
LEMMA FlowSteps ==
    ASSUME PushTypes, [Next]_vars
    PROVE  \/ \E topic : OnTimer(topic)
           \/ \E topic : Taking(topic)
           \/ Adding
           \/ \E m \in Markets : NewDeal(m)
<1> DEFINE Goal == \/ \E topic : OnTimer(topic)
                   \/ \E topic : Taking(topic)
                   \/ Adding
                   \/ \E m \in Markets : NewDeal(m)
<1>0. /\ UNCHANGED <<instance, requests, deal_id, deals>> /\ DOMAIN sessions' = DOMAIN sessions => Adding
  BY DEF Adding, PushTypes, DataTypes
<1>1. CASE Connection
  <2>1. /\ UNCHANGED <<instance, requests, deal_id, deals>> /\ DOMAIN sessions' = DOMAIN sessions
    BY <1>1 DEF Connection, Accept, Leave, Ready, OnRead, OnIdle, CloseForeign, OnClose
  <2> QED
    BY <1>0, <2>1
<1>2. CASE Handler
  <2>1. PICK p, topic, C : Subscribe(p, topic, C)
    BY <1>2 DEF Handler, OnMethodStateSubscribe, OnMethodTodaySubscribe, OnMethodPriceSubscribe,
                OnMethodDealsSubscribe, OnMethodKlineSubscribe, OnMethodUnsubscribe, SubscribeMarkets
  <2>2. /\ UNCHANGED <<instance, requests, deal_id>> /\ sessions' = Subscribed(p, topic, C)
        /\ deals' = [m \in Markets |-> IF <<"deals", m>> \in C \ DOMAIN sessions THEN NoDeals ELSE deals[m]]
    BY <2>1 DEF Subscribe, DealsSubscribe
  <2>3. DOMAIN sessions' = DOMAIN sessions \cup C
    BY <2>2 DEF Subscribed
  <2>4. Adding
    BY <2>2, <2>3 DEF Adding
  <2> QED
    BY <2>4
<1>3. ASSUME NEW topic, OnErrorReply(topic) PROVE \E t : Taking(t)
  <2> DEFINE c == <<topic, Head1(topic).market>>
  <2>1. /\ TakeReply(topic) /\ c[2] \in Unknown /\ UNCHANGED <<instance, deals, deal_id>>
        /\ sessions' = [d \in DOMAIN sessions \ {c} |-> sessions[d]]
    BY <1>3 DEF OnErrorReply
  <2> HIDE DEF c
  <2>2. DOMAIN sessions' = DOMAIN sessions \ {c}
    BY <2>1
  <2>3. Taking(topic)
    BY <2>1, <2>2 DEF Taking
  <2> QED
    BY <2>3
<1>4. ASSUME NEW topic, NEW value, NEW F \in SUBSET Slots, OnValueReply(topic, value, F)
      PROVE  \E t : Taking(t)
  <2>1. /\ TakeReply(topic) /\ UNCHANGED <<instance, deals, deal_id>>
        /\ DOMAIN sessions' = DOMAIN sessions
    BY <1>4 DEF OnValueReply, Broadcast, CloseForeign, OnClose
  <2>2. Taking(topic)
    BY <2>1 DEF Taking
  <2> QED
    BY <2>2
<1>5. ASSUME NEW F \in SUBSET Slots, OnOrderDealsReply(F) PROVE \E t : Taking(t)
  <2> DEFINE m == Head1("deals").market
             ids == DealsAfter(Head1("deals").since, deal_id[m])
  <2>1. /\ TakeReply("deals") /\ UNCHANGED <<instance, deal_id>>
        /\ \/ deals' = deals
           \/ Answer(m, ids) /\ DealsSent(m, ids, F)
    BY <1>5 DEF OnOrderDealsReply, TakeReply, DealsSent, Answer
  <2>2. DOMAIN sessions' = DOMAIN sessions
    BY <1>5 DEF OnOrderDealsReply, Broadcast, CloseForeign, OnClose
  <2> HIDE DEF m, ids
  <2>3. Taking("deals")
    BY <2>1, <2>2 DEF Taking
  <2> QED
    BY <2>3
<1>6. CASE RecvPkg
  <2>1. \/ \E topic : OnErrorReply(topic)
        \/ \E topic, value : \E F \in SUBSET Slots : OnValueReply(topic, value, F)
        \/ \E F \in SUBSET Slots : OnOrderDealsReply(F)
    BY <1>6 DEF RecvPkg, OnStateRecvPkg, OnTodayRecvPkg, OnPriceRecvPkg, OnDealsRecvPkg, OnKlineRecvPkg,
                OnMarketStatusReply, OnMarketStatusTodayReply, OnMarketLastReply, OnMarketKlineReply
  <2> QED
    BY <1>3, <1>4, <1>5, <2>1
<1>7. CASE Timer
  <2>1. \/ \E topic : OnTimer(topic)
        \/ \E topic : OnTimeout(topic)
    BY <1>7 DEF Timer, OnStateTimer, OnTodayTimer, OnPriceTimer, OnDealsTimer, OnKlineTimer
  <2>2. ASSUME NEW topic, OnTimeout(topic) PROVE Taking(topic)
    BY <2>2 DEF OnTimeout, Taking
  <2> QED
    BY <2>1, <2>2
<1>8. CASE UNCHANGED vars
  <2>1. UNCHANGED <<instance, requests, deal_id, deals, sessions>>
    BY <1>8 DEF vars
  <2> QED
    BY <1>0, <2>1
<1> QED
  BY <1>1, <1>2, <1>6, <1>7, <1>8 DEF Next

\* There are finitely many channels (the markets of the configuration).
LEMMA FiniteChannels == ASSUME instance \in Instances PROVE IsFiniteSet(Channels)
<1>1. IsFiniteSet(Markets) /\ Topics \subseteq AllTopics
  BY InstancesAssumption DEF Topics, Markets
<1>2. IsFiniteSet(AllTopics)
  <2>1. AllTopics = {} \cup {"state"} \cup {"today"} \cup {"price"} \cup {"deals"} \cup {"kline"}
    BY DEF AllTopics
  <2> QED
    BY <2>1, FS_EmptySet, FS_AddElement
<1>3. IsFiniteSet(Topics)
  BY <1>1, <1>2, FS_Subset
<1> QED
  BY <1>1, <1>3, FS_Product DEF Channels

Poll == [market : Markets, since : Nat]

\* The polls of the timer: one for each channel somebody is subscribed to
Polls(topic, polls) ==
    /\ polls \in Seq(Poll)
    /\ \A i, j \in 1..Len(polls) : polls[i].market = polls[j].market => i = j
    /\ \A i \in 1..Len(polls) :
          /\ <<topic, polls[i].market>> \in Polled(topic)
          /\ polls[i].since = IF topic = "deals" THEN deals[polls[i].market].last_id ELSE 0

\* on_timer asks marketprice for each of these channels.
LEMMA TimerPolls ==
    ASSUME PushTypes, FlowTypes, instance \in Instances, NEW topic, OnTimer(topic)
    PROVE  \E polls : Polls(topic, polls) /\ requests' = [requests EXCEPT ![topic] = @ \o polls]
<1> DEFINE Request(c) == [market |-> c[2],
                          since |-> IF topic = "deals" THEN deals[c[2]].last_id ELSE 0]
           f == [c \in Polled(topic) |-> Request(c)]
           S == {Request(c) : c \in Polled(topic)}
<1>1. /\ topic \in Topics /\ requests' = [requests EXCEPT ![topic] = @ \o SetToSeq(S)]
  BY DEF OnTimer
<1>2. IsFiniteSet(Channels) /\ Polled(topic) \subseteq Channels
  BY FiniteChannels DEF Polled, PushTypes, SubTypes
<1>3. IsFiniteSet(Polled(topic))
  BY <1>2, FS_Subset
<1>4. f \in Surjection(Polled(topic), S)
  BY DEF Surjection
<1>5. IsFiniteSet(S)
  <2> HIDE DEF f, S
  <2> QED
    BY <1>3, <1>4, FS_Surjection
<1>6. \A c \in Polled(topic) : c = <<topic, c[2]>> /\ c[2] \in Markets
  BY <1>2 DEF Polled, Channels
<1>7. ASSUME NEW r \in S
      PROVE  /\ r \in Poll /\ <<topic, r.market>> \in Polled(topic)
             /\ r.since = IF topic = "deals" THEN deals[r.market].last_id ELSE 0
  <2>1. PICK c \in Polled(topic) : r = Request(c)
    OBVIOUS
  <2>2. c = <<topic, c[2]>> /\ c[2] \in Markets
    BY <1>6
  <2>3. deals[c[2]].last_id \in Nat
    BY <2>2 DEF FlowTypes
  <2> QED
    BY <2>1, <2>2, <2>3 DEF Poll
<1>8. \A r, s \in S : r.market = s.market => r = s
  BY <1>6
<1> DEFINE polls == SetToSeq(S)
<1>9. /\ polls \in Seq(S)
      /\ \A i, j \in 1..Len(polls) : polls[i] = polls[j] => i = j
  <2> HIDE DEF S
  <2> QED
    BY <1>5, SetToSeqIs
<1> HIDE DEF polls, S
<1>10. \A i \in 1..Len(polls) : polls[i] \in S
  BY <1>9
<1>11. polls \in Seq(Poll)
  <2>1. \A i \in 1..Len(polls) : polls[i] \in Poll
    BY <1>7, <1>10
  <2>2. Len(polls) \in Nat /\ polls = [i \in 1..Len(polls) |-> polls[i]]
    BY <1>9, LenProperties
  <2>3. polls \in [1..Len(polls) -> Poll]
    BY <2>1, <2>2
  <2> HIDE DEF Poll
  <2> QED
    BY <2>2, <2>3, SeqDef
<1>12. Polls(topic, polls)
  BY <1>7, <1>8, <1>9, <1>10, <1>11 DEF Polls
<1> QED
  BY <1>1, <1>12 DEF polls

\* Every step keeps the numbers of the deals and the polls.
LEMMA FlowStep ==
    ASSUME PushTypes, FlowTypes, instance \in Instances, [Next]_vars
    PROVE  FlowTypes'
<1>1. ASSUME NEW topic, OnTimer(topic) PROVE FlowTypes'
  <2>1. UNCHANGED <<instance, deals, deal_id>> /\ topic \in Topics
    BY <1>1 DEF OnTimer
  <2>2. Topics' = Topics /\ Markets' = Markets
    BY <2>1, SameChannels
  <2>3. PICK polls : Polls(topic, polls) /\ requests' = [requests EXCEPT ![topic] = @ \o polls]
    BY <1>1, TimerPolls
  <2>4. requests[topic] \in Seq(Poll) /\ polls \in Seq(Poll)
    BY <2>1, <2>3 DEF FlowTypes, Poll, Polls
  <2>5. requests[topic] \o polls \in Seq(Poll)
    BY <2>4, ConcatProperties
  <2>6. requests' \in [Topics -> Seq(Poll)]
    BY <2>3, <2>5 DEF FlowTypes, Poll
  <2> QED
    BY <2>1, <2>2, <2>6 DEF FlowTypes, Poll
<1>2. ASSUME NEW topic, Taking(topic) PROVE FlowTypes'
  <2>1. /\ UNCHANGED <<instance, deal_id>> /\ topic \in Topics /\ requests[topic] # <<>>
        /\ requests' = [requests EXCEPT ![topic] = Tail(@)]
    BY <1>2 DEF Taking, TakeReply
  <2>2. Topics' = Topics /\ Markets' = Markets
    BY <2>1, SameChannels
  <2>3. Tail(requests[topic]) \in Seq(Poll)
    BY <2>1, HeadTailProperties DEF FlowTypes, Poll
  <2>4. requests' \in [Topics -> Seq(Poll)]
    BY <2>1, <2>3 DEF FlowTypes, Poll
  <2>5. \A m \in Markets : deals'[m] \in [list : Seq(Nat), last_id : Nat]
    <3>1. CASE deals' = deals
      BY <3>1 DEF FlowTypes
    <3>2. ASSUME NEW k, NEW ids, NEW F \in SUBSET Slots, Answer(k, ids), DealsSent(k, ids, F), topic = "deals"
          PROVE  \A m \in Markets : deals'[m] \in [list : Seq(Nat), last_id : Nat]
      <4>1. deals' = [deals EXCEPT ![k] = DealsAdded(@, ids)] /\ k \in Markets
        BY <3>2 DEF DealsSent, PushTypes, SubTypes, Channels
      <4>2. Head(requests["deals"]) \in Poll
        BY <2>1, <3>2, HeadTailProperties DEF FlowTypes, Poll
      <4>3. ids # <<>> /\ ids \in Seq(Nat)
        <5>1. ids # <<>> /\ ids = DealsAfter(Head(requests["deals"]).since, deal_id[k])
          BY <3>2 DEF Answer, Head1
        <5>2. Head(requests["deals"]).since \in Nat /\ deal_id[k] \in Nat
          BY <4>1, <4>2 DEF FlowTypes, Poll
        <5> QED
          BY <5>1, <5>2, DealsAfterIs
      <4>4. DealsAdded(deals[k], ids) \in [list : Seq(Nat), last_id : Nat]
        BY <4>1, <4>3, DealsAddedTypes DEF FlowTypes
      <4> QED
        BY <4>1, <4>4 DEF FlowTypes, PushTypes, DataTypes
    <3> QED
      BY <1>2, <3>1, <3>2 DEF Taking
  <2> QED
    BY <2>1, <2>2, <2>4, <2>5 DEF FlowTypes, Poll
<1>3. CASE Adding
  <2>1. UNCHANGED <<instance, requests, deal_id>>
    BY <1>3 DEF Adding
  <2>2. Topics' = Topics /\ Markets' = Markets
    BY <2>1, SameChannels
  <2>3. NoDeals \in [list : Seq(Nat), last_id : Nat]
    BY DEF NoDeals
  <2>4. \A m \in Markets : deals'[m] \in [list : Seq(Nat), last_id : Nat]
    BY <1>3, <2>3 DEF Adding, FlowTypes
  <2> QED
    BY <2>1, <2>2, <2>4 DEF FlowTypes
<1>4. ASSUME NEW m \in Markets, NewDeal(m) PROVE FlowTypes'
  <2>1. UNCHANGED <<instance, requests, deals>> /\ deal_id' = [deal_id EXCEPT ![m] = @ + 1]
    BY <1>4 DEF NewDeal
  <2>2. Topics' = Topics /\ Markets' = Markets
    BY <2>1, SameChannels
  <2>3. deal_id' \in [Markets -> Nat]
    BY <2>1 DEF FlowTypes
  <2> QED
    BY <2>1, <2>2, <2>3 DEF FlowTypes
<1> QED
  BY <1>1, <1>2, <1>3, <1>4, FlowSteps

\* marketprice starts without deals, and nothing has been asked.
LEMMA InitFlow == ASSUME Init PROVE FlowTypes /\ instance \in Instances
BY DEF Init, FlowTypes, NoDeals

\* The topics, markets and values stay what Init took.
LEMMA SameInstance == ASSUME [Next]_vars, PushTypes PROVE instance' = instance
BY FlowSteps DEF OnTimer, Taking, Adding, NewDeal

-----------------------------------------------------------------------------
(* Whoever was told "success" is up to date *)

\* The three promises of a "success"
Stays(p, c) == c[2] \notin Unknown => c \in DOMAIN sessions /\ p \in sessions[c]
ToldLast(p, c) ==
    c[1] \in {"state", "today", "price"} /\ c \in DOMAIN last /\ last[c] # 0 => told[p][c] = last[c]
GotDeals(p, c) ==
    c[1] = "deals" /\ c \in DOMAIN sessions => ToSet(deals[c[2]].list) \subseteq got[p][c[2]]
Promise(p, c) == Stays(p, c) /\ ToldLast(p, c) /\ GotDeals(p, c)

\* CaughtUp is the three promises, for all that is owed.
LEMMA CaughtIs == CaughtUp <=> \A p \in Slots : \A c \in owed[p] : Promise(p, c)
BY DEF CaughtUp, Promise, Stays, ToldLast, GotDeals

\* The end of some sessions takes nothing from the others.
LEMMA CloseKeepsOthers ==
    ASSUME PushTypes, NEW F \in SUBSET Slots, NEW Found \in SUBSET F, OnClose(F, Found)
    PROVE  /\ DOMAIN sessions' = DOMAIN sessions
           /\ \A p \in Slots : owed'[p] = IF p \in F THEN {} ELSE owed[p]
           /\ \A p \in Slots \ F : open'[p] = open[p] /\ \A c : Stays(p, c) => Stays(p, c)'
<1>1. /\ DOMAIN sessions' = DOMAIN sessions
      /\ \A p \in Slots : owed'[p] = IF p \in F THEN {} ELSE owed[p]
  BY DEF OnClose
<1>2. \A p \in Slots \ F : open'[p] = open[p]
  BY DEF OnClose, PushTypes, ClientTypes
<1>3. ASSUME NEW p \in Slots \ F, NEW c, Stays(p, c) PROVE Stays(p, c)'
  <2>1. c \in DOMAIN sessions /\ p \in sessions[c] => p \in sessions'[c]
    BY DEF OnClose
  <2> QED
    BY <1>1, <1>3, <2>1 DEF Stays
<1> QED
  BY <1>1, <1>2, <1>3

\* Nothing is owed to a closed session, so OwedOpen is kept where owed and open agree.
LEMMA CloseKeepsOwedOpen ==
    ASSUME PushTypes, OwedOpen, NEW F \in SUBSET Slots, NEW Found \in SUBSET F, OnClose(F, Found)
    PROVE  OwedOpen'
<1>1. /\ \A p \in Slots : owed'[p] = IF p \in F THEN {} ELSE owed[p]
      /\ \A p \in Slots \ F : open'[p] = open[p]
  BY CloseKeepsOthers
<1> QED
  BY <1>1 DEF OwedOpen

\* A close
LEMMA EndingCaught ==
    ASSUME PushTypes, CaughtUp, NEW F \in SUBSET Slots, NEW Found \in SUBSET F, Ending(F, Found)
    PROVE  CaughtUp'
<1>1. /\ OnClose(F, Found) /\ UNCHANGED <<last, deals>>
      /\ told' = Forget(told, F, NothingTold) /\ got' = Forget(got, F, NothingGot)
  BY DEF Ending
<1>2. /\ DOMAIN sessions' = DOMAIN sessions
      /\ \A p \in Slots : owed'[p] = IF p \in F THEN {} ELSE owed[p]
      /\ \A p \in Slots \ F : \A c : Stays(p, c) => Stays(p, c)'
  BY <1>1, CloseKeepsOthers
<1>3. \A p \in Slots \ F : told'[p] = told[p] /\ got'[p] = got[p]
  BY <1>1 DEF Forget
<1>4. ASSUME NEW p \in Slots, NEW c \in owed'[p] PROVE Promise(p, c)'
  <2>1. p \notin F /\ c \in owed[p]
    BY <1>2
  <2>2. Promise(p, c)
    BY <2>1, CaughtIs
  <2>3. Stays(p, c)'
    BY <1>2, <2>1, <2>2 DEF Promise
  <2>4. ToldLast(p, c)'
    BY <1>1, <1>3, <2>1, <2>2 DEF Promise, ToldLast
  <2>5. GotDeals(p, c)'
    BY <1>1, <1>2, <1>3, <2>1, <2>2 DEF Promise, GotDeals
  <2> QED
    BY <2>3, <2>4, <2>5 DEF Promise
<1> QED
  BY <1>4 DEF CaughtUp, Promise, Stays, ToldLast, GotDeals

\* A value that changed gets to every session that stays.
LEMMA ValueCaught ==
    ASSUME PushTypes, OwedOpen, CaughtUp, NEW d, NEW value, NEW F \in SUBSET Slots,
           ValueSent(d, value, F)
    PROVE  CaughtUp'
<1>1. /\ d \in DOMAIN sessions /\ d[2] \notin Unknown /\ Broadcast(sessions[d], F)
      /\ last' = [last EXCEPT ![d] = value] /\ UNCHANGED deals
      /\ got' = Forget(got, F, NothingGot)
      /\ told' = [p \in Slots |-> IF p \in F THEN NothingTold
                    ELSE IF p \in sessions[d] /\ open[p]
                         THEN [told[p] EXCEPT ![d] = value] ELSE told[p]]
  BY DEF ValueSent
<1>2. OnClose(F, {p \in F : ~pending[p]})
  BY <1>1, BroadcastCloses
<1>3. /\ DOMAIN sessions' = DOMAIN sessions
      /\ \A p \in Slots : owed'[p] = IF p \in F THEN {} ELSE owed[p]
      /\ \A p \in Slots \ F : \A c : Stays(p, c) => Stays(p, c)'
  BY <1>2, CloseKeepsOthers
<1>4. ASSUME NEW p \in Slots, NEW c \in owed'[p] PROVE Promise(p, c)'
  <2>1. p \notin F /\ c \in owed[p]
    BY <1>3
  <2>2. Promise(p, c) /\ open[p]
    BY <2>1, CaughtIs DEF OwedOpen
  <2>3. Stays(p, c)'
    BY <1>3, <2>1, <2>2 DEF Promise
  <2>4. ToldLast(p, c)'
    <3>1. CASE c = d
      <4>1. p \in sessions[d]
        BY <1>1, <2>2, <3>1 DEF Promise, Stays
      <4>2. told'[p] = [told[p] EXCEPT ![d] = value]
        BY <1>1, <2>1, <2>2, <4>1
      <4>3. told'[p][d] = value /\ last'[d] = value
        BY <1>1, <4>2 DEF PushTypes, SubTypes, DataTypes
      <4> QED
        BY <3>1, <4>3 DEF ToldLast
    <3>2. CASE c # d
      <4>1. told'[p][c] = told[p][c]
        BY <1>1, <2>1, <3>2
      <4>2. DOMAIN last' = DOMAIN last /\ (c \in DOMAIN last => last'[c] = last[c])
        BY <1>1, <3>2
      <4> QED
        BY <2>2, <4>1, <4>2 DEF Promise, ToldLast
    <3> QED
      BY <3>1, <3>2
  <2>5. GotDeals(p, c)'
    BY <1>1, <1>3, <2>1, <2>2 DEF Promise, GotDeals, Forget
  <2> QED
    BY <2>3, <2>4, <2>5 DEF Promise
<1> QED
  BY <1>4 DEF CaughtUp, Promise, Stays, ToldLast, GotDeals

\* What is listed after an answer was listed before or is in the answer.
LEMMA AddedAreSent ==
    ASSUME NEW d \in [list : Seq(Nat), last_id : Nat], NEW ids \in Seq(Nat)
    PROVE  ToSet(DealsAdded(d, ids).list) \subseteq ToSet(d.list) \cup ToSet(ids)
<1> DEFINE all == ids \o d.list
           s == Newest(DealsLimit, all)
<1>1. DealsAdded(d, ids).list = s
  BY DEF DealsAdded
<1>2. d.list \in Seq(Nat)
  OBVIOUS
<1>3. /\ all \in Seq(Nat) /\ Len(all) = Len(ids) + Len(d.list)
      /\ \A i \in 1..Len(all) : all[i] = IF i <= Len(ids) THEN ids[i] ELSE d.list[i - Len(ids)]
  BY <1>2, ConcatProperties
<1> HIDE DEF all
<1>4. /\ s \in Seq(Nat) /\ Len(s) = IF Len(all) < DealsLimit THEN Len(all) ELSE DealsLimit
      /\ \A i \in 1..Len(s) : s[i] = all[i]
  BY <1>3, NewestIs
<1> HIDE DEF s
<1>5. Len(s) <= Len(all) /\ Len(s) \in Nat /\ Len(all) \in Nat
  BY <1>3, <1>4, BoundsAssumption
<1>6. DOMAIN s = 1..Len(s) /\ DOMAIN ids = 1..Len(ids) /\ DOMAIN d.list = 1..Len(d.list)
  BY <1>2, <1>4
<1>7. ASSUME NEW i \in 1..Len(s) PROVE s[i] \in ToSet(d.list) \cup ToSet(ids)
  <2>1. s[i] = all[i] /\ i \in 1..Len(all)
    BY <1>4, <1>5
  <2>2. CASE i <= Len(ids)
    <3>1. i \in DOMAIN ids /\ s[i] = ids[i]
      BY <1>3, <1>6, <2>1, <2>2
    <3> QED
      BY <3>1 DEF ToSet
  <2>3. CASE ~(i <= Len(ids))
    <3>1. i - Len(ids) \in 1..Len(d.list) /\ s[i] = d.list[i - Len(ids)]
      BY <1>2, <1>3, <2>1, <2>3
    <3> QED
      BY <1>6, <3>1 DEF ToSet
  <2> QED
    BY <2>2, <2>3
<1> QED
  BY <1>1, <1>6, <1>7 DEF ToSet

\* New deals get to every session that stays.
LEMMA DealsCaught ==
    ASSUME PushTypes, FlowTypes, OwedOpen, CaughtUp, NEW m, NEW ids \in Seq(Nat),
           NEW F \in SUBSET Slots, DealsSent(m, ids, F)
    PROVE  CaughtUp'
<1> DEFINE S == sessions[<<"deals", m>>]
<1>1. /\ <<"deals", m>> \in DOMAIN sessions /\ m \notin Unknown /\ Broadcast(S, F)
      /\ deals' = [deals EXCEPT ![m] = DealsAdded(@, ids)] /\ UNCHANGED last
      /\ told' = Forget(told, F, NothingTold)
      /\ got' = [p \in Slots |-> IF p \in F THEN NothingGot
                   ELSE IF p \in S /\ open[p]
                        THEN [got[p] EXCEPT ![m] = @ \cup ToSet(ids)] ELSE got[p]]
  BY DEF DealsSent
<1>0. m \in Markets
  BY <1>1 DEF PushTypes, SubTypes, Channels
<1>2. OnClose(F, {p \in F : ~pending[p]})
  BY <1>1, BroadcastCloses
<1>3. /\ DOMAIN sessions' = DOMAIN sessions
      /\ \A p \in Slots : owed'[p] = IF p \in F THEN {} ELSE owed[p]
      /\ \A p \in Slots \ F : \A c : Stays(p, c) => Stays(p, c)'
  BY <1>2, CloseKeepsOthers
<1>4. ASSUME NEW p \in Slots, NEW c \in owed'[p] PROVE Promise(p, c)'
  <2>1. p \notin F /\ c \in owed[p]
    BY <1>3
  <2>2. Promise(p, c) /\ open[p] /\ c \in Channels
    BY <2>1, CaughtIs DEF OwedOpen, PushTypes, ClientTypes
  <2>3. Stays(p, c)'
    BY <1>3, <2>1, <2>2 DEF Promise
  <2>4. ToldLast(p, c)'
    BY <1>1, <2>1, <2>2 DEF Promise, ToldLast, Forget
  <2>5. GotDeals(p, c)'
    <3>1. CASE c = <<"deals", m>>
      <4>1. p \in S
        BY <1>1, <2>2, <3>1 DEF Promise, Stays
      <4>2. got'[p] = [got[p] EXCEPT ![m] = @ \cup ToSet(ids)]
        BY <1>1, <2>1, <2>2, <4>1
      <4>3. got'[p][m] = got[p][m] \cup ToSet(ids)
        BY <1>0, <4>2 DEF PushTypes, DataTypes
      <4>4. ToSet(DealsAdded(deals[m], ids).list) \subseteq ToSet(deals[m].list) \cup ToSet(ids)
        BY <1>0, AddedAreSent DEF FlowTypes
      <4>5. deals'[m] = DealsAdded(deals[m], ids)
        BY <1>0, <1>1 DEF PushTypes, DataTypes
      <4>6. ToSet(deals[m].list) \subseteq got[p][m]
        BY <1>1, <2>2, <3>1 DEF Promise, GotDeals
      <4> QED
        BY <3>1, <4>3, <4>4, <4>5, <4>6 DEF GotDeals
    <3>2. CASE c[1] = "deals" /\ c[2] # m
      <4>1. got'[p][c[2]] = got[p][c[2]]
        BY <1>1, <2>1, <3>2
      <4>2. deals'[c[2]] = deals[c[2]]
        BY <1>1, <2>2, <3>2 DEF PushTypes, DataTypes, Channels
      <4> QED
        BY <1>3, <2>2, <4>1, <4>2 DEF Promise, GotDeals
    <3>3. CASE c[1] # "deals"
      BY <3>3 DEF GotDeals
    <3> QED
      BY <2>2, <3>1, <3>2, <3>3 DEF Channels
  <2> QED
    BY <2>3, <2>4, <2>5 DEF Promise
<1> QED
  BY <1>4 DEF CaughtUp, Promise, Stays, ToldLast, GotDeals

\* A channel that ends has no subscriber, or marketprice does not know its market.
LEMMA DroppingCaught ==
    ASSUME PushTypes, CaughtUp, NEW D, Dropping(D)
    PROVE  CaughtUp'
<1>1. /\ D \subseteq DOMAIN sessions
      /\ \A c \in D : sessions[c] = {} \/ c[2] \in Unknown
      /\ sessions' = [c \in DOMAIN sessions \ D |-> sessions[c]]
      /\ last' = [c \in DOMAIN last \ D |-> last[c]]
      /\ UNCHANGED <<deals, owed, told, got>>
  BY DEF Dropping, ghosts
<1>2. ASSUME NEW p \in Slots, NEW c \in owed'[p] PROVE Promise(p, c)'
  <2>1. Promise(p, c)
    BY <1>1, CaughtIs
  <2>2. Stays(p, c)'
    BY <1>1, <2>1 DEF Promise, Stays
  <2>3. ToldLast(p, c)'
    BY <1>1, <2>1 DEF Promise, ToldLast
  <2>4. GotDeals(p, c)'
    BY <1>1, <2>1 DEF Promise, GotDeals
  <2> QED
    BY <2>2, <2>3, <2>4 DEF Promise
<1> QED
  BY <1>2 DEF CaughtUp, Promise, Stays, ToldLast, GotDeals

\* A request of one session leaves the others as they are, and sends what is known
\* right after the "success".
LEMMA SubscriptionCaught ==
    ASSUME PushTypes, CaughtUp, NEW p \in Slots, NEW topic, NEW C, Subscription(p, topic, C)
    PROVE  CaughtUp'
<1>1. /\ C \subseteq Of(topic, Markets) /\ sessions' = Subscribed(p, topic, C)
      /\ last' = Extended(last, C, 0) /\ DealsSubscribe(C) /\ instance' = instance
  BY DEF Subscription, Subscribe
<1>2. DOMAIN last = DOMAIN sessions /\ DOMAIN sessions' = DOMAIN sessions \cup C
  BY <1>1 DEF PushTypes, SubTypes, Subscribed
<1>3. \A c \in DOMAIN last' : last'[c] # 0 => c \in DOMAIN last /\ last'[c] = last[c]
  BY <1>1 DEF Extended
<1>4. \A m \in Markets : deals'[m] = IF <<"deals", m>> \in C \ DOMAIN sessions THEN NoDeals ELSE deals[m]
  BY <1>1 DEF DealsSubscribe
<1>5. ToSet(NoDeals.list) = {}
  BY DEF ToSet, NoDeals
<1>6. ASSUME NEW q \in Slots, NEW c, Stays(q, c), q # p \/ c[1] # topic \/ c \in C
      PROVE  Stays(q, c)'
  <2>1. c \in DOMAIN sessions /\ q \in sessions[c] => q \in sessions'[c]
    BY <1>1, <1>6 DEF Subscribed
  <2> QED
    BY <1>2, <1>6, <2>1 DEF Stays
<1>7. ASSUME NEW q \in Slots, NEW c \in Channels, c \notin C \/ q # p \/ UNCHANGED <<told, got>>,
             Promise(q, c)
      PROVE  ToldLast(q, c)' /\ GotDeals(q, c)'
  <2>1. told'[q][c] = told[q][c]
    BY <1>7 DEF Subscription, SendLast, PushTypes, DataTypes
  <2>2. c[1] = "deals" => got'[q][c[2]] = got[q][c[2]]
    <3>1. c = <<c[1], c[2]>> /\ c[2] \in Markets
      BY DEF Channels
    <3> QED
      BY <1>7, <3>1 DEF Subscription, SendLast, DealsSendFull, PushTypes, DataTypes
  <2>3. ToldLast(q, c)'
    BY <1>3, <1>7, <2>1 DEF Promise, ToldLast
  <2>4. GotDeals(q, c)'
    <3>1. CASE c[1] = "deals" /\ c \in DOMAIN sessions'
      <4>1. c = <<"deals", c[2]>> /\ c[2] \in Markets
        BY <3>1 DEF Channels
      <4>2. CASE c \in DOMAIN sessions
        BY <1>4, <1>7, <2>2, <3>1, <4>1, <4>2 DEF Promise, GotDeals
      <4>3. CASE c \notin DOMAIN sessions
        BY <1>2, <1>4, <1>5, <3>1, <4>1, <4>3 DEF GotDeals
      <4> QED
        BY <4>2, <4>3
    <3> QED
      BY <3>1 DEF GotDeals
  <2> QED
    BY <2>3, <2>4
<1>8. ASSUME NEW c \in C, topic = "kline" \/ SendLast(p, C)
      PROVE  Promise(p, c)'
  <2>1. c[1] = topic /\ c = <<topic, c[2]>> /\ c[2] \in Markets /\ topic \in Topics /\ c \in Channels
    BY <1>1 DEF Of, Subscription, Subscribe, Channels
  <2>2. Stays(p, c)'
    BY <1>1, <1>2 DEF Stays, Subscribed
  <2>3. ToldLast(p, c)'
    <3>1. CASE SendLast(p, C) /\ c \in DOMAIN last' /\ last'[c] # 0
      <4>1. c \in DOMAIN last /\ last'[c] = last[c]
        BY <1>3, <3>1
      <4>2. told'[p] = [d \in Channels |->
               IF d \in C \cap DOMAIN last /\ last[d] # 0 THEN last[d] ELSE told[p][d]]
        BY <3>1 DEF SendLast, PushTypes, DataTypes
      <4>3. told'[p][c] = last[c]
        BY <2>1, <3>1, <4>1, <4>2
      <4> QED
        BY <4>1, <4>3 DEF ToldLast
    <3> QED
      BY <1>8, <2>1, <3>1 DEF ToldLast
  <2>4. GotDeals(p, c)'
    <3>1. CASE SendLast(p, C) /\ c[1] = "deals"
      <4>1. CASE c \in DOMAIN sessions
        <5>1. got'[p] = [m \in Markets |-> IF <<"deals", m>> \in C \cap DOMAIN sessions
                                            THEN ToSet(deals[m].list) ELSE got[p][m]]
          BY <3>1 DEF SendLast, DealsSendFull, PushTypes, DataTypes
        <5>2. got'[p][c[2]] = ToSet(deals[c[2]].list) /\ deals'[c[2]] = deals[c[2]]
          BY <1>4, <2>1, <3>1, <4>1, <5>1
        <5> QED
          BY <5>2 DEF GotDeals
      <4>2. CASE c \notin DOMAIN sessions
        BY <1>4, <1>5, <2>1, <3>1, <4>2 DEF GotDeals
      <4> QED
        BY <4>1, <4>2
    <3> QED
      BY <1>8, <2>1, <3>1 DEF GotDeals
  <2> QED
    BY <2>2, <2>3, <2>4 DEF Promise
<1>9. ASSUME NEW q \in Slots, NEW c \in owed'[q] PROVE Promise(q, c)'
  <2>1. CASE q # p
    <3>1. c \in owed[q] /\ c \in Channels
      BY <2>1 DEF Subscription, Owe, PushTypes, ClientTypes
    <3> QED
      BY <1>6, <1>7, <2>1, <3>1, CaughtIs DEF Promise
  <2>2. CASE q = p /\ c \in C
    <3>1. (topic = "kline" \/ SendLast(p, C)) \/ Owe(p, topic, {})
      BY DEF Subscription
    <3>2. ~Owe(p, topic, {})
      BY <1>1, <2>2 DEF Owe, PushTypes, ClientTypes
    <3> QED
      BY <1>8, <2>2, <3>1, <3>2
  <2>3. CASE q = p /\ c \notin C
    <3>1. c \in owed[p] /\ c \notin Of(topic, Markets)
      BY <2>3 DEF Subscription, Owe, PushTypes, ClientTypes
    <3>2. c \in Channels /\ c[1] # topic
      BY <3>1 DEF Of, Channels, PushTypes, ClientTypes
    <3> QED
      BY <1>6, <1>7, <2>3, <3>1, <3>2, CaughtIs DEF Promise
  <2> QED
    BY <2>1, <2>2, <2>3
<1> QED
  BY <1>9 DEF CaughtUp, Promise, Stays, ToldLast, GotDeals

\* Nothing is owed to an address without a connection, after any step: a message comes
\* from an open session, and on_close clears what the session was promised.
LEMMA OwedOpenStep ==
    ASSUME PushTypes, OwedOpen, [Next]_vars
    PROVE  OwedOpen'
<1>1. CASE Quiet
  BY <1>1 DEF Quiet, clients, ghosts, OwedOpen
<1>2. ASSUME NEW p \in Slots, Accept(p) \/ Leave(p) \/ Ready(p) PROVE OwedOpen'
  <2>1. UNCHANGED owed /\ \A q \in Slots : open[q] => open'[q]
    BY <1>2 DEF Accept, Leave, Ready, ghosts, PushTypes, ClientTypes
  <2> QED
    BY <2>1 DEF OwedOpen
<1>3. ASSUME NEW p \in Slots, NEW Found \in SUBSET {p}, Ending({p}, Found) PROVE OwedOpen'
  <2>1. OnClose({p}, Found)
    BY <1>3 DEF Ending
  <2> QED
    BY <2>1, CloseKeepsOwedOpen
<1>4. ASSUME NEW D, Dropping(D) PROVE OwedOpen'
  BY <1>4 DEF Dropping, clients, ghosts, OwedOpen
<1>5. ASSUME NEW S, NEW F \in SUBSET Slots, Broadcast(S, F) PROVE OwedOpen'
  <2>1. OnClose(F, {p \in F : ~pending[p]})
    BY <1>5, BroadcastCloses
  <2> QED
    BY <2>1, CloseKeepsOwedOpen
<1>6. ASSUME NEW F \in SUBSET Slots, NEW c, NEW value, ValueSent(c, value, F) PROVE OwedOpen'
  BY <1>5, <1>6 DEF ValueSent
<1>7. ASSUME NEW F \in SUBSET Slots, NEW m, NEW ids, DealsSent(m, ids, F) PROVE OwedOpen'
  BY <1>5, <1>7 DEF DealsSent
<1>8. ASSUME NEW p \in Slots, NEW topic, NEW C, Subscription(p, topic, C) PROVE OwedOpen'
  <2>1. open' = open /\ open[p]
    BY <1>8 DEF Subscription, Subscribe, Message
  <2>2. \A q \in Slots : q # p => owed'[q] = owed[q]
    BY <1>8 DEF Subscription, Owe, PushTypes, ClientTypes
  <2> QED
    BY <2>1, <2>2 DEF OwedOpen
<1> QED
  BY <1>1, <1>2, <1>3, <1>4, <1>6, <1>7, <1>8, Steps

\* Connections, dictionaries, polls and promises, all together
PushInv == PushTypes /\ FlowTypes /\ instance \in Instances /\ OwedOpen /\ CaughtUp

\* The promises are kept by every step.
LEMMA CaughtStep ==
    ASSUME PushInv, [Next]_vars
    PROVE  PushInv'
<1>0. PushTypes /\ FlowTypes /\ instance \in Instances /\ OwedOpen /\ CaughtUp
  BY DEF PushInv
<1>1. PushTypes' /\ FlowTypes' /\ OwedOpen' /\ instance' = instance
  BY <1>0, TypesStep, FlowStep, OwedOpenStep, SameInstance
<1>2. CASE Quiet
  <2>1. UNCHANGED <<sessions, last, deals, owed, told, got>>
    BY <1>2 DEF Quiet, ghosts
  <2> QED
    BY <1>0, <1>1, <2>1 DEF PushInv, CaughtUp
<1>3. ASSUME NEW p \in Slots, Accept(p) \/ Leave(p) \/ Ready(p) PROVE CaughtUp'
  <2>1. UNCHANGED <<sessions, last, deals, owed, told, got>>
    BY <1>3 DEF Accept, Leave, Ready, ghosts
  <2> QED
    BY <1>0, <2>1 DEF CaughtUp
<1>4. ASSUME NEW m, NEW ids, NEW F \in SUBSET Slots, Answer(m, ids), DealsSent(m, ids, F)
      PROVE  CaughtUp'
  <2>1. m \in Markets
    BY <1>0, <1>4 DEF DealsSent, PushTypes, SubTypes, Channels
  <2>2. ids = DealsAfter(Head(requests["deals"]).since, deal_id[m]) /\ requests["deals"] # <<>>
    BY <1>4 DEF Answer, Head1
  <2>3. Head(requests["deals"]) \in Poll /\ deal_id[m] \in Nat
    BY <1>0, <1>4, <2>1, <2>2, HeadTailProperties DEF FlowTypes, Poll, Answer
  <2>4. ids \in Seq(Nat)
    BY <2>2, <2>3, DealsAfterIs DEF Poll
  <2> QED
    BY <1>0, <1>4, <2>4, DealsCaught
<1>5. ASSUME NEW p \in Slots, NEW Found \in SUBSET {p}, Ending({p}, Found) PROVE CaughtUp'
  BY <1>0, <1>5, EndingCaught
<1>6. CaughtUp'
  BY <1>0, <1>2, <1>3, <1>4, <1>5, Steps, SubscriptionCaught, DroppingCaught, ValueCaught DEF PushInv
<1> QED
  BY <1>0, <1>1, <1>6 DEF PushInv

\* Whoever was told "success" stays subscribed to a market that exists and has been sent
\* what the worker holds of it, whatever is closed, lost or late (on_method_*_subscribe,
\* *_send_last, deals_send_full and the broadcasts of aw_*.c).
THEOREM SubscribersAreUpToDate == Spec => []CaughtUp
<1>1. Init => PushInv
  BY InitTypes, InitFlow DEF PushInv
<1>2. PushInv /\ [Next]_vars => PushInv'
  BY CaughtStep
<1>3. PushInv => CaughtUp
  BY DEF PushInv
<1> QED
  BY <1>1, <1>2, <1>3, PTL DEF Spec

-----------------------------------------------------------------------------
(* The list of deals, for a marketprice that answers within a polling interval *)

\* The newest deals after `last', put before the newest until then, are the newest.
LEMMA AddedAreNewest ==
    ASSUME NEW last_id \in Nat, NEW id \in Nat, DealsAfter(last_id, id) # <<>>,
           NEW d, d.list = DealsAfter(0, last_id)
    PROVE  /\ DealsAdded(d, DealsAfter(last_id, id)).list = DealsAfter(0, id)
           /\ DealsAdded(d, DealsAfter(last_id, id)).last_id = id
<1> DEFINE ids == DealsAfter(last_id, id)
           old == DealsAfter(0, last_id)
           all == ids \o old
           s == Newest(DealsLimit, all)
           t == DealsAfter(0, id)
           k == IF id > last_id THEN id - last_id ELSE 0
<1>1. /\ ids \in Seq(Nat) /\ Len(ids) = (IF k < DealsLimit THEN k ELSE DealsLimit)
      /\ \A i \in 1..Len(ids) : ids[i] = id - i + 1
  BY DealsAfterIs
<1>2. /\ old \in Seq(Nat) /\ Len(old) = (IF last_id < DealsLimit THEN last_id ELSE DealsLimit)
      /\ \A i \in 1..Len(old) : old[i] = last_id - i + 1
  <2>1. (IF last_id > 0 THEN last_id - 0 ELSE 0) = last_id
    OBVIOUS
  <2> QED
    BY <2>1, DealsAfterIs
<1>3. /\ t \in Seq(Nat) /\ Len(t) = (IF id < DealsLimit THEN id ELSE DealsLimit)
      /\ \A i \in 1..Len(t) : t[i] = id - i + 1
  <2>1. (IF id > 0 THEN id - 0 ELSE 0) = id
    OBVIOUS
  <2> QED
    BY <2>1, DealsAfterIs
<1>4. DealsAdded(d, ids).list = s /\ DealsAdded(d, ids).last_id = Head(ids)
  BY DEF DealsAdded
<1> HIDE DEF ids, old, t, k
<1>5. /\ all \in Seq(Nat) /\ Len(all) = Len(ids) + Len(old)
      /\ \A i \in 1..Len(all) : all[i] = IF i <= Len(ids) THEN ids[i] ELSE old[i - Len(ids)]
  <2>1. ids \in Seq(Nat) /\ old \in Seq(Nat)
    BY <1>1, <1>2
  <2> QED
    BY <2>1, ConcatProperties
<1> HIDE DEF all
<1>6. /\ s \in Seq(Nat) /\ Len(s) = IF Len(all) < DealsLimit THEN Len(all) ELSE DealsLimit
      /\ \A i \in 1..Len(s) : s[i] = all[i]
  BY <1>5, NewestIs
<1> HIDE DEF s
<1>7. DealsLimit \in Nat \ {0}
  BY BoundsAssumption
<1>8. id > last_id /\ k = id - last_id
  <2>1. Len(ids) # 0
    BY <1>1 DEF ids
  <2> QED
    BY <1>1, <1>7, <2>1 DEF k
<1>9. Len(ids) = (IF id - last_id < DealsLimit THEN id - last_id ELSE DealsLimit)
  BY <1>1, <1>8
<1>10. Len(s) = Len(t)
  BY <1>2, <1>3, <1>5, <1>6, <1>7, <1>8, <1>9
<1>11. ASSUME NEW i \in 1..Len(s) PROVE s[i] = t[i]
  <2>0. /\ Len(all) \in Nat /\ Len(s) \in Nat /\ Len(ids) \in Nat /\ Len(old) \in Nat
        /\ Len(all) = Len(ids) + Len(old)
        /\ Len(s) = IF Len(all) < DealsLimit THEN Len(all) ELSE DealsLimit
    BY <1>1, <1>2, <1>5, <1>6
  <2>1. i \in 1..Len(all) /\ i \in 1..Len(t) /\ i <= DealsLimit
    BY <1>7, <1>10, <2>0
  <2>2. t[i] = id - i + 1 /\ s[i] = all[i]
    BY <1>3, <1>6, <2>1
  <2>3. CASE i <= Len(ids)
    <3>1. i \in 1..Len(ids) /\ all[i] = ids[i]
      BY <1>5, <2>0, <2>1, <2>3
    <3> QED
      BY <1>1, <2>2, <3>1
  <2>4. CASE ~(i <= Len(ids))
    <3>1. Len(ids) = id - last_id
      BY <1>7, <1>8, <1>9, <2>1, <2>4
    <3>2. i - Len(ids) \in 1..Len(old) /\ all[i] = old[i - Len(ids)]
      BY <1>5, <2>0, <2>1, <2>4
    <3>3. old[i - Len(ids)] = last_id - (i - Len(ids)) + 1
      BY <1>2, <3>2
    <3> QED
      BY <1>8, <2>2, <3>1, <3>2, <3>3
  <2> QED
    BY <2>3, <2>4
<1>12. s = t
  BY <1>3, <1>6, <1>10, <1>11, SeqEqual
<1>13. Head(ids) = id
  <2>1. 1 \in 1..Len(ids)
    BY <1>7, <1>8, <1>9
  <2>2. ids[1] = id - 1 + 1
    BY <1>1, <2>1
  <2> QED
    BY <1>1, <2>2
<1> QED
  BY <1>4, <1>12, <1>13 DEF ids, t

\* A market without deals has an empty list.
LEMMA NothingAfterNothing == DealsAfter(0, 0) = <<>>
<1>1. /\ DealsAfter(0, 0) \in Seq(Nat)
      /\ Len(DealsAfter(0, 0)) = IF (IF 0 > 0 THEN 0 - 0 ELSE 0) < DealsLimit
                                 THEN (IF 0 > 0 THEN 0 - 0 ELSE 0) ELSE DealsLimit
  BY DealsAfterIs
<1>2. Len(DealsAfter(0, 0)) = 0
  BY <1>1, BoundsAssumption
<1> QED
  BY <1>1, <1>2, EmptySeq

\* Every list is the newest deals up to the last one known.
Listed ==
    \A m \in Markets : /\ deals[m].list = DealsAfter(0, deals[m].last_id)
                       /\ deals[m].last_id <= deal_id[m]

\* A market is asked for its deals once at a time, and after the last one known.
Asking(queue) ==
    /\ \A i, j \in 1..Len(queue) : queue[i].market = queue[j].market => i = j
    /\ \A i \in 1..Len(queue) :
          queue[i].market \notin Unknown =>
              /\ <<"deals", queue[i].market>> \in DOMAIN sessions
              /\ queue[i].since = deals[queue[i].market].last_id

ListInv == Listed /\ ("deals" \in Topics => Asking(requests["deals"]))

\* The timer asks when nothing is under way.
LEMMA TimerListed ==
    ASSUME PushTypes, FlowTypes, instance \in Instances, ListInv, "slow_backend" \notin Faults,
           NEW topic, OnTimer(topic)
    PROVE  ListInv'
<1>1. /\ topic \in Topics /\ requests[topic] = <<>> /\ UNCHANGED <<instance, deals, deal_id>>
      /\ DOMAIN sessions' = DOMAIN sessions \ ({c \in DOMAIN sessions : c[1] = topic} \ Polled(topic))
  BY DEF OnTimer
<1>2. Topics' = Topics /\ Markets' = Markets
  BY <1>1, SameChannels
<1>3. PICK polls : Polls(topic, polls) /\ requests' = [requests EXCEPT ![topic] = @ \o polls]
  BY TimerPolls
<1>4. Listed'
  BY <1>1, <1>2 DEF ListInv, Listed
<1>5. CASE topic = "deals"
  <2>1. requests["deals"] \o polls = polls
    BY <1>1, <1>3, <1>5, ConcatEmptySeq DEF Polls
  <2>2. requests'["deals"] = polls
    BY <1>1, <1>3, <1>5, <2>1 DEF FlowTypes
  <2>3. \A i \in 1..Len(polls) : /\ <<"deals", polls[i].market>> \in Polled("deals")
                                 /\ polls[i].since = deals[polls[i].market].last_id
    BY <1>3, <1>5 DEF Polls
  <2>4. Polled("deals") \subseteq DOMAIN sessions'
    BY <1>1, <1>5 DEF Polled
  <2>5. Asking(polls)'
    BY <1>1, <1>3, <2>3, <2>4 DEF Asking, Polls
  <2> QED
    BY <1>2, <1>4, <2>2, <2>5 DEF ListInv, Asking
<1>6. CASE topic # "deals"
  <2>1. requests'["deals"] = requests["deals"]
    BY <1>1, <1>3, <1>6
  <2>2. \A m : <<"deals", m>> \in DOMAIN sessions => <<"deals", m>> \in DOMAIN sessions'
    BY <1>1, <1>6
  <2>3. "deals" \in Topics => Asking(requests["deals"])'
    BY <1>1, <2>1, <2>2 DEF ListInv, Asking
  <2> QED
    BY <1>2, <1>4, <2>3 DEF ListInv
<1> QED
  BY <1>5, <1>6

\* An answer is the oldest poll's, and its deals follow those that are listed.
LEMMA TakingListed ==
    ASSUME PushTypes, FlowTypes, ListInv, NEW topic, Taking(topic)
    PROVE  ListInv'
<1>1. /\ UNCHANGED <<instance, deal_id>> /\ topic \in Topics /\ requests[topic] # <<>>
      /\ requests' = [requests EXCEPT ![topic] = Tail(@)]
  BY DEF Taking, TakeReply
<1>2. Topics' = Topics /\ Markets' = Markets
  BY <1>1, SameChannels
<1>3. \A m : m \notin Unknown /\ <<"deals", m>> \in DOMAIN sessions => <<"deals", m>> \in DOMAIN sessions'
  <2>1. ASSUME NEW c, c[2] \in Unknown, DOMAIN sessions' = DOMAIN sessions \ {c},
               NEW m, m \notin Unknown, <<"deals", m>> \in DOMAIN sessions
        PROVE  <<"deals", m>> \in DOMAIN sessions'
    <3>1. <<"deals", m>>[2] = m
      OBVIOUS
    <3>2. <<"deals", m>> # c
      BY <2>1, <3>1
    <3> QED
      BY <2>1, <3>2
  <2>2. \/ DOMAIN sessions' = DOMAIN sessions
        \/ \E c : c[2] \in Unknown /\ DOMAIN sessions' = DOMAIN sessions \ {c}
    BY DEF Taking
  <2> QED
    BY <2>1, <2>2
<1> DEFINE queue == requests["deals"]
<1>4. CASE topic # "deals"
  <2>1. requests'["deals"] = requests["deals"] /\ deals' = deals
    BY <1>1, <1>4 DEF Taking
  <2>2. Listed'
    BY <1>1, <1>2, <2>1 DEF ListInv, Listed
  <2>3. "deals" \in Topics => Asking(requests["deals"])'
    BY <1>3, <2>1 DEF ListInv, Asking
  <2> QED
    BY <1>2, <2>2, <2>3 DEF ListInv
<1>5. CASE topic = "deals"
  <2>1. /\ queue \in Seq(Poll) /\ queue # <<>> /\ requests'["deals"] = Tail(queue)
        /\ Asking(queue)
    BY <1>1, <1>5 DEF FlowTypes, Poll, ListInv
  <2> HIDE DEF queue
  <2>2. /\ Head(queue) = queue[1] /\ Len(queue) \in Nat \ {0}
        /\ Len(Tail(queue)) = Len(queue) - 1
        /\ \A i \in 1..Len(Tail(queue)) : Tail(queue)[i] = queue[i + 1]
    BY <2>1, HeadTailProperties
  <2>3. \A i \in 1..Len(Tail(queue)) :
           /\ i + 1 \in 1..Len(queue) /\ Tail(queue)[i] = queue[i + 1]
           /\ Tail(queue)[i].market # queue[1].market
    <3> TAKE i \in 1..Len(Tail(queue))
    <3>1. i + 1 \in 1..Len(queue) /\ 1 \in 1..Len(queue) /\ i + 1 # 1
      BY <2>2
    <3>2. Tail(queue)[i] = queue[i + 1]
      BY <2>2
    <3> QED
      BY <2>1, <3>1, <3>2 DEF Asking
  <2>4. ASSUME \A m \in Markets \ {queue[1].market} : deals'[m] = deals[m]
        PROVE  \A i \in 1..Len(Tail(queue)) :
                  Tail(queue)[i].market \notin Unknown =>
                     /\ <<"deals", Tail(queue)[i].market>> \in DOMAIN sessions'
                     /\ Tail(queue)[i].since = deals'[Tail(queue)[i].market].last_id
    <3> TAKE i \in 1..Len(Tail(queue))
    <3> HAVE Tail(queue)[i].market \notin Unknown
    <3>1. i + 1 \in 1..Len(queue) /\ Tail(queue)[i] = queue[i + 1]
      BY <2>3
    <3>2. queue[i + 1] \in Poll
      BY <2>1, <3>1, ElementOfSeq
    <3>3. /\ <<"deals", queue[i + 1].market>> \in DOMAIN sessions
          /\ queue[i + 1].since = deals[queue[i + 1].market].last_id
      BY <2>1, <3>1 DEF Asking
    <3>4. queue[i + 1].market \in Markets \ {queue[1].market}
      BY <2>3, <3>1, <3>2 DEF Poll
    <3> QED
      BY <1>3, <2>4, <3>1, <3>3, <3>4
  <2>5. \A i, j \in 1..Len(Tail(queue)) : Tail(queue)[i].market = Tail(queue)[j].market => i = j
    <3> TAKE i, j \in 1..Len(Tail(queue))
    <3>1. i + 1 \in 1..Len(queue) /\ j + 1 \in 1..Len(queue)
      BY <2>3
    <3>2. queue[i + 1].market = queue[j + 1].market => i + 1 = j + 1
      BY <2>1, <3>1 DEF Asking
    <3>3. i + 1 = j + 1 => i = j
      BY <2>2
    <3> QED
      BY <2>3, <3>2, <3>3
  <2>6. ASSUME \A m \in Markets \ {queue[1].market} : deals'[m] = deals[m]
        PROVE  Asking(requests["deals"])'
    <3>1. \A i \in 1..Len(Tail(queue)) :
                  Tail(queue)[i].market \notin Unknown =>
                     /\ <<"deals", Tail(queue)[i].market>> \in DOMAIN sessions'
                     /\ Tail(queue)[i].since = deals'[Tail(queue)[i].market].last_id
      BY <2>4, <2>6
    <3> QED
      BY <2>1, <2>5, <3>1 DEF Asking
  <2>7. CASE deals' = deals
    <3>1. Asking(requests["deals"])'
      BY <2>6, <2>7
    <3>2. Listed'
      BY <1>1, <1>2, <2>7 DEF ListInv, Listed
    <3> QED
      BY <3>1, <3>2 DEF ListInv
  <2>8. CASE \E m, ids : \E F \in SUBSET Slots : Answer(m, ids) /\ DealsSent(m, ids, F)
    <3>1. PICK m, ids : Answer(m, ids) /\ \E F \in SUBSET Slots : DealsSent(m, ids, F)
      BY <2>8
    <3>2. /\ m \in Markets /\ m \notin Unknown /\ deals' = [deals EXCEPT ![m] = DealsAdded(@, ids)]
      BY <3>1 DEF DealsSent, PushTypes, SubTypes, Channels
    <3>3. ids # <<>> /\ queue[1].market = m /\ ids = DealsAfter(queue[1].since, deal_id[m])
      BY <2>2, <3>1 DEF Answer, Head1, queue
    <3>4. queue[1].since = deals[m].last_id
      <4>1. 1 \in 1..Len(queue)
        BY <2>2
      <4> QED
        BY <2>1, <3>2, <3>3, <4>1 DEF Asking
    <3>5. deals[m].last_id \in Nat /\ deal_id[m] \in Nat /\ deals[m].list = DealsAfter(0, deals[m].last_id)
      BY <3>2 DEF FlowTypes, ListInv, Listed
    <3>6. /\ DealsAdded(deals[m], ids).list = DealsAfter(0, deal_id[m])
          /\ DealsAdded(deals[m], ids).last_id = deal_id[m]
      BY <3>3, <3>4, <3>5, AddedAreNewest
    <3>7. /\ deals'[m] = DealsAdded(deals[m], ids)
          /\ \A k \in Markets \ {m} : deals'[k] = deals[k]
      BY <3>2 DEF PushTypes, DataTypes
    <3>8. Listed'
      BY <1>1, <1>2, <3>5, <3>6, <3>7 DEF ListInv, Listed
    <3>9. Asking(requests["deals"])'
      BY <2>6, <3>3, <3>7
    <3> QED
      BY <3>8, <3>9 DEF ListInv
  <2> QED
    BY <1>5, <2>7, <2>8 DEF Taking
<1> QED
  BY <1>4, <1>5

\* A market that is asked for its deals is not new to a subscriber.
LEMMA AddingListed ==
    ASSUME PushTypes, FlowTypes, ListInv, Adding
    PROVE  ListInv'
<1>1. /\ UNCHANGED <<instance, requests, deal_id>> /\ DOMAIN sessions \subseteq DOMAIN sessions'
      /\ \A m \in Markets : deals'[m] \in {deals[m], NoDeals}
      /\ \A m \in Markets : <<"deals", m>> \in DOMAIN sessions => deals'[m] = deals[m]
  BY DEF Adding
<1>2. Topics' = Topics /\ Markets' = Markets
  BY <1>1, SameChannels
<1>3. NoDeals.list = DealsAfter(0, NoDeals.last_id) /\ NoDeals.last_id = 0
  BY NothingAfterNothing DEF NoDeals
<1>4. Listed'
  BY <1>1, <1>2, <1>3 DEF ListInv, Listed, FlowTypes
<1>5. ASSUME "deals" \in Topics PROVE Asking(requests["deals"])'
  <2> DEFINE queue == requests["deals"]
  <2>1. queue \in Seq(Poll) /\ Asking(queue)
    BY <1>5 DEF FlowTypes, Poll, ListInv
  <2> HIDE DEF queue
  <2>2. ASSUME NEW i \in 1..Len(queue), queue[i].market \notin Unknown
        PROVE  /\ <<"deals", queue[i].market>> \in DOMAIN sessions'
               /\ queue[i].since = deals'[queue[i].market].last_id
    <3>1. queue[i].market \in Markets
      <4>1. queue[i] \in Poll
        BY <2>1, ElementOfSeq
      <4> QED
        BY <4>1 DEF Poll
    <3>2. /\ <<"deals", queue[i].market>> \in DOMAIN sessions
          /\ queue[i].since = deals[queue[i].market].last_id
      BY <2>1, <2>2 DEF Asking
    <3> QED
      BY <1>1, <3>1, <3>2
  <2>3. requests'["deals"] = queue
    BY <1>1 DEF queue
  <2> QED
    BY <2>1, <2>2, <2>3 DEF Asking
<1> QED
  BY <1>2, <1>4, <1>5 DEF ListInv

\* The lists and the polls fit together after every step.
LEMMA ListStep ==
    ASSUME PushTypes, FlowTypes, instance \in Instances, ListInv, [Next]_vars,
           "slow_backend" \notin Faults
    PROVE  ListInv'
<1>1. ASSUME NEW m \in Markets, NewDeal(m) PROVE ListInv'
  <2>1. UNCHANGED <<instance, requests, deals, sessions>> /\ deal_id' = [deal_id EXCEPT ![m] = @ + 1]
    BY <1>1 DEF NewDeal
  <2>2. Topics' = Topics /\ Markets' = Markets
    BY <2>1, SameChannels
  <2>3. Listed'
    BY <2>1, <2>2 DEF ListInv, Listed, FlowTypes
  <2>4. "deals" \in Topics => Asking(requests["deals"])'
    BY <2>1 DEF ListInv, Asking
  <2> QED
    BY <2>2, <2>3, <2>4 DEF ListInv
<1> QED
  BY <1>1, FlowSteps, TimerListed, TakingListed, AddingListed

\* Nothing is listed and nothing asked at first.
LEMMA InitListed == ASSUME Init PROVE ListInv
BY NothingAfterNothing DEF Init, ListInv, Listed, Asking, NoDeals

\* The list of a market holds its latest deals, each once and in order
\* (on_order_deals_reply), as long as no two polls of it are under way at a time.
THEOREM DealsAreListedOnce ==
    "slow_backend" \notin Faults => (Spec => []DealsListed)
<1> SUFFICES ASSUME "slow_backend" \notin Faults PROVE Spec => []DealsListed
  OBVIOUS
<1> DEFINE Inv == PushTypes /\ FlowTypes /\ instance \in Instances /\ ListInv
<1>1. Init => Inv
  BY InitTypes, InitFlow, InitListed
<1>2. Inv /\ [Next]_vars => Inv'
  BY TypesStep, FlowStep, SameInstance, ListStep
<1>3. Inv => DealsListed
  BY DEF ListInv, Listed, DealsListed
<1> QED
  BY <1>1, <1>2, <1>3, PTL DEF Spec
==============================================================================
