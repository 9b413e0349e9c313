---------------------------- MODULE AWUserProofs ----------------------------
(***************************************************************************)
(* Proofs about AWUser, for every number of addresses, users, assets,      *)
(* markets, connections and changes.                                       *)
(*                                                                         *)
(* An address of nw_ses outlives its connections.  What keeps the users    *)
(* apart is the id an answer about a token is compared with: ids are given *)
(* out in growing order (JobsAuthentic), and on_close empties the lists of *)
(* the user clt_info names at that time.                                   *)
(*                                                                         *)
(* That nobody misses an event rests on the events of a user and market    *)
(* being numbered without gaps in the topic (EventsNumbered), and that a   *)
(* balance is under way on the order of the queries: an answer that is old *)
(* is followed by a message or a query that is not (OldAnswersFollowed).   *)
(***************************************************************************)
EXTENDS AWUser, FiniteSetTheorems, SequenceTheorems, TLAPS

\* Sessions, jobs and lists
SessionsOK ==
    /\ conns \in Nat
    /\ conn \in [Slots -> 0..conns]
    /\ user \in [Slots -> Users \cup {0}]
    /\ tokens \in [Slots -> SUBSET Users]
    /\ jobs \subseteq [ses : Slots, ses_id : 1..conns, user_id : Users]
    /\ units \in [Kinds -> [Users -> SUBSET (Slots \X (Assets \cup Markets))]]

\* Events and messages
EngineOK ==
    /\ balance \in [Users \X Assets -> Nat]
    /\ events \in [Users \X Markets -> Nat]
    /\ balances \in Seq(Users \X Assets)
    /\ orders \in Seq([user : Users, market : Markets, n : Nat])
    /\ queries \in Seq([user : Users, asset : Assets, value : Nat \cup {Unanswered}])

\* A token that is being looked up was sent by the connection with the id.
JobsAuthentic ==
    \A j \in jobs : conn[j.ses] = j.ses_id => j.user_id \in tokens[j.ses]

OwnInv == SessionsOK /\ JobsAuthentic /\ OwnEventsOnly

\* Who has been told that it is sent an item is in the list of the item.
ToldListening ==
    \A p \in Slots : \A x \in DOMAIN told[p] :
        /\ conn[p] # 0 /\ user[p] \in Users
        /\ x = <<x[1], x[2]>> /\ x[1] \in Kinds /\ x[2] \in Items(x[1])
        /\ <<p, x[2]>> \in units[x[1]][user[p]]

\* Two entries of the orders topic about the same orders
Alike(e, f) == e.user = f.user /\ e.market = f.market

\* The entries of Q about a user's orders in a market, and those behind the i-th about the same
Entries(Q, u, m) == {i \in DOMAIN Q : Q[i].user = u /\ Q[i].market = m}
Later(Q, i) == {k \in DOMAIN Q : k > i /\ Alike(Q[k], Q[i])}

\* The events of a user and a market lie in the topic by their numbers, the
\* latest last.
EventsNumbered ==
    \A i \in DOMAIN orders :
        orders[i].n = events[<<orders[i].user, orders[i].market>>] - Cardinality(Later(orders, i))

\* A list of assets holds assets, a list of markets markets.
ListsByKind ==
    \A kind \in Kinds, u \in Users : units[kind][u] \subseteq Slots \X Items(kind)

EventInv == OwnInv /\ EngineOK /\ ListsByKind /\ told = [p \in Slots |-> told[p]]
            /\ ToldListening /\ EventsNumbered /\ NoEventMissed

\* A message that makes accessws ask for the balance, or a query behind the k-th
\* that will be answered with it
Pending(u, a, k) ==
    \/ \E i \in DOMAIN balances : balances[i] = <<u, a>>
    \/ \E i \in DOMAIN orders : orders[i].user = u /\ a \in Range(Traded[orders[i].market])
    \/ \E i \in DOMAIN queries : /\ i > k /\ queries[i].user = u /\ queries[i].asset = a
                                 /\ queries[i].value \in {Unanswered, balance[<<u, a>>]}

\* No client has a balance, and no query an answer, that never was.
NothingFromTheFuture ==
    /\ \A i \in DOMAIN queries : queries[i].value <= balance[<<queries[i].user, queries[i].asset>>]
    /\ \A p \in Slots, a \in Assets : <<"asset", a>> \in DOMAIN told[p] =>
           told[p][<<"asset", a>>] \in 0..balance[<<user[p], a>>]

\* The i-th query has an answer that is old.
Stale(u, a, i) ==
    /\ queries[i].user = u /\ queries[i].asset = a
    /\ queries[i].value \notin {Unanswered, balance[<<u, a>>]}

\* Something that leads to the balance is coming, and behind every old answer.
Followed(u, a) ==
    /\ Pending(u, a, 0) \/ <<u, a>> \in lost
    /\ \A i \in DOMAIN queries : Stale(u, a, i) => Pending(u, a, i)

\* So it is for every client that has an old balance.
OldAnswersFollowed == \A p \in Slots, a \in Assets : Behind(p, a) => Followed(user[p], a)

BalanceInv == EventInv /\ NothingFromTheFuture /\ OldAnswersFollowed

-----------------------------------------------------------------------------
(* Whose sessions, tokens and lists *)

\* on_close of the sessions F takes their units off the lists.
LEMMA ClosedOwn ==
    ASSUME OwnInv, NEW F \in SUBSET Slots, Closed(F), UNCHANGED jobs
    PROVE  OwnInv'
<1>1. /\ conn' = [p \in Slots |-> IF p \in F THEN 0 ELSE conn[p]]
      /\ units' = [kind \in Kinds |-> [u \in Users |-> Without(kind, u, {p \in F : user[p] = u})]]
      /\ tokens' = [p \in Slots |-> IF p \in F THEN {} ELSE tokens[p]]
      /\ UNCHANGED <<conns, user, jobs>>
  BY DEF Closed
<1>2. \A kind \in Kinds, u \in Users :
         units'[kind][u] = {x \in units[kind][u] : ~(x[1] \in F /\ user[x[1]] = u)}
  BY <1>1 DEF Without
<1>3. SessionsOK'
  <2>1. units' \in [Kinds -> [Users -> SUBSET (Slots \X (Assets \cup Markets))]]
    <3>1. \A kind \in Kinds, u \in Users : units[kind][u] \subseteq Slots \X (Assets \cup Markets)
      BY DEF OwnInv, SessionsOK
    <3>2. \A kind \in Kinds, u \in Users :
             Without(kind, u, {p \in F : user[p] = u}) \subseteq Slots \X (Assets \cup Markets)
      BY <3>1 DEF Without
    <3> QED
      BY <1>1, <3>2
  <2> QED
    BY <1>1, <2>1 DEF OwnInv, SessionsOK
<1>4. JobsAuthentic'
  BY <1>1 DEF OwnInv, SessionsOK, JobsAuthentic
<1>5. OwnEventsOnly'
  <2>1. \A p \in Slots : conn'[p] # 0 /\ user'[p] # 0 => user'[p] \in tokens'[p]
    BY <1>1 DEF OwnInv, OwnEventsOnly
  <2>2. ASSUME NEW kind \in Kinds, NEW u \in Users, NEW x \in units'[kind][u]
        PROVE  conn'[x[1]] # 0 /\ user'[x[1]] = u
    <3>1. x \in units[kind][u] /\ ~(x[1] \in F /\ user[x[1]] = u)
      BY <1>2, <2>2
    <3>2. conn[x[1]] # 0 /\ user[x[1]] = u
      BY <3>1 DEF OwnInv, OwnEventsOnly
    <3>3. x[1] \in Slots
      BY <3>1 DEF OwnInv, SessionsOK
    <3> QED
      BY <1>1, <3>1, <3>2, <3>3
  <2> QED
    BY <2>1, <2>2 DEF OwnEventsOnly
<1> QED
  BY <1>3, <1>4, <1>5 DEF OwnInv

\* Lists to which only units of the user's own session p are added
LEMMA ListOwn ==
    ASSUME OwnInv, NEW p \in Slots, conn[p] # 0,
           units' \in [Kinds -> [Users -> SUBSET (Slots \X (Assets \cup Markets))]],
           \A k \in Kinds, v \in Users : \A x \in units'[k][v] :
               x \in units[k][v] \/ (v = user[p] /\ x[1] = p),
           UNCHANGED <<conn, conns, user, jobs, tokens>>
    PROVE  OwnInv'
<1>1. SessionsOK' /\ JobsAuthentic'
  BY DEF OwnInv, SessionsOK, JobsAuthentic
<1>2. \A q \in Slots : conn'[q] # 0 /\ user'[q] # 0 => user'[q] \in tokens'[q]
  BY DEF OwnInv, OwnEventsOnly
<1>3. ASSUME NEW k \in Kinds, NEW v \in Users, NEW x \in units'[k][v]
      PROVE  conn'[x[1]] # 0 /\ user'[x[1]] = v
  <2>1. x \in units[k][v] \/ (v = user[p] /\ x[1] = p)
    BY <1>3
  <2> QED
    BY <2>1 DEF OwnInv, OwnEventsOnly
<1>4. OwnEventsOnly'
  BY <1>2, <1>3 DEF OwnEventsOnly
<1> QED
  BY <1>1, <1>4 DEF OwnInv

\* A new connection: ids grow, so no answer that is out is for it.
LEMMA AcceptOwn ==
    ASSUME OwnInv, NEW p \in Slots, Accept(p)
    PROVE  OwnInv'
<1>1. /\ conn[p] = 0 /\ conns' = conns + 1
      /\ conn' = [conn EXCEPT ![p] = conns + 1] /\ user' = [user EXCEPT ![p] = 0]
      /\ UNCHANGED <<jobs, units, tokens>>
  BY DEF Accept, ghosts
<1>2. SessionsOK'
  BY <1>1 DEF OwnInv, SessionsOK
<1>3. JobsAuthentic'
  BY <1>1 DEF OwnInv, SessionsOK, JobsAuthentic
<1>4. OwnEventsOnly'
  <2>1. ASSUME NEW kind \in Kinds, NEW u \in Users, NEW x \in units[kind][u]
        PROVE  conn'[x[1]] # 0 /\ user'[x[1]] = u
    <3>1. conn[x[1]] # 0 /\ user[x[1]] = u /\ x[1] \in Slots
      BY <2>1 DEF OwnInv, OwnEventsOnly, SessionsOK
    <3> QED
      BY <1>1, <3>1 DEF OwnInv, SessionsOK
  <2> QED
    BY <1>1, <2>1 DEF OwnInv, OwnEventsOnly, SessionsOK
<1> QED
  BY <1>2, <1>3, <1>4 DEF OwnInv

\* A token is sent on for the connection that brought it.
LEMMA SendAuthOwn ==
    ASSUME OwnInv, NEW p \in Slots, NEW u \in Users, SendAuthRequest(p, u)
    PROVE  OwnInv'
<1>1. /\ conn[p] # 0
      /\ jobs' = jobs \cup {[ses |-> p, ses_id |-> conn[p], user_id |-> u]}
      /\ tokens' = [tokens EXCEPT ![p] = @ \cup {u}]
      /\ UNCHANGED <<conn, conns, user, units>>
  BY DEF SendAuthRequest, session
<1>2. SessionsOK'
  BY <1>1 DEF OwnInv, SessionsOK
<1>3. JobsAuthentic'
  BY <1>1 DEF OwnInv, SessionsOK, JobsAuthentic
<1>4. OwnEventsOnly'
  BY <1>1 DEF OwnInv, OwnEventsOnly, SessionsOK
<1> QED
  BY <1>2, <1>3, <1>4 DEF OwnInv

\* An answer about a token reaches the connection that sent it, or none.
LEMMA OnResultOwn ==
    ASSUME OwnInv, NEW j \in jobs, OnResult(j) \/ OnResultError(j)
    PROVE  OwnInv'
<1>1. jobs' = jobs \ {j} /\ UNCHANGED <<conn, conns, tokens>>
  BY DEF OnResult, OnResultError, session, ghosts
<1> DEFINE p == j.ses
           u == j.user_id
<1>2. p \in Slots /\ u \in Users /\ j.ses_id \in 1..conns
  BY DEF OwnInv, SessionsOK
<1>3. CASE UNCHANGED <<user, units>>
  BY <1>1, <1>3 DEF OwnInv, SessionsOK, JobsAuthentic, OwnEventsOnly
<1>4. CASE OnResult(j) /\ conn[p] = j.ses_id
  <2>1. /\ user' = [user EXCEPT ![p] = u]
        /\ units' = [kind \in Kinds |-> [w \in Users |->
                       IF w = user[p] /\ w # u THEN Without(kind, w, {p}) ELSE units[kind][w]]]
    BY <1>4 DEF OnResult, BecomesUserOf
  <2>2. units' \in [Kinds -> [Users -> SUBSET (Slots \X (Assets \cup Markets))]]
    <3>1. \A kind \in Kinds, w \in Users :
             /\ units[kind][w] \subseteq Slots \X (Assets \cup Markets)
             /\ Without(kind, w, {p}) \subseteq units[kind][w]
      BY DEF OwnInv, SessionsOK, Without
    <3> QED
      BY <2>1, <3>1
  <2>3. SessionsOK' /\ JobsAuthentic'
    BY <1>1, <1>2, <2>1, <2>2 DEF OwnInv, SessionsOK, JobsAuthentic
  <2>4. \A q \in Slots : conn'[q] # 0 /\ user'[q] # 0 => user'[q] \in tokens'[q]
    BY <1>1, <1>2, <1>4, <2>1 DEF OwnInv, SessionsOK, JobsAuthentic, OwnEventsOnly
  <2>5. ASSUME NEW kind \in Kinds, NEW w \in Users, NEW x \in units'[kind][w]
        PROVE  conn'[x[1]] # 0 /\ user'[x[1]] = w
    <3>1. x \in units[kind][w] /\ (w = user[p] /\ w # u => x[1] # p)
      BY <2>1, <2>5 DEF Without
    <3>2. conn[x[1]] # 0 /\ user[x[1]] = w /\ x[1] \in Slots
      BY <3>1 DEF OwnInv, OwnEventsOnly, SessionsOK
    <3> QED
      BY <1>1, <2>1, <3>1, <3>2 DEF OwnInv, SessionsOK
  <2> QED
    BY <2>3, <2>4, <2>5 DEF OwnInv, OwnEventsOnly
<1> QED
  BY <1>1, <1>3, <1>4 DEF OnResult, OnResultError, session

\* A request about the items of a kind
Subscribing(p, kind) ==
    \/ \E I \in SUBSET Items(kind) :
          OnMethodSubscribe(p, kind, I) \/ OnMethodSubscribeInvalid(p, kind, I)
    \/ OnMethodUnsubscribe(p, kind)

\* Only the user's list of the kind changes, and only in the units of p.
Relists(p, kind, I) ==
    /\ user[p] \in Users
    /\ units' \in [Kinds -> [Users -> SUBSET (Slots \X (Assets \cup Markets))]]
    /\ units'[kind][user[p]] = Without(kind, user[p], {p}) \cup ({p} \X I)
    /\ \A k \in Kinds, v \in Users : k # kind \/ v # user[p] => units'[k][v] = units[k][v]

\* The lists after a session has put its units of a kind anew
LEMMA Relisted ==
    ASSUME OwnInv, NEW p \in Slots, NEW kind \in Kinds, NEW I \in SUBSET Items(kind), user[p] # 0,
           Subscribe(p, kind, I)
    PROVE  Relists(p, kind, I)
<1>1. PICK u \in Users : u = user[p]
  BY DEF OwnInv, SessionsOK
<1>2. units \in [Kinds -> [Users -> SUBSET (Slots \X (Assets \cup Markets))]]
  BY DEF OwnInv, SessionsOK
<1>3. PICK W : W = Without(kind, u, {p}) \cup ({p} \X I)
  OBVIOUS
<1>4. W \in SUBSET (Slots \X (Assets \cup Markets))
  <2>1. \A x \in Without(kind, u, {p}) \cup ({p} \X I) : x \in Slots \X (Assets \cup Markets)
    BY <1>2 DEF Without, Items
  <2> QED
    BY <1>3, <2>1
<1>5. units' = [units EXCEPT ![kind][u] = W]
  BY <1>1, <1>3 DEF Subscribe
<1>6. units' \in [Kinds -> [Users -> SUBSET (Slots \X (Assets \cup Markets))]]
  BY <1>2, <1>4, <1>5
<1>7. \A k \in Kinds, v \in Users :
         units'[k][v] = IF k = kind /\ v = u THEN W ELSE units[k][v]
  BY <1>2, <1>5
<1>8. /\ units'[kind][u] = W
      /\ \A k \in Kinds, v \in Users : k # kind \/ v # u => units'[k][v] = units[k][v]
  BY <1>7
<1> QED
  BY <1>1, <1>3, <1>6, <1>8 DEF Relists

\* The list after a subscription, a wrong one and an unsubscription
LEMMA SubscriptionOwn ==
    ASSUME OwnInv, NEW p \in Slots, NEW kind \in Kinds,
           Subscribing(p, kind)
    PROVE  OwnInv'
<1>1. PICK I \in SUBSET Items(kind) : Subscribe(p, kind, I)
  <2>1. CASE OnMethodUnsubscribe(p, kind)
    <3>1. {p} \X {} = {}
      OBVIOUS
    <3>2. Without(kind, user[p], {p}) \cup ({p} \X {}) = Without(kind, user[p], {p})
      BY <3>1
    <3> QED
      BY <2>1, <3>2 DEF OnMethodUnsubscribe, Subscribe
  <2>2. CASE \E I \in SUBSET Items(kind) :
                 OnMethodSubscribe(p, kind, I) \/ OnMethodSubscribeInvalid(p, kind, I)
    BY <2>2 DEF OnMethodSubscribe, OnMethodSubscribeInvalid
  <2> QED
    BY <2>1, <2>2 DEF Subscribing
<1>2. conn[p] # 0 /\ user[p] # 0 /\ UNCHANGED <<conn, conns, user, jobs, tokens>>
  BY DEF Subscribing, OnMethodSubscribe, OnMethodSubscribeInvalid, OnMethodUnsubscribe, session
<1>3. /\ user[p] \in Users
      /\ units' \in [Kinds -> [Users -> SUBSET (Slots \X (Assets \cup Markets))]]
      /\ units'[kind][user[p]] = Without(kind, user[p], {p}) \cup ({p} \X I)
      /\ \A k \in Kinds, v \in Users :
            k # kind \/ v # user[p] => units'[k][v] = units[k][v]
  <2>1. I \in SUBSET Items(kind) /\ user[p] # 0 /\ Subscribe(p, kind, I)
    BY <1>1, <1>2
  <2>2. Relists(p, kind, I)
    BY <2>1, Relisted
  <2> QED
    BY <2>2 DEF Relists
<1>4. \A k \in Kinds, v \in Users : \A x \in units'[k][v] :
          x \in units[k][v] \/ (v = user[p] /\ x[1] = p)
  BY <1>3 DEF Without
<1> QED
  BY <1>2, <1>3, <1>4, ListOwn

\* Every step keeps the sessions, the tokens and the lists in order.
LEMMA OwnStep == OwnInv /\ [Next]_vars => OwnInv'
<1> SUFFICES ASSUME OwnInv, [Next]_vars PROVE OwnInv'
  OBVIOUS
<1>1. CASE UNCHANGED <<conn, conns, user, tokens, jobs, units>>
  BY <1>1 DEF OwnInv, SessionsOK, JobsAuthentic, OwnEventsOnly
<1>2. CASE \E F \in SUBSET Slots : Closed(F) /\ UNCHANGED jobs
  BY <1>2, ClosedOwn
<1>3. CASE Client
  <2>1. PICK p \in Slots :
           \/ Accept(p) \/ Close(p)
           \/ \E u \in Users : SendAuthRequest(p, u)
           \/ \E kind \in Kinds :
                 \/ \E I \in SUBSET Items(kind) :
                       OnMethodSubscribe(p, kind, I) \/ OnMethodSubscribeInvalid(p, kind, I)
                 \/ OnMethodUnsubscribe(p, kind)
    BY <1>3 DEF Client
  <2>2. CASE Accept(p)
    BY <2>2, AcceptOwn
  <2>3. CASE Close(p)
    BY <1>2, <2>3 DEF Close
  <2>4. CASE \E u \in Users : SendAuthRequest(p, u)
    BY <2>4, SendAuthOwn
  <2>5. CASE \E kind \in Kinds :
                \/ \E I \in SUBSET Items(kind) :
                      OnMethodSubscribe(p, kind, I) \/ OnMethodSubscribeInvalid(p, kind, I)
                \/ OnMethodUnsubscribe(p, kind)
    BY <2>5, SubscriptionOwn DEF Subscribing
  <2> QED
    BY <2>1, <2>2, <2>3, <2>4, <2>5
<1>4. CASE Authority
  BY <1>4, OnResultOwn DEF Authority
<1>5. CASE Matchengine
  BY <1>1, <1>5 DEF Matchengine, BalanceChange, OrderEvent, session, ghosts
<1>6. CASE Pushes
  <2>1. CASE OnBalancesMessage \/ EngineAnswers \/ OnTimeout
    BY <1>1, <2>1 DEF OnBalancesMessage, EngineAnswers, OnTimeout, session, ghosts
  <2>2. CASE \E F \in SUBSET Slots : OnOrdersMessage(F) \/ OnBalanceQueryReply(F)
    BY <1>2, <2>2 DEF OnOrdersMessage, OnBalanceQueryReply, Notify
  <2> QED
    BY <1>6, <2>1, <2>2 DEF Pushes
<1>7. CASE UNCHANGED vars
  BY <1>1, <1>7 DEF vars, session, ghosts
<1> QED
  BY <1>3, <1>4, <1>5, <1>6, <1>7 DEF Next

\* Nobody is connected or listed at first.
LEMMA InitOwn == Init => OwnInv
BY UsersAssumption DEF Init, OwnInv, SessionsOK, JobsAuthentic, OwnEventsOnly

\* Every user's balances and orders go only to open connections that have
\* sent a token of this user, whatever answers about tokens come late and
\* whatever address is used again.
THEOREM UsersAreKeptApart == Spec => []OwnEventsOnly
<1>1. OwnInv => OwnEventsOnly
  BY DEF OwnInv
<1> QED
  BY <1>1, InitOwn, OwnStep, PTL DEF Spec

-----------------------------------------------------------------------------
(* The numbers of the events *)

\* The indices of a sequence that lost its head are those it had, less one.
LEMMA ShiftedIndices ==
    ASSUME NEW S \in SUBSET (Nat \ {0}), IsFiniteSet(S)
    PROVE  /\ IsFiniteSet({i - 1 : i \in S})
           /\ Cardinality({i - 1 : i \in S}) = Cardinality(S)
<1> DEFINE T == {i - 1 : i \in S}
           f == [i \in S |-> i - 1]
<1>1. f \in Bijection(S, T)
  <2>1. f \in [S -> T] /\ \A t \in T : \E i \in S : f[i] = t
    OBVIOUS
  <2>2. \A i, j \in S : f[i] = f[j] => i = j
    OBVIOUS
  <2> QED
    BY <2>1, <2>2 DEF Bijection, Injection, Surjection, IsInjective
<1>2. ExistsBijection(S, T)
  BY <1>1 DEF ExistsBijection
<1> QED
  BY <1>2, FS_Bijection

\* The indices of a sequence are finitely many.
LEMMA IndicesFinite ==
    ASSUME NEW E, NEW Q \in Seq(E), NEW S \in SUBSET (DOMAIN Q)
    PROVE  IsFiniteSet(S) /\ Cardinality(S) \in Nat /\ S \subseteq Nat \ {0}
<1>1. DOMAIN Q = 1..Len(Q) /\ Len(Q) \in Nat
  OBVIOUS
<1>2. IsFiniteSet(1..Len(Q))
  BY <1>1, FS_Interval
<1>3. IsFiniteSet(S)
  BY <1>1, <1>2, FS_Subset
<1> QED
  BY <1>1, <1>3, FS_CardinalityType

\* A new event stands behind all that there are.
LEMMA EntryAppended ==
    ASSUME NEW E, NEW Q \in Seq(E), NEW e \in E
    PROVE  /\ \A u, m : Cardinality(Entries(Append(Q, e), u, m)) = Cardinality(Entries(Q, u, m))
                            + IF e.user = u /\ e.market = m THEN 1 ELSE 0
           /\ \A i \in DOMAIN Q : Cardinality(Later(Append(Q, e), i)) = Cardinality(Later(Q, i))
                                       + IF Alike(e, Q[i]) THEN 1 ELSE 0
           /\ Cardinality(Later(Append(Q, e), Len(Q) + 1)) = 0
<1> DEFINE R == Append(Q, e)
           n == Len(Q) + 1
<1>1. /\ DOMAIN Q = 1..Len(Q) /\ Len(Q) \in Nat /\ DOMAIN R = 1..n /\ R[n] = e
      /\ \A i \in DOMAIN Q : R[i] = Q[i]
  OBVIOUS
<1>2. ASSUME NEW S \in SUBSET (DOMAIN Q)
      PROVE  Cardinality(S \cup {n}) = Cardinality(S) + 1 /\ Cardinality(S) \in Nat
  <2>1. IsFiniteSet(S) /\ Cardinality(S) \in Nat
    BY IndicesFinite
  <2>2. n \notin S
    BY <1>1
  <2> QED
    BY <2>1, <2>2, FS_AddElement
<1> HIDE DEF R, n
<1>3. ASSUME NEW u, NEW m
      PROVE  Cardinality(Entries(R, u, m)) = Cardinality(Entries(Q, u, m))
                 + IF e.user = u /\ e.market = m THEN 1 ELSE 0
  <2>1. Entries(Q, u, m) \in SUBSET (DOMAIN Q)
    BY DEF Entries
  <2>2. Entries(R, u, m) = IF e.user = u /\ e.market = m
                           THEN Entries(Q, u, m) \cup {n} ELSE Entries(Q, u, m)
    BY <1>1 DEF Entries, n
  <2>3. /\ Cardinality(Entries(Q, u, m) \cup {n}) = Cardinality(Entries(Q, u, m)) + 1
        /\ Cardinality(Entries(Q, u, m)) \in Nat
    BY <1>2, <2>1
  <2> QED
    BY <2>2, <2>3
<1>4. ASSUME NEW i \in DOMAIN Q
      PROVE  Cardinality(Later(R, i)) = Cardinality(Later(Q, i)) + IF Alike(e, Q[i]) THEN 1 ELSE 0
  <2>1. Later(Q, i) \in SUBSET (DOMAIN Q)
    BY DEF Later
  <2>2. Later(R, i) = IF Alike(e, Q[i]) THEN Later(Q, i) \cup {n} ELSE Later(Q, i)
    BY <1>1 DEF Later, n
  <2>3. /\ Cardinality(Later(Q, i) \cup {n}) = Cardinality(Later(Q, i)) + 1
        /\ Cardinality(Later(Q, i)) \in Nat
    BY <1>2, <2>1
  <2> QED
    BY <2>2, <2>3
<1>5. Later(R, n) = {}
  BY <1>1 DEF Later, n
<1>6. Cardinality(Later(R, n)) = 0
  BY <1>5, FS_EmptySet
<1> QED
  BY <1>3, <1>4, <1>6 DEF R, n

\* The first event is taken, and each other one moves up.
LEMMA EntryConsumed ==
    ASSUME NEW E, NEW Q \in Seq(E), Q # <<>>
    PROVE  /\ \A u, m : Cardinality(Entries(Q, u, m)) = Cardinality(Entries(Tail(Q), u, m))
                            + IF Q[1].user = u /\ Q[1].market = m THEN 1 ELSE 0
           /\ \A u, m : Cardinality(Entries(Tail(Q), u, m)) \in Nat
           /\ \A i \in DOMAIN Tail(Q) : /\ Tail(Q)[i] = Q[i + 1] /\ i + 1 \in DOMAIN Q
                                        /\ Cardinality(Later(Tail(Q), i)) = Cardinality(Later(Q, i + 1))
           /\ Cardinality(Later(Q, 1)) = Cardinality(Entries(Tail(Q), Q[1].user, Q[1].market))
<1> DEFINE R == Tail(Q)
<1>1. /\ DOMAIN Q = 1..Len(Q) /\ Len(Q) \in Nat \ {0} /\ DOMAIN R = 1..(Len(Q) - 1)
      /\ \A i \in DOMAIN R : R[i] = Q[i + 1] /\ i + 1 \in DOMAIN Q
  OBVIOUS
<1> HIDE DEF R
<1>2. ASSUME NEW S \in SUBSET (DOMAIN Q)
      PROVE  /\ IsFiniteSet({i - 1 : i \in S}) /\ Cardinality({i - 1 : i \in S}) = Cardinality(S)
             /\ Cardinality(S) \in Nat /\ (1 \notin S => Cardinality(S \cup {1}) = Cardinality(S) + 1)
  <2>1. IsFiniteSet(S) /\ Cardinality(S) \in Nat /\ S \subseteq Nat \ {0}
    BY IndicesFinite
  <2> QED
    BY <2>1, ShiftedIndices, FS_AddElement
<1>3. ASSUME NEW u, NEW m
      PROVE  /\ Cardinality(Entries(R, u, m)) =
                    Cardinality({i \in DOMAIN Q : i > 1 /\ Q[i].user = u /\ Q[i].market = m})
             /\ Cardinality(Entries(R, u, m)) \in Nat
             /\ Cardinality(Entries(Q, u, m)) = Cardinality(Entries(R, u, m))
                    + IF Q[1].user = u /\ Q[1].market = m THEN 1 ELSE 0
  <2> DEFINE S == {i \in DOMAIN Q : i > 1 /\ Q[i].user = u /\ Q[i].market = m}
  <2>1. S \in SUBSET (DOMAIN Q) /\ 1 \notin S
    OBVIOUS
  <2>2. Entries(R, u, m) = {i - 1 : i \in S}
    <3>1. ASSUME NEW j \in Entries(R, u, m) PROVE j \in {i - 1 : i \in S}
      <4>1. j + 1 \in S /\ j = (j + 1) - 1
        BY <1>1 DEF Entries
      <4> QED
        BY <4>1
    <3>2. ASSUME NEW i \in S PROVE i - 1 \in Entries(R, u, m)
      BY <1>1 DEF Entries
    <3> QED
      BY <3>1, <3>2
  <2>3. Entries(Q, u, m) = IF Q[1].user = u /\ Q[1].market = m THEN S \cup {1} ELSE S
    BY <1>1 DEF Entries
  <2> HIDE DEF S
  <2>4. /\ Cardinality({i - 1 : i \in S}) = Cardinality(S) /\ Cardinality(S) \in Nat
        /\ Cardinality(S \cup {1}) = Cardinality(S) + 1
    BY <1>2, <2>1
  <2>5. /\ Cardinality(Entries(R, u, m)) = Cardinality(S)
        /\ Cardinality(Entries(R, u, m)) \in Nat
        /\ Cardinality(Entries(Q, u, m)) =
              Cardinality(Entries(R, u, m)) + IF Q[1].user = u /\ Q[1].market = m THEN 1 ELSE 0
    BY <2>2, <2>3, <2>4
  <2> QED
    BY <2>5 DEF S
<1>4. ASSUME NEW i \in DOMAIN R
      PROVE  Cardinality(Later(R, i)) = Cardinality(Later(Q, i + 1))
  <2>1. Later(Q, i + 1) \in SUBSET (DOMAIN Q)
    BY DEF Later
  <2>2. Later(R, i) = {k - 1 : k \in Later(Q, i + 1)}
    <3>1. ASSUME NEW j \in Later(R, i) PROVE j \in {k - 1 : k \in Later(Q, i + 1)}
      <4>1. j + 1 \in Later(Q, i + 1) /\ j = (j + 1) - 1
        BY <1>1 DEF Later
      <4> QED
        BY <4>1
    <3>2. ASSUME NEW k \in Later(Q, i + 1) PROVE k - 1 \in Later(R, i)
      BY <1>1 DEF Later
    <3> QED
      BY <3>1, <3>2
  <2> QED
    BY <1>2, <2>1, <2>2
<1>5. Cardinality(Later(Q, 1)) = Cardinality(Entries(R, Q[1].user, Q[1].market))
  <2> DEFINE S == {i \in DOMAIN Q : i > 1 /\ Q[i].user = Q[1].user /\ Q[i].market = Q[1].market}
  <2>1. Later(Q, 1) = S
    BY DEF Later, Alike
  <2>2. Cardinality(Entries(R, Q[1].user, Q[1].market)) = Cardinality(S)
    BY <1>3
  <2> QED
    BY <2>1, <2>2
<1>6. \A u, m : Cardinality(Entries(R, u, m)) \in Nat
  BY <1>3
<1>7. \A u, m : Cardinality(Entries(Q, u, m)) = Cardinality(Entries(R, u, m))
                   + IF Q[1].user = u /\ Q[1].market = m THEN 1 ELSE 0
  BY <1>3
<1> QED
  BY <1>1, <1>4, <1>5, <1>6, <1>7 DEF R

-----------------------------------------------------------------------------
(* Who is told of what *)

\* The parts of EventInv that are about what clients are told
ToldPart == told = [p \in Slots |-> told[p]] /\ ToldListening /\ EventsNumbered /\ NoEventMissed

\* What a client has been told is kept, or is the latest there is.
ToldFresh ==
    \A p \in Slots : \A x \in DOMAIN told'[p] :
        \/ x \in DOMAIN told[p] /\ told'[p][x] = told[p][x] /\ user'[p] = user[p]
        \/ /\ x[1] = "order" => told'[p][x] = events[<<user'[p], x[2]>>] - Coming(user'[p], x[2])
           /\ x[1] = "asset" => told'[p][x] = balance[<<user'[p], x[2]>>]

\* The numbers the clients have stay right when they are kept, or are those of
\* the topic, while no event comes or goes.
LEMMA NumbersKept ==
    ASSUME EventInv, UNCHANGED <<events, orders>>,
           \A p \in Slots : \A x \in DOMAIN told'[p] :
               \/ x \in DOMAIN told[p] /\ told'[p][x] = told[p][x] /\ user'[p] = user[p]
               \/ x[1] = "order" => told'[p][x] = events[<<user'[p], x[2]>>] - Coming(user'[p], x[2])
    PROVE  EventsNumbered' /\ NoEventMissed'
<1>1. EventsNumbered'
  BY DEF EventInv, EventsNumbered
<1>2. ASSUME NEW p \in Slots, NEW m \in Markets, <<"order", m>> \in DOMAIN told'[p]
      PROVE  told'[p][<<"order", m>>] = events'[<<user'[p], m>>] - Coming(user[p], m)'
  <2>1. Coming(user[p], m)' = Coming(user'[p], m)
    BY DEF Coming
  <2>2. CASE /\ <<"order", m>> \in DOMAIN told[p] /\ user'[p] = user[p]
             /\ told'[p][<<"order", m>>] = told[p][<<"order", m>>]
    BY <2>1, <2>2 DEF EventInv, NoEventMissed
  <2>3. CASE told'[p][<<"order", m>>] = events[<<user'[p], m>>] - Coming(user'[p], m)
    BY <2>1, <2>3
  <2> QED
    BY <1>2, <2>2, <2>3
<1> QED
  BY <1>1, <1>2 DEF NoEventMissed

\* on_close of the sessions F, that are told nothing any more
LEMMA ClosedTold ==
    ASSUME EventInv, NEW F \in SUBSET Slots, Closed(F),
           \A p \in F : DOMAIN told'[p] = {},
           \A p \in Slots \ F : DOMAIN told'[p] = DOMAIN told[p]
    PROVE  ToldListening'
<1> SUFFICES ASSUME NEW p \in Slots, NEW x \in DOMAIN told'[p]
             PROVE  /\ conn'[p] # 0 /\ user'[p] \in Users
                    /\ x = <<x[1], x[2]>> /\ x[1] \in Kinds /\ x[2] \in Items(x[1])
                    /\ <<p, x[2]>> \in units'[x[1]][user'[p]]
  BY DEF ToldListening
<1>1. p \notin F /\ x \in DOMAIN told[p]
  OBVIOUS
<1>2. /\ conn[p] # 0 /\ user[p] \in Users
      /\ x = <<x[1], x[2]>> /\ x[1] \in Kinds /\ x[2] \in Items(x[1])
      /\ <<p, x[2]>> \in units[x[1]][user[p]]
  BY <1>1 DEF EventInv, ToldListening
<1>3. conn'[p] = conn[p] /\ user' = user
  BY <1>1 DEF Closed
<1>4. units'[x[1]][user[p]] = Without(x[1], user[p], {q \in F : user[q] = user[p]})
  BY <1>2 DEF Closed
<1>5. <<p, x[2]>> \in Without(x[1], user[p], {q \in F : user[q] = user[p]})
  BY <1>1, <1>2 DEF Without
<1> QED
  BY <1>2, <1>3, <1>4, <1>5

\* What a client is told of after a subscription, a wrong one and an unsubscription
LEMMA SubscriptionTold ==
    ASSUME EventInv, NEW p \in Slots, NEW kind \in Kinds,
           Subscribing(p, kind)
    PROVE  \E I \in SUBSET Items(kind) :
              /\ Subscribe(p, kind, I)
              /\ told' = [q \in Slots |-> told'[q]]
              /\ \A q \in Slots : q # p => told'[q] = told[q]
              /\ \A x \in DOMAIN told'[p] :
                    \/ x \in {kind} \X I /\ told'[p][x] = Current(user[p], {kind} \X I)[x]
                    \/ x \in DOMAIN told[p] /\ x[1] # kind /\ told'[p][x] = told[p][x]
<1>1. told = [q \in Slots |-> told[q]]
  BY DEF EventInv
<1>2. ASSUME NEW f, told' = [told EXCEPT ![p] = f]
      PROVE  /\ told' = [q \in Slots |-> told'[q]] /\ told'[p] = f
             /\ \A q \in Slots : q # p => told'[q] = told[q]
  BY <1>1, <1>2
<1>3. ASSUME NEW I \in SUBSET Items(kind), OnMethodSubscribe(p, kind, I)
      PROVE  /\ Subscribe(p, kind, I)
             /\ told' = [told EXCEPT ![p] = Renewed(told[p], kind, Current(user[p], {kind} \X I))]
  BY <1>3 DEF OnMethodSubscribe
<1>4. \A I : \A x \in DOMAIN Renewed(told[p], kind, Current(user[p], {kind} \X I)) :
         \/ /\ x \in {kind} \X I
            /\ Renewed(told[p], kind, Current(user[p], {kind} \X I))[x] = Current(user[p], {kind} \X I)[x]
         \/ /\ x \in DOMAIN told[p] /\ x[1] # kind
            /\ Renewed(told[p], kind, Current(user[p], {kind} \X I))[x] = told[p][x]
  <2> SUFFICES ASSUME NEW I, NEW x \in DOMAIN Renewed(told[p], kind, Current(user[p], {kind} \X I))
               PROVE
         \/ /\ x \in {kind} \X I
            /\ Renewed(told[p], kind, Current(user[p], {kind} \X I))[x] = Current(user[p], {kind} \X I)[x]
         \/ /\ x \in DOMAIN told[p] /\ x[1] # kind
            /\ Renewed(told[p], kind, Current(user[p], {kind} \X I))[x] = told[p][x]
    OBVIOUS
  <2> DEFINE S == {kind} \X I
             g == Current(user[p], S)
  <2>1. DOMAIN g = S
    BY DEF Current
  <2> HIDE DEF g, S
  <2>2. x \in DOMAIN Renewed(told[p], kind, g)
    BY DEF g, S
  <2>3. \/ x \in DOMAIN g /\ Renewed(told[p], kind, g)[x] = g[x]
        \/ x \in DOMAIN told[p] /\ x[1] # kind /\ Renewed(told[p], kind, g)[x] = told[p][x]
    BY <2>2 DEF Renewed, Others, Restrict
  <2> QED
    BY <2>1, <2>3 DEF g, S
<1>5. \A x \in DOMAIN Others(told[p], kind) :
         x \in DOMAIN told[p] /\ x[1] # kind /\ Others(told[p], kind)[x] = told[p][x]
  BY DEF Others, Restrict
<1>6. CASE \E I \in SUBSET Items(kind) : OnMethodSubscribe(p, kind, I)
  <2>1. PICK I \in SUBSET Items(kind) : OnMethodSubscribe(p, kind, I)
    BY <1>6
  <2>2. told'[p] = Renewed(told[p], kind, Current(user[p], {kind} \X I))
    BY <1>2, <1>3, <2>1
  <2>3. \A x \in DOMAIN told'[p] :
           \/ x \in {kind} \X I /\ told'[p][x] = Current(user[p], {kind} \X I)[x]
           \/ x \in DOMAIN told[p] /\ x[1] # kind /\ told'[p][x] = told[p][x]
    BY <1>4, <2>2
  <2> QED
    BY <1>2, <1>3, <2>1, <2>3
<1>7. CASE \E I \in SUBSET Items(kind) : OnMethodSubscribeInvalid(p, kind, I)
  <2>1. PICK I \in SUBSET Items(kind) :
           Subscribe(p, kind, I) /\ told' = [told EXCEPT ![p] = Others(told[p], kind)]
    BY <1>7 DEF OnMethodSubscribeInvalid
  <2> QED
    BY <1>2, <1>5, <2>1
<1>8. CASE OnMethodUnsubscribe(p, kind)
  <2>1. Without(kind, user[p], {p}) \cup ({p} \X {}) = Without(kind, user[p], {p})
    OBVIOUS
  <2>2. Subscribe(p, kind, {}) /\ told' = [told EXCEPT ![p] = Others(told[p], kind)]
    BY <1>8, <2>1 DEF OnMethodUnsubscribe, Subscribe
  <2> QED
    BY <1>2, <1>5, <2>2
<1> QED
  BY <1>6, <1>7, <1>8 DEF Subscribing

\* A session that subscribes is told of what it is listed for.
LEMMA SubscriptionEvents ==
    ASSUME EventInv, NEW p \in Slots, NEW kind \in Kinds,
           Subscribing(p, kind)
    PROVE  ToldPart' /\ ToldFresh
<1>1. /\ conn[p] # 0 /\ user[p] # 0
      /\ UNCHANGED <<conn, conns, user, jobs, tokens, events, orders>>
  BY DEF Subscribing, OnMethodSubscribe, OnMethodSubscribeInvalid, OnMethodUnsubscribe, session, engine, topics
<1>2. PICK I \in SUBSET Items(kind) :
         /\ Subscribe(p, kind, I)
         /\ told' = [q \in Slots |-> told'[q]]
         /\ \A q \in Slots : q # p => told'[q] = told[q]
         /\ \A x \in DOMAIN told'[p] :
               \/ x \in {kind} \X I /\ told'[p][x] = Current(user[p], {kind} \X I)[x]
               \/ x \in DOMAIN told[p] /\ x[1] # kind /\ told'[p][x] = told[p][x]
  BY SubscriptionTold
<1>3. /\ user[p] \in Users
      /\ units'[kind][user[p]] = Without(kind, user[p], {p}) \cup ({p} \X I)
      /\ \A k \in Kinds, v \in Users :
            k # kind \/ v # user[p] => units'[k][v] = units[k][v]
  <2>1. OwnInv /\ I \in SUBSET Items(kind) /\ user[p] # 0 /\ Subscribe(p, kind, I)
    BY <1>1, <1>2 DEF EventInv
  <2>2. Relists(p, kind, I)
    BY <2>1, Relisted
  <2> QED
    BY <2>2 DEF Relists
<1>4. ToldListening'
  <2> SUFFICES ASSUME NEW q \in Slots, NEW x \in DOMAIN told'[q]
               PROVE  /\ conn[q] # 0 /\ user[q] \in Users
                      /\ x = <<x[1], x[2]>> /\ x[1] \in Kinds /\ x[2] \in Items(x[1])
                      /\ <<q, x[2]>> \in units'[x[1]][user[q]]
    BY <1>1 DEF ToldListening
  <2>1. CASE q = p /\ x \in {kind} \X I
    <3>1. x = <<x[1], x[2]>> /\ x[1] = kind /\ x[2] \in I
      BY <2>1
    <3> QED
      BY <1>1, <1>3, <2>1, <3>1
  <2>2. CASE x \in DOMAIN told[q] /\ (q = p => x[1] # kind)
    <3>1. /\ conn[q] # 0 /\ user[q] \in Users
          /\ x = <<x[1], x[2]>> /\ x[1] \in Kinds /\ x[2] \in Items(x[1])
          /\ <<q, x[2]>> \in units[x[1]][user[q]]
      BY <2>2 DEF EventInv, ToldListening
    <3>2. CASE x[1] # kind \/ user[q] # user[p]
      BY <1>3, <3>1, <3>2
    <3>3. CASE x[1] = kind /\ user[q] = user[p]
      <4>1. q # p
        BY <2>2, <3>3
      <4>2. <<q, x[2]>> \in Without(kind, user[p], {p})
        BY <3>1, <3>3, <4>1 DEF Without
      <4> QED
        BY <1>3, <3>1, <3>3, <4>2
    <3> QED
      BY <3>2, <3>3
  <2> QED
    BY <1>2, <2>1, <2>2
<1>5. ToldFresh
  BY <1>1, <1>2 DEF Current, ToldFresh
<1>6. EventsNumbered' /\ NoEventMissed'
  BY <1>1, <1>5, NumbersKept DEF ToldFresh
<1> QED
  BY <1>2, <1>4, <1>5, <1>6 DEF ToldPart

-----------------------------------------------------------------------------
(* The types of what is kept *)

\* No step puts an asset into a list of markets.
LEMMA ListsByKindStep == OwnInv /\ ListsByKind /\ [Next]_vars => ListsByKind'
<1> SUFFICES ASSUME OwnInv, ListsByKind, [Next]_vars PROVE ListsByKind'
  OBVIOUS
<1>1. CASE \A kind \in Kinds, u \in Users : units'[kind][u] \subseteq units[kind][u]
  BY <1>1 DEF ListsByKind
<1>2. CASE \E p \in Slots, kind \in Kinds : Subscribing(p, kind)
  <2>1. PICK p \in Slots, kind \in Kinds : Subscribing(p, kind)
    BY <1>2
  <2>2. PICK I \in SUBSET Items(kind) : Subscribe(p, kind, I)
    <3>1. CASE OnMethodUnsubscribe(p, kind)
      <4>1. Without(kind, user[p], {p}) \cup ({p} \X {}) = Without(kind, user[p], {p})
        OBVIOUS
      <4>2. Subscribe(p, kind, {})
        BY <3>1, <4>1 DEF OnMethodUnsubscribe, Subscribe
      <4> QED
        BY <4>2
    <3> QED
      BY <2>1, <3>1 DEF Subscribing, OnMethodSubscribe, OnMethodSubscribeInvalid
  <2>3. user[p] # 0
    BY <2>1 DEF Subscribing, OnMethodSubscribe, OnMethodSubscribeInvalid, OnMethodUnsubscribe
  <2>4. Relists(p, kind, I)
    BY <2>2, <2>3, Relisted
  <2> QED
    BY <2>4 DEF Relists, ListsByKind, Without
<1>3. CASE \E F \in SUBSET Slots : Closed(F)
  BY <1>1, <1>3 DEF Closed, Without
<1>4. CASE Authority
  <2>1. PICK j \in jobs : OnResult(j) \/ OnResultError(j)
    BY <1>4 DEF Authority
  <2>2. CASE UNCHANGED units
    BY <1>1, <2>2
  <2>3. CASE BecomesUserOf(j.ses, j.user_id)
    BY <1>1, <2>3 DEF BecomesUserOf, Without
  <2> QED
    BY <2>1, <2>2, <2>3 DEF OnResult, OnResultError
<1>5. CASE UNCHANGED units
  BY <1>1, <1>5
<1>6. CASE Client
  BY <1>2, <1>3, <1>5, <1>6 DEF Client, Subscribing, Accept, Close, SendAuthRequest
<1>7. CASE Matchengine \/ UNCHANGED vars
  BY <1>5, <1>7 DEF Matchengine, BalanceChange, OrderEvent, vars
<1>8. CASE Pushes
  BY <1>3, <1>5, <1>8 DEF Pushes, OnBalancesMessage, EngineAnswers, OnTimeout,
                          OnOrdersMessage, OnBalanceQueryReply, Notify
<1> QED
  BY <1>4, <1>6, <1>7, <1>8 DEF Next

\* A query is for an asset that somebody is subscribed to.
LEMMA AssetOnUpdateOK ==
    ASSUME ListsByKind, NEW Q \in Seq([user : Users, asset : Assets, value : Nat \cup {Unanswered}]),
           NEW u \in Users, NEW a
    PROVE  AssetOnUpdate(Q, u, a) \in Seq([user : Users, asset : Assets, value : Nat \cup {Unanswered}])
<1>1. CASE Listeners("asset", u, a) = {}
  BY <1>1 DEF AssetOnUpdate
<1>2. CASE Listeners("asset", u, a) # {}
  <2>1. a \in Assets
    BY <1>2 DEF Listeners, ListsByKind, Kinds, Items
  <2>2. [user |-> u, asset |-> a, value |-> Unanswered] \in
           [user : Users, asset : Assets, value : Nat \cup {Unanswered}]
    BY <2>1
  <2> QED
    BY <1>2, <2>2 DEF AssetOnUpdate
<1> QED
  BY <1>1, <1>2

\* What is left of a topic of which the head is taken
LEMMA TailOK ==
    ASSUME NEW E, NEW Q \in Seq(E), Q # <<>>
    PROVE  Tail(Q) \in Seq(E) /\ Head(Q) \in E /\ Head(Q) = Q[1] /\ 1 \in DOMAIN Q
OBVIOUS

\* Messages are taken from the head of their topic.
LEMMA MessagesTaken ==
    ASSUME Pushes
    PROVE  /\ UNCHANGED <<balance, events>>
           /\ (balances' = balances \/ (balances # <<>> /\ balances' = Tail(balances)))
           /\ (orders' = orders \/ (orders # <<>> /\ orders' = Tail(orders)))
<1>1. CASE OnBalancesMessage
  BY <1>1 DEF OnBalancesMessage, engine
<1>2. CASE EngineAnswers \/ OnTimeout
  BY <1>2 DEF EngineAnswers, OnTimeout, engine, topics
<1>3. ASSUME NEW F \in SUBSET Slots, OnOrdersMessage(F) \/ OnBalanceQueryReply(F)
      PROVE  /\ UNCHANGED <<balance, events>>
             /\ (balances' = balances \/ (balances # <<>> /\ balances' = Tail(balances)))
             /\ (orders' = orders \/ (orders # <<>> /\ orders' = Tail(orders)))
  BY <1>3 DEF OnOrdersMessage, OnBalanceQueryReply, engine, topics
<1> QED
  BY <1>1, <1>2, <1>3 DEF Pushes

\* The types of the counters and of the messages
LEMMA EngineStep == ListsByKind /\ EngineOK /\ [Next]_vars => EngineOK'
<1> SUFFICES ASSUME ListsByKind, EngineOK, [Next]_vars PROVE EngineOK'
  OBVIOUS
<1>1. CASE UNCHANGED <<balance, events, balances, orders, queries>>
  BY <1>1 DEF EngineOK
<1>2. ASSUME NEW u \in Users, NEW a \in Assets, BalanceChange(u, a) PROVE EngineOK'
  <2>1. /\ balance' = [balance EXCEPT ![<<u, a>>] = @ + 1] /\ balances' = Append(balances, <<u, a>>)
        /\ UNCHANGED <<events, orders, queries>>
    BY <1>2 DEF BalanceChange
  <2>2. balance' \in [Users \X Assets -> Nat]
    BY <2>1 DEF EngineOK
  <2>3. balances' \in Seq(Users \X Assets)
    BY <2>1 DEF EngineOK
  <2> QED
    BY <2>1, <2>2, <2>3 DEF EngineOK
<1>3. ASSUME NEW u \in Users, NEW m \in Markets, NEW C, OrderEvent(u, m, C) PROVE EngineOK'
  <2>1. /\ balance' = [x \in DOMAIN balance |-> IF x[1] = u /\ x[2] \in C THEN balance[x] + 1 ELSE balance[x]]
        /\ events' = [events EXCEPT ![<<u, m>>] = @ + 1]
        /\ orders' = Append(orders, [user |-> u, market |-> m, n |-> events[<<u, m>>] + 1])
        /\ UNCHANGED <<balances, queries>>
    BY <1>3 DEF OrderEvent
  <2>2. balance' \in [Users \X Assets -> Nat]
    BY <2>1 DEF EngineOK
  <2>3. events' \in [Users \X Markets -> Nat]
    BY <2>1 DEF EngineOK
  <2>4. [user |-> u, market |-> m, n |-> events[<<u, m>>] + 1] \in [user : Users, market : Markets, n : Nat]
    BY DEF EngineOK
  <2>5. orders' \in Seq([user : Users, market : Markets, n : Nat])
    BY <2>1, <2>4 DEF EngineOK
  <2> QED
    BY <2>1, <2>2, <2>3, <2>5 DEF EngineOK
<1>4. CASE Pushes
  <2>1. /\ UNCHANGED <<balance, events>>
        /\ (balances' = balances \/ (balances # <<>> /\ balances' = Tail(balances)))
        /\ (orders' = orders \/ (orders # <<>> /\ orders' = Tail(orders)))
    BY <1>4, MessagesTaken
  <2>2. balances' \in Seq(Users \X Assets)
    <3> DEFINE E == Users \X Assets
    <3>1. balances \in Seq(E)
      BY DEF EngineOK
    <3> HIDE DEF E
    <3>2. balances' \in Seq(E)
      BY <2>1, <3>1, TailOK
    <3> QED
      BY <3>2 DEF E
  <2>3. orders' \in Seq([user : Users, market : Markets, n : Nat])
    <3> DEFINE E == [user : Users, market : Markets, n : Nat]
    <3>1. orders \in Seq(E)
      BY DEF EngineOK
    <3> HIDE DEF E
    <3>2. orders' \in Seq(E)
      BY <2>1, <3>1, TailOK
    <3> QED
      BY <3>2 DEF E
  <2>5. queries' \in Seq([user : Users, asset : Assets, value : Nat \cup {Unanswered}])
    <3>1. CASE OnBalancesMessage
      <4>1. Head(balances) \in Users \X Assets
        BY <3>1, TailOK DEF OnBalancesMessage, EngineOK
      <4> QED
        BY <3>1, <4>1, AssetOnUpdateOK DEF OnBalancesMessage, EngineOK
    <3>2. CASE EngineAnswers
      <4>1. PICK i \in DOMAIN queries :
              queries' = [queries EXCEPT ![i].value = balance[<<queries[i].user, queries[i].asset>>]]
        BY <3>2 DEF EngineAnswers
      <4>2. /\ queries \in Seq([user : Users, asset : Assets, value : Nat \cup {Unanswered}])
            /\ balance \in [Users \X Assets -> Nat]
        BY DEF EngineOK
      <4>3. queries[i] \in [user : Users, asset : Assets, value : Nat \cup {Unanswered}]
        <5>1. i \in 1..Len(queries)
          OBVIOUS
        <5> QED
          BY <4>2, <5>1, ElementOfSeq
      <4>4. PICK v \in Nat : v = balance[<<queries[i].user, queries[i].asset>>]
        BY <4>2, <4>3
      <4>5. [queries[i] EXCEPT !.value = v] \in [user : Users, asset : Assets, value : Nat \cup {Unanswered}]
        BY <4>3
      <4>6. queries' = [queries EXCEPT ![i] = [queries[i] EXCEPT !.value = v]]
        BY <4>1, <4>4
      <4> QED
        BY <4>2, <4>5, <4>6
    <3>3. CASE OnTimeout \/ \E F \in SUBSET Slots : OnBalanceQueryReply(F)
      <4>1. queries # <<>> /\ queries' = Tail(queries)
        BY <3>3 DEF OnTimeout, OnBalanceQueryReply
      <4> QED
        BY <4>1, TailOK DEF EngineOK
    <3>4. CASE \E F \in SUBSET Slots : OnOrdersMessage(F)
      <4> DEFINE e == Head(orders)
      <4>1. e.user \in Users
        <5>1. orders # <<>>
          BY <3>4 DEF OnOrdersMessage
        <5>2. e \in [user : Users, market : Markets, n : Nat]
          BY <5>1, TailOK DEF EngineOK
        <5> QED
          BY <5>2
      <4>2. queries' = AssetOnUpdate(AssetOnUpdate(queries, e.user, Traded[e.market][1]),
                                     e.user, Traded[e.market][2])
        BY <3>4 DEF OnOrdersMessage
      <4>3. queries \in Seq([user : Users, asset : Assets, value : Nat \cup {Unanswered}])
        BY DEF EngineOK
      <4>4. AssetOnUpdate(queries, e.user, Traded[e.market][1])
               \in Seq([user : Users, asset : Assets, value : Nat \cup {Unanswered}])
        BY <4>1, <4>3, AssetOnUpdateOK
      <4> HIDE DEF e
      <4> QED
        BY <4>1, <4>2, <4>4, AssetOnUpdateOK
    <3> QED
      BY <1>4, <3>1, <3>2, <3>3, <3>4 DEF Pushes
  <2> QED
    BY <2>1, <2>2, <2>3, <2>5 DEF EngineOK
<1>5. CASE Matchengine
  BY <1>2, <1>3, <1>5, UsersAssumption DEF Matchengine
<1>6. CASE Client
  BY <1>1, <1>6 DEF Client, Accept, Close, SendAuthRequest, OnMethodSubscribe,
                    OnMethodSubscribeInvalid, OnMethodUnsubscribe, engine, topics
<1>7. CASE Authority \/ UNCHANGED vars
  BY <1>1, <1>7 DEF Authority, OnResult, OnResultError, engine, topics, vars
<1> QED
  BY <1>4, <1>5, <1>6, <1>7 DEF Next

-----------------------------------------------------------------------------
(* No event is missed *)

\* A notification closes the sessions of F and brings the others up to date.
Notified(kind, u, item, value, F) ==
    /\ Closed(F) /\ told' = [p \in Slots |-> told'[p]]
    /\ \A p \in F : DOMAIN told'[p] = {}
    /\ \A p \in Slots \ F :
          /\ DOMAIN told'[p] = DOMAIN told[p]
          /\ \A x \in DOMAIN told[p] :
                told'[p][x] = IF p \in Listeners(kind, u, item) /\ x = <<kind, item>>
                              THEN Max({told[p][x], value}) ELSE told[p][x]

\* A notification does so.
LEMMA NotifyTold ==
    ASSUME NEW kind, NEW u, NEW item, NEW value, NEW F, Notify(kind, u, item, value, F)
    PROVE  Notified(kind, u, item, value, F)
<1>1. /\ told' = [p \in Slots |->
                   IF p \in F THEN Nothing
                   ELSE IF p \in Listeners(kind, u, item) /\ <<kind, item>> \in DOMAIN told[p]
                        THEN [told[p] EXCEPT ![<<kind, item>>] = Max({told[p][<<kind, item>>], value})]
                        ELSE told[p]]
      /\ Closed(F) /\ F \subseteq Slots
  BY DEF Notify, Listeners
<1>2. told' = [p \in Slots |-> told'[p]]
  BY <1>1
<1>3. \A p \in F : DOMAIN told'[p] = {}
  BY <1>1 DEF Nothing
<1>4. ASSUME NEW p \in Slots \ F
      PROVE  /\ DOMAIN told'[p] = DOMAIN told[p]
             /\ \A x \in DOMAIN told[p] :
                   told'[p][x] = IF p \in Listeners(kind, u, item) /\ x = <<kind, item>>
                                 THEN Max({told[p][x], value}) ELSE told[p][x]
  <2>1. told'[p] = IF p \in Listeners(kind, u, item) /\ <<kind, item>> \in DOMAIN told[p]
                   THEN [told[p] EXCEPT ![<<kind, item>>] = Max({told[p][<<kind, item>>], value})]
                   ELSE told[p]
    BY <1>1
  <2>2. CASE p \in Listeners(kind, u, item) /\ <<kind, item>> \in DOMAIN told[p]
    BY <2>1, <2>2
  <2>3. CASE ~(p \in Listeners(kind, u, item) /\ <<kind, item>> \in DOMAIN told[p])
    BY <2>1, <2>3
  <2> QED
    BY <2>2, <2>3
<1> QED
  BY <1>1, <1>2, <1>3, <1>4 DEF Notified

\* The greater of two numbers
LEMMA MaxOfTwo ==
    ASSUME NEW a \in Int, NEW b \in Int
    PROVE  Max({a, b}) = IF a >= b THEN a ELSE b
<1>1. \E x \in {a, b} : \A y \in {a, b} : x >= y
  OBVIOUS
<1>2. Max({a, b}) \in {a, b} /\ \A y \in {a, b} : Max({a, b}) >= y
  BY <1>1 DEF Max
<1> QED
  BY <1>2

\* A step that touches neither sessions, lists nor events
LEMMA QuietTold ==
    ASSUME EventInv, UNCHANGED <<conn, user, units, told, events, orders>>
    PROVE  ToldPart'
BY DEF EventInv, ToldPart, ToldListening, EventsNumbered, NoEventMissed, Coming

\* A new connection has been told nothing.
LEMMA AcceptTold ==
    ASSUME EventInv, NEW p \in Slots, Accept(p)
    PROVE  ToldPart' /\ ToldFresh
<1>1. /\ conn[p] = 0 /\ conn' = [conn EXCEPT ![p] = conns + 1] /\ user' = [user EXCEPT ![p] = 0]
      /\ UNCHANGED <<units, told, events, orders>>
  BY DEF Accept, engine, topics, ghosts
<1>2. DOMAIN told[p] = {}
  BY <1>1 DEF EventInv, ToldListening
<1>3. \A q \in Slots : q # p => conn'[q] = conn[q] /\ user'[q] = user[q]
  BY <1>1 DEF EventInv, OwnInv, SessionsOK
<1>4. ToldListening'
  BY <1>1, <1>2, <1>3 DEF EventInv, ToldListening
<1>5. EventsNumbered' /\ NoEventMissed'
  BY <1>1, <1>2, <1>3, NumbersKept
<1>6. ToldFresh
  BY <1>1, <1>2, <1>3 DEF ToldFresh
<1> QED
  BY <1>1, <1>4, <1>5, <1>6 DEF EventInv, ToldPart

\* A session of another user is told nothing of the former one's.
LEMMA AuthorityTold ==
    ASSUME EventInv, Authority
    PROVE  ToldPart' /\ ToldFresh
<1>1. PICK j \in jobs : OnResult(j) \/ OnResultError(j)
  BY DEF Authority
<1>2. UNCHANGED <<conn, events, orders>>
  BY <1>1 DEF OnResult, OnResultError, session, engine, topics
<1>3. CASE UNCHANGED <<user, units, told>>
  BY <1>2, <1>3, QuietTold DEF ToldFresh
<1>4. CASE OnResult(j) /\ conn[j.ses] = j.ses_id
  <2> DEFINE p == j.ses
             u == j.user_id
  <2>1. p \in Slots /\ u \in Users /\ conn[p] # 0
    BY <1>4 DEF EventInv, OwnInv, SessionsOK
  <2>2. /\ user' = [user EXCEPT ![p] = u]
        /\ units' = [kind \in Kinds |-> [w \in Users |->
                       IF w = user[p] /\ w # u THEN Without(kind, w, {p}) ELSE units[kind][w]]]
        /\ told' = [told EXCEPT ![p] = IF user[p] = u THEN told[p] ELSE Nothing]
    BY <1>4 DEF OnResult, BecomesUserOf
  <2> HIDE DEF p, u
  <2>3. told' = [q \in Slots |-> told'[q]]
    BY <2>1, <2>2 DEF EventInv
  <2>4. \A q \in Slots : \A x \in DOMAIN told'[q] :
           x \in DOMAIN told[q] /\ told'[q][x] = told[q][x] /\ user'[q] = user[q] /\ (q = p => user[p] = u)
    <3>1. \A q \in Slots : q # p => told'[q] = told[q] /\ user'[q] = user[q]
      BY <2>1, <2>2 DEF EventInv, OwnInv, SessionsOK
    <3>2. user'[p] = u
      BY <2>1, <2>2 DEF EventInv, OwnInv, SessionsOK
    <3>3. CASE user[p] = u
      <4>1. told'[p] = told[p]
        BY <2>1, <2>2, <3>3 DEF EventInv
      <4> QED
        BY <3>1, <3>2, <3>3, <4>1
    <3>4. CASE user[p] # u
      <4>1. told'[p] = Nothing
        BY <2>1, <2>2, <3>4 DEF EventInv
      <4>2. DOMAIN told'[p] = {}
        BY <4>1 DEF Nothing
      <4> QED
        BY <3>1, <4>2
    <3> QED
      BY <3>3, <3>4
  <2>5. ToldListening'
    <3> SUFFICES ASSUME NEW q \in Slots, NEW x \in DOMAIN told'[q]
                 PROVE  /\ conn'[q] # 0 /\ user'[q] \in Users
                        /\ x = <<x[1], x[2]>> /\ x[1] \in Kinds /\ x[2] \in Items(x[1])
                        /\ <<q, x[2]>> \in units'[x[1]][user'[q]]
      BY DEF ToldListening
    <3>1. x \in DOMAIN told[q] /\ user'[q] = user[q] /\ (q = p => user[p] = u)
      BY <2>4
    <3>2. /\ conn[q] # 0 /\ user[q] \in Users
          /\ x = <<x[1], x[2]>> /\ x[1] \in Kinds /\ x[2] \in Items(x[1])
          /\ <<q, x[2]>> \in units[x[1]][user[q]]
      BY <3>1 DEF EventInv, ToldListening
    <3>3. units'[x[1]][user[q]] = IF user[q] = user[p] /\ user[q] # u
                                  THEN Without(x[1], user[q], {p}) ELSE units[x[1]][user[q]]
      BY <2>2, <3>2
    <3>4. CASE user[q] = user[p] /\ user[q] # u
      <4>1. q # p
        BY <3>1, <3>4
      <4>2. <<q, x[2]>> \in Without(x[1], user[q], {p})
        BY <3>2, <4>1 DEF Without
      <4> QED
        BY <1>2, <3>1, <3>2, <3>3, <3>4, <4>2
    <3> QED
      BY <1>2, <3>1, <3>2, <3>3, <3>4
  <2>6. EventsNumbered' /\ NoEventMissed'
    BY <1>2, <2>4, NumbersKept
  <2> QED
    BY <2>3, <2>4, <2>5, <2>6 DEF ToldPart, ToldFresh
<1> QED
  BY <1>1, <1>3, <1>4 DEF OnResult, OnResultError, session, ghosts

\* A session that is closed is told nothing.
LEMMA CloseTold ==
    ASSUME EventInv, NEW p \in Slots, Close(p)
    PROVE  ToldPart' /\ ToldFresh
<1>1. Closed({p}) /\ told' = [told EXCEPT ![p] = Nothing] /\ UNCHANGED <<events, orders>>
  BY DEF Close, engine, topics
<1>2. told' = [q \in Slots |-> IF q = p THEN Nothing ELSE told[q]]
  BY <1>1 DEF EventInv
<1>3. /\ told' = [q \in Slots |-> told'[q]]
      /\ DOMAIN told'[p] = {}
      /\ \A q \in Slots : q # p => told'[q] = told[q]
  BY <1>2 DEF Nothing
<1>4. ToldListening'
  BY <1>1, <1>3, ClosedTold
<1>5. user' = user
  BY <1>1 DEF Closed
<1>6. EventsNumbered' /\ NoEventMissed'
  BY <1>1, <1>3, <1>5, NumbersKept
<1>7. ToldFresh
  BY <1>3, <1>5 DEF ToldFresh
<1> QED
  BY <1>3, <1>4, <1>6, <1>7 DEF ToldPart

\* A new event has the next number, behind those that are in the topic.
LEMMA OrderEventTold ==
    ASSUME EventInv, NEW u \in Users, NEW m \in Markets, NEW C, OrderEvent(u, m, C)
    PROVE  ToldPart'
<1> DEFINE e == [user |-> u, market |-> m, n |-> events[<<u, m>>] + 1]
           E == [user : Users, market : Markets, n : Nat]
<1>1. /\ events' = [events EXCEPT ![<<u, m>>] = @ + 1] /\ orders' = Append(orders, e)
      /\ UNCHANGED <<conn, user, units, told>>
  BY DEF OrderEvent, session, ghosts
<1>2. /\ events \in [Users \X Markets -> Nat] /\ orders \in Seq(E)
      /\ e \in E /\ e.user = u /\ e.market = m /\ e.n = events[<<u, m>>] + 1
  BY DEF EventInv, EngineOK
<1>a. \A x \in E : x.user \in Users /\ x.market \in Markets
  OBVIOUS
<1> HIDE DEF e, E
<1>3. \A v \in Users, k \in Markets :
         /\ events'[<<v, k>>] = events[<<v, k>>] + IF v = u /\ k = m THEN 1 ELSE 0
         /\ events[<<v, k>>] \in Nat
  <2> SUFFICES ASSUME NEW v \in Users, NEW k \in Markets
               PROVE  /\ events'[<<v, k>>] = events[<<v, k>>] + IF v = u /\ k = m THEN 1 ELSE 0
                      /\ events[<<v, k>>] \in Nat
    OBVIOUS
  <2>1. events' = [events EXCEPT ![<<u, m>>] = events[<<u, m>>] + 1] /\ events \in [Users \X Markets -> Nat]
    BY <1>1, <1>2
  <2>2. CASE v = u /\ k = m
    BY <2>1, <2>2
  <2>3. CASE ~(v = u /\ k = m)
    <3>1. <<v, k>> # <<u, m>>
      BY <2>3
    <3> QED
      BY <2>1, <2>3, <3>1
  <2> QED
    BY <2>2, <2>3
<1>4. \A i \in DOMAIN orders : orders[i].user \in Users /\ orders[i].market \in Markets
  BY <1>2, <1>a
<1>5. /\ DOMAIN orders' = 1..(Len(orders) + 1) /\ DOMAIN orders = 1..Len(orders) /\ Len(orders) \in Nat
      /\ orders'[Len(orders) + 1] = e
      /\ \A i \in DOMAIN orders : orders'[i] = orders[i]
  BY <1>1, <1>2
<1>6. /\ \A v, k : Cardinality(Entries(orders', v, k)) = Cardinality(Entries(orders, v, k))
                       + IF e.user = v /\ e.market = k THEN 1 ELSE 0
      /\ \A i \in DOMAIN orders : Cardinality(Later(orders', i)) = Cardinality(Later(orders, i))
                                      + IF Alike(e, orders[i]) THEN 1 ELSE 0
      /\ Cardinality(Later(orders', Len(orders) + 1)) = 0
  BY <1>1, <1>2, EntryAppended
<1>7. /\ \A v, k : Cardinality(Entries(orders, v, k)) \in Nat
      /\ \A i \in DOMAIN orders : Cardinality(Later(orders, i)) \in Nat
  <2>1. \A v, k : Entries(orders, v, k) \in SUBSET (DOMAIN orders)
    BY DEF Entries
  <2>2. \A i : Later(orders, i) \in SUBSET (DOMAIN orders)
    BY DEF Later
  <2> QED
    BY <1>2, <2>1, <2>2, IndicesFinite
<1>8. EventsNumbered'
  <2> SUFFICES ASSUME NEW i \in DOMAIN orders'
               PROVE  orders'[i].n = events'[<<orders'[i].user, orders'[i].market>>]
                                        - Cardinality(Later(orders', i))
    BY DEF EventsNumbered
  <2>1. CASE i = Len(orders) + 1
    BY <1>2, <1>3, <1>5, <1>6, <2>1
  <2>2. CASE i \in DOMAIN orders
    <3>1. orders[i].n = events[<<orders[i].user, orders[i].market>>] - Cardinality(Later(orders, i))
      BY <2>2 DEF EventInv, EventsNumbered
    <3>2. Alike(e, orders[i]) <=> orders[i].user = u /\ orders[i].market = m
      BY <1>2 DEF Alike
    <3>3. /\ orders'[i] = orders[i] /\ Cardinality(Later(orders, i)) \in Nat
          /\ Cardinality(Later(orders', i)) = Cardinality(Later(orders, i))
                  + IF orders[i].user = u /\ orders[i].market = m THEN 1 ELSE 0
      BY <1>5, <1>6, <1>7, <2>2, <3>2
    <3>4. /\ events[<<orders[i].user, orders[i].market>>] \in Nat
          /\ events'[<<orders[i].user, orders[i].market>>] = events[<<orders[i].user, orders[i].market>>]
                  + IF orders[i].user = u /\ orders[i].market = m THEN 1 ELSE 0
      BY <1>3, <1>4, <2>2
    <3> QED
      BY <3>1, <3>3, <3>4
  <2> QED
    BY <1>5, <2>1, <2>2
<1>9. NoEventMissed'
  <2> SUFFICES ASSUME NEW p \in Slots, NEW k \in Markets, <<"order", k>> \in DOMAIN told[p]
               PROVE  told[p][<<"order", k>>] = events'[<<user[p], k>>]
                                                  - Cardinality(Entries(orders', user[p], k))
    BY <1>1 DEF NoEventMissed, Coming, Entries
  <2>1. user[p] \in Users
    BY DEF EventInv, ToldListening
  <2>2. told[p][<<"order", k>>] = events[<<user[p], k>>] - Cardinality(Entries(orders, user[p], k))
    BY DEF EventInv, NoEventMissed, Coming, Entries
  <2> QED
    BY <1>2, <1>3, <1>6, <1>7, <2>1, <2>2
<1> QED
  BY <1>1, <1>8, <1>9 DEF EventInv, ToldPart, ToldListening

\* The oldest event goes to all that listen, and they have it after that.
LEMMA OrdersMessageTold ==
    ASSUME EventInv, NEW F \in SUBSET Slots, OnOrdersMessage(F)
    PROVE  ToldPart'
<1> DEFINE e == orders[1]
           E == [user : Users, market : Markets, n : Nat]
<1>1. orders # <<>> /\ orders \in Seq(E)
  BY DEF OnOrdersMessage, EventInv, EngineOK
<1>a. \A x \in E : x.user \in Users /\ x.market \in Markets /\ x.n \in Nat
  OBVIOUS
<1> HIDE DEF E
<1>2. Head(orders) = e /\ e \in E /\ 1 \in DOMAIN orders
  BY <1>1, TailOK
<1>3. orders' = Tail(orders) /\ Notify("order", e.user, e.market, e.n, F) /\ UNCHANGED <<balance, events>>
  BY <1>2 DEF OnOrdersMessage, engine
<1>4. e.user \in Users /\ e.market \in Markets /\ e.n \in Nat
  BY <1>2, <1>a
<1> HIDE DEF e
<1>5. /\ Closed(F) /\ told' = [p \in Slots |-> told'[p]]
      /\ \A p \in F : DOMAIN told'[p] = {}
      /\ \A p \in Slots \ F :
            /\ DOMAIN told'[p] = DOMAIN told[p]
            /\ \A x \in DOMAIN told[p] :
                  told'[p][x] = IF p \in Listeners("order", e.user, e.market) /\ x = <<"order", e.market>>
                                THEN Max({told[p][x], e.n}) ELSE told[p][x]
  <2>1. Notified("order", e.user, e.market, e.n, F)
    BY <1>3, NotifyTold
  <2> QED
    BY <2>1 DEF Notified
<1>6. ToldListening'
  BY <1>5, ClosedTold
<1>7. /\ \A u, m : Cardinality(Entries(orders, u, m)) = Cardinality(Entries(orders', u, m))
                       + IF e.user = u /\ e.market = m THEN 1 ELSE 0
      /\ \A u, m : Cardinality(Entries(orders', u, m)) \in Nat
      /\ \A i \in DOMAIN orders' : /\ orders'[i] = orders[i + 1] /\ i + 1 \in DOMAIN orders
                                   /\ Cardinality(Later(orders', i)) = Cardinality(Later(orders, i + 1))
      /\ Cardinality(Later(orders, 1)) = Cardinality(Entries(orders', e.user, e.market))
  BY <1>1, <1>3, EntryConsumed DEF e
<1>8. EventsNumbered'
  BY <1>3, <1>7 DEF EventInv, EventsNumbered
<1>9. e.n = events[<<e.user, e.market>>] - Cardinality(Entries(orders', e.user, e.market))
  BY <1>2, <1>7 DEF EventInv, EventsNumbered, e
<1>10. NoEventMissed'
  <2> SUFFICES ASSUME NEW p \in Slots, NEW m \in Markets, <<"order", m>> \in DOMAIN told'[p]
               PROVE  told'[p][<<"order", m>>] = events[<<user[p], m>>]
                                                   - Cardinality(Entries(orders', user[p], m))
    <3>1. UNCHANGED <<user, events>>
      BY <1>3, <1>5 DEF Closed
    <3>2. \A p \in Slots, m \in Markets : Coming(user[p], m)' = Cardinality(Entries(orders', user[p], m))
      BY <3>1 DEF Coming, Entries
    <3> QED
      BY <3>1, <3>2 DEF NoEventMissed
  <2> DEFINE x == <<"order", m>>
  <2>1. p \notin F /\ x \in DOMAIN told[p]
    BY <1>5
  <2>2. user[p] \in Users /\ <<p, m>> \in units["order"][user[p]]
    BY <2>1 DEF EventInv, ToldListening
  <2>3. told[p][x] = events[<<user[p], m>>] - Cardinality(Entries(orders, user[p], m))
    BY <2>1 DEF EventInv, NoEventMissed, Coming, Entries
  <2>4. told'[p][x] = IF p \in Listeners("order", e.user, e.market) /\ x = <<"order", e.market>>
                      THEN Max({told[p][x], e.n}) ELSE told[p][x]
    BY <1>5, <2>1
  <2>5. events[<<user[p], m>>] \in Nat
    BY <2>2 DEF EventInv, EngineOK
  <2>6. CASE user[p] = e.user /\ m = e.market
    <3>1. p \in Listeners("order", e.user, e.market) /\ x = <<"order", e.market>>
      BY <2>2, <2>6 DEF Listeners
    <3>2. told[p][x] = e.n - 1 /\ told[p][x] \in Int /\ e.n \in Int
      BY <1>7, <1>9, <2>3, <2>5, <2>6
    <3>3. Max({told[p][x], e.n}) = e.n
      BY <3>2, MaxOfTwo
    <3> QED
      BY <1>9, <2>4, <2>6, <3>1, <3>3
  <2>7. CASE ~(user[p] = e.user /\ m = e.market)
    <3>1. ~(p \in Listeners("order", e.user, e.market) /\ x = <<"order", e.market>>)
      <4>1. ASSUME p \in Listeners("order", e.user, e.market) PROVE user[p] = e.user
        BY <1>4, <4>1 DEF Listeners, EventInv, OwnInv, OwnEventsOnly, Kinds
      <4> QED
        BY <2>7, <4>1
    <3>2. Cardinality(Entries(orders, user[p], m)) = Cardinality(Entries(orders', user[p], m))
      BY <1>7, <2>7
    <3> QED
      BY <2>3, <2>4, <3>1, <3>2
  <2> QED
    BY <2>6, <2>7
<1> QED
  BY <1>5, <1>6, <1>8, <1>10 DEF ToldPart

\* The answer about a balance changes nothing about events.
LEMMA QueryReplyTold ==
    ASSUME EventInv, NEW F \in SUBSET Slots, OnBalanceQueryReply(F)
    PROVE  ToldPart'
<1>1. PICK u, a, v : Notify("asset", u, a, v, F) /\ UNCHANGED <<events, orders>>
  BY DEF OnBalanceQueryReply, engine, topics
<1>2. Notified("asset", u, a, v, F)
  BY <1>1, NotifyTold
<1>3. ToldListening'
  BY <1>2, ClosedTold DEF Notified
<1>4. user' = user
  BY <1>2 DEF Notified, Closed
<1>5. ASSUME NEW p \in Slots, NEW x \in DOMAIN told'[p]
      PROVE  \/ x \in DOMAIN told[p] /\ told'[p][x] = told[p][x] /\ user'[p] = user[p]
             \/ x[1] = "order" => told'[p][x] = events[<<user'[p], x[2]>>] - Coming(user'[p], x[2])
  <2>1. p \notin F
    BY <1>2, <1>5 DEF Notified
  <2>2. CASE x = <<"asset", a>>
    BY <2>2
  <2>3. CASE x # <<"asset", a>>
    BY <1>2, <1>4, <1>5, <2>1, <2>3 DEF Notified
  <2> QED
    BY <2>2, <2>3
<1>6. EventsNumbered' /\ NoEventMissed'
  BY <1>1, <1>5, NumbersKept
<1> QED
  BY <1>2, <1>3, <1>6 DEF ToldPart, Notified

\* Every step leaves clients told of what they are listed for, by number.
LEMMA ToldStep ==
    ASSUME EventInv, [Next]_vars
    PROVE  ToldPart'
<1>2. CASE UNCHANGED <<conn, user, units, told, events, orders>>
  BY <1>2, QuietTold
<1>3. CASE Client
  <2>1. PICK p \in Slots :
           \/ Accept(p) \/ Close(p)
           \/ \E u \in Users : SendAuthRequest(p, u)
           \/ \E kind \in Kinds : Subscribing(p, kind)
    BY <1>3 DEF Client, Subscribing
  <2>2. CASE \E u \in Users : SendAuthRequest(p, u)
    BY <1>2, <2>2 DEF SendAuthRequest, session, engine, topics
  <2>3. CASE \E kind \in Kinds : Subscribing(p, kind)
    BY <2>3, SubscriptionEvents
  <2> QED
    BY <2>1, <2>2, <2>3, AcceptTold, CloseTold
<1>4. CASE Authority
  BY <1>4, AuthorityTold
<1>5. CASE Matchengine
  <2>1. CASE \E u \in Active, a \in Assets : BalanceChange(u, a)
    BY <1>2, <2>1 DEF BalanceChange, session, ghosts
  <2>2. CASE \E u \in Active, m \in Markets, C \in SUBSET Assets : OrderEvent(u, m, C)
    BY <2>2, OrderEventTold, UsersAssumption
  <2> QED
    BY <1>5, <2>1, <2>2 DEF Matchengine
<1>6. CASE Pushes
  <2>1. CASE OnBalancesMessage \/ EngineAnswers \/ OnTimeout
    BY <1>2, <2>1 DEF OnBalancesMessage, EngineAnswers, OnTimeout, session, engine, topics, ghosts
  <2> QED
    BY <1>6, <2>1, OrdersMessageTold, QueryReplyTold DEF Pushes
<1>7. CASE UNCHANGED vars
  BY <1>2, <1>7 DEF vars, session, engine, topics, ghosts
<1> QED
  BY <1>3, <1>4, <1>5, <1>6, <1>7 DEF Next

\* Every step keeps the events in order and sent.
LEMMA EventStep == EventInv /\ [Next]_vars => EventInv'
<1> SUFFICES ASSUME EventInv, [Next]_vars PROVE EventInv'
  OBVIOUS
<1>1. OwnInv' /\ ListsByKind' /\ EngineOK'
  BY OwnStep, ListsByKindStep, EngineStep DEF EventInv
<1>2. ToldPart'
  BY ToldStep
<1> QED
  BY <1>1, <1>2 DEF EventInv, ToldPart

\* There are no events at first.
LEMMA InitEvents == Init => EventInv
<1> SUFFICES ASSUME Init PROVE EventInv
  OBVIOUS
<1>1. EngineOK /\ ListsByKind
  BY DEF Init, EngineOK, ListsByKind
<1>2. told = [p \in Slots |-> told[p]] /\ ToldListening /\ EventsNumbered /\ NoEventMissed
  <2>1. \A p \in Slots : DOMAIN told[p] = {}
    BY DEF Init, Nothing
  <2>2. told = [p \in Slots |-> told[p]] /\ DOMAIN orders = {}
    BY DEF Init
  <2> QED
    BY <2>1, <2>2 DEF ToldListening, EventsNumbered, NoEventMissed
<1> QED
  BY <1>1, <1>2, InitOwn DEF EventInv

\* A subscriber to orders has every event of its user in the market that the
\* topic does not hold any more, whoever connects, leaves or fails meanwhile.
THEOREM EveryEventIsSent == Spec => []NoEventMissed
<1>1. EventInv => NoEventMissed
  BY DEF EventInv
<1> QED
  BY <1>1, InitEvents, EventStep, PTL DEF Spec

-----------------------------------------------------------------------------
(* Every balance is under way *)

\* The balances and the queries as EventInv types them
LEMMA BalanceTypes ==
    ASSUME EventInv
    PROVE  /\ balance \in [Users \X Assets -> Nat]
           /\ \A u \in Users, a \in Assets : balance[<<u, a>>] \in Nat
           /\ DOMAIN queries = 1..Len(queries) /\ Len(queries) \in Nat
           /\ \A i \in DOMAIN queries : /\ queries[i].user \in Users /\ queries[i].asset \in Assets
                                        /\ queries[i].value \in Nat \cup {Unanswered}
<1> DEFINE E == [user : Users, asset : Assets, value : Nat \cup {Unanswered}]
<1>1. balance \in [Users \X Assets -> Nat] /\ queries \in Seq(E)
  BY DEF EventInv, EngineOK
<1>2. \A x \in E : x.user \in Users /\ x.asset \in Assets /\ x.value \in Nat \cup {Unanswered}
  OBVIOUS
<1> HIDE DEF E
<1> QED
  BY <1>1, <1>2

\* Who is told a balance is in the list of the asset.
LEMMA BehindListens ==
    ASSUME EventInv, NEW p \in Slots, NEW a \in Assets, <<"asset", a>> \in DOMAIN told[p]
    PROVE  user[p] \in Users /\ p \in Listeners("asset", user[p], a)
BY DEF EventInv, ToldListening, Listeners

\* A step that keeps balances, messages and queries, and what clients are told
\* or tells them the balance
LEMMA FreshFollowed ==
    ASSUME BalanceInv, EventInv', ToldFresh, UNCHANGED <<balance, balances, orders, queries, lost>>
    PROVE  NothingFromTheFuture' /\ OldAnswersFollowed'
<1>1. \A p \in Slots, a \in Assets : <<"asset", a>> \in DOMAIN told'[p] => user'[p] \in Users
  BY DEF EventInv, ToldListening
<1>2. \A u \in Users, a \in Assets : balance[<<u, a>>] \in Nat
  BY BalanceTypes DEF BalanceInv
<1>3. NothingFromTheFuture'
  <2>1. \A i \in DOMAIN queries' : queries'[i].value <= balance'[<<queries'[i].user, queries'[i].asset>>]
    BY DEF BalanceInv, NothingFromTheFuture
  <2>2. ASSUME NEW p \in Slots, NEW a \in Assets, <<"asset", a>> \in DOMAIN told'[p]
        PROVE  told'[p][<<"asset", a>>] \in 0..balance'[<<user'[p], a>>]
    <3>1. balance[<<user'[p], a>>] \in 0..balance[<<user'[p], a>>]
      BY <1>1, <1>2, <2>2
    <3>2. CASE told'[p][<<"asset", a>>] = balance[<<user'[p], a>>]
      BY <3>1, <3>2
    <3>3. CASE /\ <<"asset", a>> \in DOMAIN told[p] /\ user'[p] = user[p]
               /\ told'[p][<<"asset", a>>] = told[p][<<"asset", a>>]
      BY <3>3 DEF BalanceInv, NothingFromTheFuture
    <3> QED
      BY <2>2, <3>2, <3>3 DEF ToldFresh
  <2> QED
    BY <2>1, <2>2 DEF NothingFromTheFuture
<1>4. ASSUME NEW u, NEW a, Followed(u, a) PROVE Followed(u, a)'
  BY <1>4 DEF Followed, Stale, Pending
<1>5. ASSUME NEW p \in Slots, NEW a \in Assets, Behind(p, a)' PROVE Followed(user[p], a)'
  <2> DEFINE x == <<"asset", a>>
  <2>1. x \in DOMAIN told'[p] /\ told'[p][x] # balance[<<user'[p], a>>]
    BY <1>5 DEF Behind
  <2>2. x \in DOMAIN told[p] /\ told'[p][x] = told[p][x] /\ user'[p] = user[p]
    BY <2>1 DEF ToldFresh
  <2>3. Behind(p, a)
    BY <2>1, <2>2 DEF Behind
  <2>4. PICK u : u = user[p]
    OBVIOUS
  <2>5. Followed(u, a)'
    BY <1>4, <2>3, <2>4 DEF BalanceInv, OldAnswersFollowed
  <2> QED
    BY <2>2, <2>4, <2>5 DEF Followed, Stale, Pending
<1> QED
  BY <1>3, <1>5 DEF OldAnswersFollowed

\* The balances D change, and what is pushed with it tells so.
Changes(D) ==
    /\ UNCHANGED <<user, told, queries, lost>>
    /\ balance' = [x \in DOMAIN balance |-> IF x \in D THEN balance[x] + 1 ELSE balance[x]]
    /\ \A u \in Users, a \in Assets : <<u, a>> \in D =>
          \/ \E i \in DOMAIN balances' : balances'[i] = <<u, a>>
          \/ \E i \in DOMAIN orders' : orders'[i].user = u /\ a \in Range(Traded[orders'[i].market])
    /\ \A i \in DOMAIN balances : i \in DOMAIN balances' /\ balances'[i] = balances[i]
    /\ \A i \in DOMAIN orders : i \in DOMAIN orders' /\ orders'[i] = orders[i]

\* Whoever is behind with a balance that has changed has something coming.
LEMMA ChangeFollowed ==
    ASSUME BalanceInv, NEW D \in SUBSET (Users \X Assets), Changes(D)
    PROVE  NothingFromTheFuture' /\ OldAnswersFollowed'
<1>1. /\ balance \in [Users \X Assets -> Nat]
      /\ \A u \in Users, a \in Assets : balance[<<u, a>>] \in Nat
      /\ \A i \in DOMAIN queries : /\ queries[i].user \in Users /\ queries[i].asset \in Assets
                                   /\ queries[i].value \in Nat \cup {Unanswered}
  BY BalanceTypes DEF BalanceInv
<1>2. \A u \in Users, a \in Assets :
         balance'[<<u, a>>] = IF <<u, a>> \in D THEN balance[<<u, a>>] + 1 ELSE balance[<<u, a>>]
  BY <1>1 DEF Changes
<1>3. \A p \in Slots, a \in Assets : <<"asset", a>> \in DOMAIN told[p] => user[p] \in Users
  BY DEF BalanceInv, EventInv, ToldListening
<1>a. UNCHANGED <<user, told, queries, lost>>
  BY DEF Changes
<1>4. NothingFromTheFuture'
  <2>1. ASSUME NEW i \in DOMAIN queries
        PROVE  queries[i].value <= balance'[<<queries[i].user, queries[i].asset>>]
    <3>1. queries[i].value <= balance[<<queries[i].user, queries[i].asset>>]
      BY DEF BalanceInv, NothingFromTheFuture
    <3> QED
      BY <1>1, <1>2, <3>1 DEF Unanswered
  <2>2. ASSUME NEW p \in Slots, NEW a \in Assets, <<"asset", a>> \in DOMAIN told[p]
        PROVE  told[p][<<"asset", a>>] \in 0..balance'[<<user[p], a>>]
    <3>1. told[p][<<"asset", a>>] \in 0..balance[<<user[p], a>>]
      BY <2>2 DEF BalanceInv, NothingFromTheFuture
    <3> QED
      BY <1>1, <1>2, <1>3, <2>2, <3>1
  <2> QED
    BY <1>a, <2>1, <2>2 DEF NothingFromTheFuture
<1>5. ASSUME NEW p \in Slots, NEW a \in Assets, Behind(p, a)' PROVE Followed(user[p], a)'
  <2>1. <<"asset", a>> \in DOMAIN told[p] /\ told[p][<<"asset", a>>] # balance'[<<user[p], a>>]
    BY <1>5, <1>a DEF Behind
  <2>2. PICK u \in Users : u = user[p]
    BY <1>3, <2>1
  <2>3. Followed(u, a)'
    <3>1. CASE <<u, a>> \in D
      <4>1. \A k : Pending(u, a, k)'
        BY <3>1 DEF Pending, Changes
      <4> QED
        BY <4>1 DEF Followed
    <3>2. CASE <<u, a>> \notin D
      <4>1. balance'[<<u, a>>] = balance[<<u, a>>]
        BY <1>2, <3>2
      <4>2. Followed(u, a)
        BY <2>1, <2>2, <4>1 DEF BalanceInv, OldAnswersFollowed, Behind
      <4>3. \A k : Pending(u, a, k) => Pending(u, a, k)'
        BY <4>1, <1>a DEF Pending, Changes
      <4>4. \A i : Stale(u, a, i)' => Stale(u, a, i)
        BY <4>1, <1>a DEF Stale
      <4> QED
        BY <1>a, <4>2, <4>3, <4>4 DEF Followed
    <3> QED
      BY <3>1, <3>2
  <2> QED
    BY <1>a, <2>2, <2>3 DEF Followed, Stale, Pending
<1> QED
  BY <1>4, <1>5 DEF OldAnswersFollowed

\* The matchengine tells of each change.
LEMMA MatchengineFollowed ==
    ASSUME BalanceInv, Matchengine
    PROVE  NothingFromTheFuture' /\ OldAnswersFollowed'
<1>1. /\ balance = [x \in Users \X Assets |-> balance[x]]
      /\ balances \in Seq(Users \X Assets)
      /\ orders \in Seq([user : Users, market : Markets, n : Nat])
  BY DEF BalanceInv, EventInv, EngineOK
<1>2. ASSUME NEW u \in Users, NEW a \in Assets, BalanceChange(u, a)
      PROVE  NothingFromTheFuture' /\ OldAnswersFollowed'
  <2> DEFINE D == {<<u, a>>}
  <2>1. /\ balance' = [balance EXCEPT ![<<u, a>>] = @ + 1] /\ balances' = Append(balances, <<u, a>>)
        /\ UNCHANGED <<user, told, queries, lost, orders>>
    BY <1>2 DEF BalanceChange, session, ghosts
  <2>2. balance' = [x \in DOMAIN balance |-> IF x \in D THEN balance[x] + 1 ELSE balance[x]]
    BY <1>1, <2>1
  <2>3. /\ Len(balances) + 1 \in DOMAIN balances' /\ balances'[Len(balances) + 1] = <<u, a>>
        /\ \A i \in DOMAIN balances : i \in DOMAIN balances' /\ balances'[i] = balances[i]
    BY <1>1, <2>1
  <2>4. \A v \in Users, b \in Assets : <<v, b>> \in D =>
           \E i \in DOMAIN balances' : balances'[i] = <<v, b>>
    BY <2>3
  <2>5. D \in SUBSET (Users \X Assets)
    OBVIOUS
  <2> HIDE DEF D
  <2>6. Changes(D)
    BY <2>1, <2>2, <2>3, <2>4 DEF Changes
  <2> QED
    BY <2>5, <2>6, ChangeFollowed
<1>3. ASSUME NEW u \in Users, NEW m \in Markets, NEW C \in SUBSET (Range(Traded[m]) \cap Assets),
             OrderEvent(u, m, C)
      PROVE  NothingFromTheFuture' /\ OldAnswersFollowed'
  <2> DEFINE D == {u} \X C
             e == [user |-> u, market |-> m, n |-> events[<<u, m>>] + 1]
  <2>1. /\ balance' = [x \in DOMAIN balance |-> IF x[1] = u /\ x[2] \in C THEN balance[x] + 1 ELSE balance[x]]
        /\ orders' = Append(orders, e)
        /\ UNCHANGED <<user, told, queries, lost, balances>>
    BY <1>3 DEF OrderEvent, session, ghosts
  <2>2. balance' = [x \in DOMAIN balance |-> IF x \in D THEN balance[x] + 1 ELSE balance[x]]
    <3>1. \A x \in Users \X Assets : (x[1] = u /\ x[2] \in C) <=> x \in D
      OBVIOUS
    <3>2. DOMAIN balance = Users \X Assets
      BY <1>1
    <3> QED
      BY <2>1, <3>1, <3>2
  <2>3. \A b : <<u, b>> \in D => b \in Range(Traded[m])
    OBVIOUS
  <2>4. \A v, b : <<v, b>> \in D => v = u
    OBVIOUS
  <2>5. D \in SUBSET (Users \X Assets)
    OBVIOUS
  <2>6. e.user = u /\ e.market = m
    OBVIOUS
  <2> HIDE DEF D, e
  <2>7. /\ Len(orders) + 1 \in DOMAIN orders' /\ orders'[Len(orders) + 1] = e
        /\ \A i \in DOMAIN orders : i \in DOMAIN orders' /\ orders'[i] = orders[i]
    BY <1>1, <2>1
  <2>8. \A v \in Users, b \in Assets : <<v, b>> \in D =>
           \E i \in DOMAIN orders' : orders'[i].user = v /\ b \in Range(Traded[orders'[i].market])
    BY <2>3, <2>4, <2>6, <2>7
  <2>9. Changes(D)
    BY <2>1, <2>2, <2>7, <2>8 DEF Changes
  <2> QED
    BY <2>5, <2>9, ChangeFollowed
<1> QED
  BY <1>2, <1>3, UsersAssumption DEF Matchengine

\* More queries: those there were, and after them some that are not answered
MoreQueries(Q, R) ==
    /\ Len(R) \in Nat /\ Len(Q) <= Len(R) /\ DOMAIN R = 1..Len(R)
    /\ \A i \in DOMAIN Q : i \in DOMAIN R /\ R[i] = Q[i]
    /\ \A i \in DOMAIN R : i > Len(Q) =>
          /\ R[i].value = Unanswered /\ R[i].user \in Users /\ R[i].asset \in Assets

\* What an update of an asset makes of the queries Q
Queries == Seq([user : Users, asset : Assets, value : Nat \cup {Unanswered}])
Asks(Q, u, a) ==
    LET R == AssetOnUpdate(Q, u, a)
    IN  /\ R \in Queries /\ MoreQueries(Q, R)
        /\ Listeners("asset", u, a) # {} =>
              \E i \in DOMAIN R : i > Len(Q) /\ R[i].user = u /\ R[i].asset = a

\* An update of an asset asks for its balance.
LEMMA AssetOnUpdateAsks ==
    ASSUME ListsByKind, NEW Q \in Queries, NEW u \in Users, NEW a
    PROVE  Asks(Q, u, a)
<1>1. DOMAIN Q = 1..Len(Q) /\ Len(Q) \in Nat
  BY DEF Queries
<1>a. AssetOnUpdate(Q, u, a) \in Queries
  <2>1. Q \in Queries
    OBVIOUS
  <2> QED
    BY <2>1, AssetOnUpdateOK DEF Queries
<1>2. CASE Listeners("asset", u, a) = {}
  BY <1>1, <1>2, <1>a DEF Asks, AssetOnUpdate, MoreQueries
<1>3. CASE Listeners("asset", u, a) # {}
  <2> DEFINE q == [user |-> u, asset |-> a, value |-> Unanswered]
             R == Append(Q, q)
  <2>1. a \in Assets
    BY <1>3 DEF Listeners, ListsByKind, Kinds, Items
  <2>2. q.user = u /\ q.asset = a /\ q.value = Unanswered
    OBVIOUS
  <2>3. AssetOnUpdate(Q, u, a) = R
    BY <1>3 DEF AssetOnUpdate
  <2> HIDE DEF q
  <2>4. /\ DOMAIN R = 1..(Len(Q) + 1) /\ Len(R) = Len(Q) + 1 /\ R[Len(Q) + 1] = q
        /\ \A i \in DOMAIN Q : i \in DOMAIN R /\ R[i] = Q[i]
    BY DEF Queries
  <2> HIDE DEF R
  <2>5. MoreQueries(Q, R)
    BY <1>1, <2>1, <2>2, <2>4 DEF MoreQueries
  <2>6. Len(Q) + 1 \in DOMAIN R /\ Len(Q) + 1 > Len(Q) /\ R[Len(Q) + 1].user = u /\ R[Len(Q) + 1].asset = a
    BY <1>1, <2>2, <2>4
  <2> QED
    BY <1>a, <2>3, <2>5, <2>6 DEF Asks
<1> QED
  BY <1>2, <1>3

\* Of what was coming, something is left.
LeftOf(u, a, k) ==
    \/ \E i \in DOMAIN balances' : balances'[i] = <<u, a>>
    \/ \E i \in DOMAIN orders' : orders'[i].user = u /\ a \in Range(Traded[orders'[i].market])
    \/ \E i \in DOMAIN queries : /\ i > k /\ queries[i].user = u /\ queries[i].asset = a
                                 /\ queries[i].value \in {Unanswered, balance[<<u, a>>]}

\* There is a new query for the balance.
AskedFor(u, a) ==
    \E i \in DOMAIN queries' :
        i > Len(queries) /\ queries'[i].user = u /\ queries'[i].asset = a

\* A message that is taken leaves behind a query for every balance it told of,
\* when somebody is behind with it.
LEMMA MessageFollowed ==
    ASSUME BalanceInv, MoreQueries(queries, queries'), UNCHANGED <<balance, lost>>,
           \A p \in Slots, a \in Assets : Behind(p, a)' =>
               /\ Behind(p, a) /\ user'[p] = user[p]
               /\ AskedFor(user[p], a) \/ \A k : Pending(user[p], a, k) => LeftOf(user[p], a, k)
    PROVE  OldAnswersFollowed'
<1>1. DOMAIN queries = 1..Len(queries) /\ Len(queries) \in Nat
  BY BalanceTypes DEF BalanceInv
<1>2. /\ DOMAIN queries' = 1..Len(queries') /\ Len(queries') \in Nat /\ Len(queries) <= Len(queries')
      /\ \A i \in DOMAIN queries : i \in DOMAIN queries' /\ queries'[i] = queries[i]
      /\ \A i \in DOMAIN queries' : i > Len(queries) => queries'[i].value = Unanswered
  BY DEF MoreQueries
<1>3. ASSUME NEW p \in Slots, NEW a \in Assets, Behind(p, a)'
      PROVE  Followed(user[p], a)'
  <2>a. /\ Behind(p, a) /\ user'[p] = user[p]
        /\ AskedFor(user[p], a) \/ \A k : Pending(user[p], a, k) => LeftOf(user[p], a, k)
    BY <1>3
  <2>1. PICK u : u = user[p] /\ u = user'[p]
    BY <2>a
  <2>2. Followed(u, a)
    BY <2>a, <2>1 DEF BalanceInv, OldAnswersFollowed
  <2>3. \A i \in DOMAIN queries' : Stale(u, a, i)' => i \in DOMAIN queries /\ Stale(u, a, i)
    BY <1>1, <1>2 DEF Stale
  <2>4. CASE AskedFor(u, a)
    <3>1. PICK j \in DOMAIN queries' : j > Len(queries) /\ queries'[j].user = u /\ queries'[j].asset = a
      BY <2>4 DEF AskedFor
    <3>2. \A k \in 0..Len(queries) : j > k
      BY <1>1, <1>2, <3>1
    <3>3. \A k \in 0..Len(queries) : Pending(u, a, k)'
      BY <1>2, <3>1, <3>2 DEF Pending
    <3>4. 0 \in 0..Len(queries) /\ \A i \in DOMAIN queries : i \in 0..Len(queries)
      BY <1>1
    <3>5. Followed(u, a)'
      BY <2>3, <3>3, <3>4 DEF Followed
    <3> QED
      BY <2>1, <3>5 DEF Followed, Stale, Pending
  <2>5. CASE \A k : Pending(u, a, k) => LeftOf(u, a, k)
    <3>1. \A k : LeftOf(u, a, k) => Pending(u, a, k)'
      BY <1>2 DEF LeftOf, Pending
    <3>2. Followed(u, a)'
      BY <2>2, <2>3, <2>5, <3>1 DEF Followed
    <3> QED
      BY <2>1, <3>2 DEF Followed, Stale, Pending
  <2> QED
    BY <2>a, <2>1, <2>4, <2>5
<1> QED
  BY <1>3 DEF OldAnswersFollowed

\* What is left of a sequence without its head, and where it is
LEMMA TailHas ==
    ASSUME NEW E, NEW Q \in Seq(E), Q # <<>>
    PROVE  /\ \A i \in DOMAIN Q : i # 1 => i - 1 \in DOMAIN Tail(Q) /\ Tail(Q)[i - 1] = Q[i]
           /\ \A i \in DOMAIN Tail(Q) : i \in Nat /\ i + 1 \in DOMAIN Q /\ Tail(Q)[i] = Q[i + 1]
           /\ Head(Q) = Q[1] /\ 1 \in DOMAIN Q
<1>1. /\ DOMAIN Q = 1..Len(Q) /\ Len(Q) \in Nat \ {0} /\ DOMAIN Tail(Q) = 1..(Len(Q) - 1)
      /\ \A i \in DOMAIN Tail(Q) : Tail(Q)[i] = Q[i + 1]
      /\ Head(Q) = Q[1]
  OBVIOUS
<1> QED
  BY <1>1

\* One update after another
LEMMA MoreAndMore ==
    ASSUME NEW Q, NEW R, NEW S, Len(Q) \in Nat, DOMAIN Q = 1..Len(Q),
           MoreQueries(Q, R), MoreQueries(R, S)
    PROVE  MoreQueries(Q, S)
BY DEF MoreQueries

\* A query that is not answered is not of the future.
LEMMA MoreNotFuture ==
    ASSUME BalanceInv, MoreQueries(queries, queries'), UNCHANGED balance
    PROVE  \A i \in DOMAIN queries' :
              queries'[i].value <= balance'[<<queries'[i].user, queries'[i].asset>>]
<1>1. /\ \A u \in Users, a \in Assets : balance[<<u, a>>] \in Nat
      /\ DOMAIN queries = 1..Len(queries) /\ Len(queries) \in Nat
  BY BalanceTypes DEF BalanceInv
<1> SUFFICES ASSUME NEW i \in DOMAIN queries'
             PROVE  queries'[i].value <= balance[<<queries'[i].user, queries'[i].asset>>]
  OBVIOUS
<1>2. CASE i \in DOMAIN queries
  BY <1>2 DEF MoreQueries, BalanceInv, NothingFromTheFuture
<1>3. CASE i > Len(queries)
  <2>1. queries'[i].value = -1 /\ balance[<<queries'[i].user, queries'[i].asset>>] \in Nat
    BY <1>1, <1>3 DEF MoreQueries, Unanswered
  <2> QED
    BY <2>1
<1> QED
  BY <1>1, <1>2, <1>3 DEF MoreQueries

\* on_balances_message
LEMMA BalancesMessageFollowed ==
    ASSUME BalanceInv, OnBalancesMessage
    PROVE  NothingFromTheFuture' /\ OldAnswersFollowed'
<1> DEFINE u == balances[1][1]
           a == balances[1][2]
<1>1. balances \in Seq(Users \X Assets) /\ balances # <<>> /\ queries \in Queries /\ ListsByKind
  BY DEF OnBalancesMessage, BalanceInv, EventInv, EngineOK, Queries
<1>2. /\ \A i \in DOMAIN balances : i # 1 => i - 1 \in DOMAIN Tail(balances)
                                              /\ Tail(balances)[i - 1] = balances[i]
      /\ Head(balances) = balances[1] /\ 1 \in DOMAIN balances
  BY <1>1, TailHas
<1>3. u \in Users /\ balances[1] = <<u, a>>
  BY <1>1, <1>2
<1>4. /\ balances' = Tail(balances) /\ queries' = AssetOnUpdate(queries, u, a)
      /\ UNCHANGED <<user, told, balance, orders, lost>>
  BY <1>2 DEF OnBalancesMessage, session, engine, ghosts
<1> HIDE DEF u, a
<1>5. /\ MoreQueries(queries, queries')
      /\ Listeners("asset", u, a) # {} => AskedFor(u, a)
  <2>1. Asks(queries, u, a)
    BY <1>1, <1>3, AssetOnUpdateAsks
  <2> QED
    BY <1>4, <2>1 DEF Asks, AskedFor
<1>6. ASSUME NEW p \in Slots, NEW b \in Assets, Behind(p, b)'
      PROVE  /\ Behind(p, b) /\ user'[p] = user[p]
             /\ AskedFor(user[p], b) \/ \A k : Pending(user[p], b, k) => LeftOf(user[p], b, k)
  <2>1. Behind(p, b) /\ user' = user
    BY <1>4, <1>6 DEF Behind
  <2>2. p \in Listeners("asset", user[p], b)
    BY <2>1, BehindListens DEF Behind, BalanceInv
  <2>3. CASE <<user[p], b>> = <<u, a>>
    BY <1>5, <2>1, <2>2, <2>3
  <2>4. CASE <<user[p], b>> # <<u, a>>
    <3>1. \A k : Pending(user[p], b, k) => LeftOf(user[p], b, k)
      BY <1>2, <1>3, <1>4, <2>4 DEF Pending, LeftOf
    <3> QED
      BY <2>1, <3>1
  <2> QED
    BY <2>3, <2>4
<1>7. OldAnswersFollowed'
  BY <1>4, <1>5, <1>6, MessageFollowed
<1>8. NothingFromTheFuture'
  <2>1. \A i \in DOMAIN queries' :
           queries'[i].value <= balance'[<<queries'[i].user, queries'[i].asset>>]
    BY <1>4, <1>5, MoreNotFuture
  <2> QED
    BY <1>4, <2>1 DEF BalanceInv, NothingFromTheFuture
<1> QED
  BY <1>7, <1>8

\* on_orders_message: a client that is told the order may be behind with either
\* of the two balances of the market.
LEMMA OrdersMessageFollowed ==
    ASSUME BalanceInv, NEW F \in SUBSET Slots, OnOrdersMessage(F)
    PROVE  NothingFromTheFuture' /\ OldAnswersFollowed'
<1> DEFINE e == orders[1]
           s == Traded[e.market][1]
           t == Traded[e.market][2]
           Q1 == AssetOnUpdate(queries, e.user, s)
<1>1. queries \in Queries /\ ListsByKind /\ orders # <<>>
  BY DEF OnOrdersMessage, BalanceInv, EventInv, EngineOK, Queries
<1>2. /\ \A i \in DOMAIN orders : i # 1 => i - 1 \in DOMAIN Tail(orders) /\ Tail(orders)[i - 1] = orders[i]
      /\ Head(orders) = orders[1] /\ e.user \in Users /\ e.market \in Markets
  <2> DEFINE G == [user : Users, market : Markets, n : Nat]
  <2>1. orders \in Seq(G) /\ \A x \in G : x.user \in Users /\ x.market \in Markets
    BY DEF BalanceInv, EventInv, EngineOK
  <2> HIDE DEF G, e
  <2>2. /\ \A i \in DOMAIN orders : i # 1 => i - 1 \in DOMAIN Tail(orders) /\ Tail(orders)[i - 1] = orders[i]
        /\ Head(orders) = orders[1]
    BY <1>1, <2>1, TailHas
  <2>3. e \in G
    BY <1>1, <2>1, <2>2, TailOK DEF e
  <2> QED
    BY <2>1, <2>2, <2>3
<1>3. /\ orders' = Tail(orders) /\ queries' = AssetOnUpdate(Q1, e.user, t)
      /\ Notify("order", e.user, e.market, e.n, F)
      /\ UNCHANGED <<balance, balances, lost>>
  BY <1>2 DEF OnOrdersMessage, engine
<1>4. Range(Traded[e.market]) = {s, t}
  <2>1. DOMAIN Traded[e.market] = {1, 2}
    BY <1>2, TradedAssumption
  <2> QED
    BY <2>1 DEF Range
<1> HIDE DEF e, s, t
<1>5. /\ MoreQueries(queries, Q1) /\ Q1 \in Queries
      /\ Listeners("asset", e.user, s) # {} =>
            \E i \in DOMAIN Q1 : i > Len(queries) /\ Q1[i].user = e.user /\ Q1[i].asset = s
  <2>1. Asks(queries, e.user, s)
    BY <1>1, <1>2, AssetOnUpdateAsks
  <2> QED
    BY <2>1 DEF Asks
<1> HIDE DEF Q1
<1>6. /\ MoreQueries(Q1, queries')
      /\ Listeners("asset", e.user, t) # {} =>
            \E i \in DOMAIN queries' : i > Len(Q1) /\ queries'[i].user = e.user /\ queries'[i].asset = t
  <2>1. Asks(Q1, e.user, t)
    BY <1>1, <1>2, <1>5, AssetOnUpdateAsks
  <2> QED
    BY <1>3, <2>1 DEF Asks
<1>7. DOMAIN queries = 1..Len(queries) /\ Len(queries) \in Nat
  BY BalanceTypes DEF BalanceInv
<1>8. MoreQueries(queries, queries')
  BY <1>5, <1>6, <1>7, MoreAndMore
<1>9. ASSUME NEW b \in {s, t}, Listeners("asset", e.user, b) # {}
      PROVE  AskedFor(e.user, b)
  <2>1. CASE b = s
    <3>1. PICK i \in DOMAIN Q1 : i > Len(queries) /\ Q1[i].user = e.user /\ Q1[i].asset = s
      BY <1>5, <1>9, <2>1
    <3>2. i \in DOMAIN queries' /\ queries'[i] = Q1[i]
      BY <1>6 DEF MoreQueries
    <3> QED
      BY <2>1, <3>1, <3>2 DEF AskedFor
  <2>2. CASE b = t
    <3>1. PICK i \in DOMAIN queries' : i > Len(Q1) /\ queries'[i].user = e.user /\ queries'[i].asset = t
      BY <1>6, <1>9, <2>2
    <3>2. i > Len(queries)
      BY <1>5, <1>6, <1>7, <3>1 DEF MoreQueries
    <3> QED
      BY <2>2, <3>1, <3>2 DEF AskedFor
  <2> QED
    BY <1>9, <2>1, <2>2
<1>10. Notified("order", e.user, e.market, e.n, F)
  BY <1>3, NotifyTold
<1>11. user' = user
  BY <1>10 DEF Notified, Closed
<1>12. ASSUME NEW p \in Slots, NEW b \in Assets, <<"asset", b>> \in DOMAIN told'[p]
       PROVE  <<"asset", b>> \in DOMAIN told[p] /\ told'[p][<<"asset", b>>] = told[p][<<"asset", b>>]
  <2>1. p \notin F
    BY <1>10, <1>12 DEF Notified
  <2>2. <<"asset", b>> # <<"order", e.market>>
    OBVIOUS
  <2> QED
    BY <1>10, <1>12, <2>1, <2>2 DEF Notified
<1>13. ASSUME NEW p \in Slots, NEW b \in Assets, Behind(p, b)'
       PROVE  /\ Behind(p, b) /\ user'[p] = user[p]
              /\ AskedFor(user[p], b) \/ \A k : Pending(user[p], b, k) => LeftOf(user[p], b, k)
  <2>1. Behind(p, b)
    BY <1>3, <1>11, <1>12, <1>13 DEF Behind
  <2>2. p \in Listeners("asset", user[p], b)
    BY <2>1, BehindListens DEF Behind, BalanceInv
  <2>3. CASE user[p] = e.user /\ b \in {s, t}
    BY <1>9, <1>11, <2>1, <2>2, <2>3
  <2>4. CASE ~(user[p] = e.user /\ b \in {s, t})
    <3>1. ~(orders[1].user = user[p] /\ b \in Range(Traded[orders[1].market]))
      BY <1>4, <2>4 DEF e
    <3>2. \A k : Pending(user[p], b, k) => LeftOf(user[p], b, k)
      BY <1>2, <1>3, <3>1 DEF Pending, LeftOf
    <3> QED
      BY <1>11, <2>1, <3>2
  <2> QED
    BY <2>3, <2>4
<1>14. OldAnswersFollowed'
  BY <1>3, <1>8, <1>13, MessageFollowed
<1>15. NothingFromTheFuture'
  <2>1. \A i \in DOMAIN queries' :
           queries'[i].value <= balance'[<<queries'[i].user, queries'[i].asset>>]
    BY <1>3, <1>8, MoreNotFuture
  <2> QED
    BY <1>3, <1>11, <1>12, <2>1 DEF BalanceInv, NothingFromTheFuture
<1> QED
  BY <1>14, <1>15

\* The matchengine answers a query with the balance.
LEMMA EngineAnswersFollowed ==
    ASSUME BalanceInv, EngineAnswers
    PROVE  NothingFromTheFuture' /\ OldAnswersFollowed'
<1>1. PICK j \in DOMAIN queries :
        /\ queries' = [queries EXCEPT ![j].value = balance[<<queries[j].user, queries[j].asset>>]]
        /\ UNCHANGED <<user, told, balance, balances, orders, lost>>
  BY DEF EngineAnswers, session, engine, topics, ghosts
<1>2. /\ \A u \in Users, a \in Assets : balance[<<u, a>>] \in Nat
      /\ DOMAIN queries = 1..Len(queries) /\ Len(queries) \in Nat
      /\ \A i \in DOMAIN queries : /\ queries[i].user \in Users /\ queries[i].asset \in Assets
                                   /\ queries[i].value \in Nat \cup {Unanswered}
  BY BalanceTypes DEF BalanceInv
<1>3. /\ DOMAIN queries' = DOMAIN queries
      /\ \A i \in DOMAIN queries :
            /\ queries'[i].user = queries[i].user /\ queries'[i].asset = queries[i].asset
            /\ queries'[i].value = IF i = j THEN balance[<<queries[i].user, queries[i].asset>>]
                                   ELSE queries[i].value
  <2> DEFINE G == [user : Users, asset : Assets, value : Nat \cup {Unanswered}]
  <2>1. queries \in Seq(G)
    BY DEF BalanceInv, EventInv, EngineOK
  <2>2. queries[j] \in G
    BY <1>2, <2>1, ElementOfSeq
  <2>3. PICK v : v = balance[<<queries[j].user, queries[j].asset>>]
    OBVIOUS
  <2>4. PICK r : r = [queries[j] EXCEPT !.value = v]
    OBVIOUS
  <2>5. r.user = queries[j].user /\ r.asset = queries[j].asset /\ r.value = v
    BY <2>2, <2>4
  <2>6. queries' = [queries EXCEPT ![j] = r]
    BY <1>1, <2>3, <2>4
  <2> HIDE DEF G
  <2>7. DOMAIN queries' = DOMAIN queries
    BY <2>6
  <2>8. \A i \in DOMAIN queries : queries'[i] = IF i = j THEN r ELSE queries[i]
    BY <2>6
  <2> QED
    BY <2>3, <2>5, <2>7, <2>8
<1>4. NothingFromTheFuture'
  <2>1. ASSUME NEW i \in DOMAIN queries
        PROVE  queries'[i].value <= balance[<<queries[i].user, queries[i].asset>>]
    <3>1. queries[i].value <= balance[<<queries[i].user, queries[i].asset>>]
      BY DEF BalanceInv, NothingFromTheFuture
    <3>2. balance[<<queries[i].user, queries[i].asset>>] \in Nat
      BY <1>2
    <3> QED
      BY <1>3, <3>1, <3>2
  <2> QED
    BY <1>1, <1>3, <2>1 DEF BalanceInv, NothingFromTheFuture
<1>5. \A u, a, k : Pending(u, a, k) => Pending(u, a, k)'
  BY <1>1, <1>3 DEF Pending
<1>6. \A u, a : \A i \in DOMAIN queries' : Stale(u, a, i)' => i \in DOMAIN queries /\ Stale(u, a, i)
  BY <1>1, <1>3 DEF Stale
<1>7. ASSUME NEW p \in Slots, NEW a \in Assets, Behind(p, a)' PROVE Followed(user[p], a)'
  <2>1. PICK u : u = user[p] /\ u = user'[p]
    BY <1>1
  <2>2. Behind(p, a)
    BY <1>1, <1>7 DEF Behind
  <2>3. Followed(u, a)
    BY <2>1, <2>2 DEF BalanceInv, OldAnswersFollowed
  <2>4. Followed(u, a)'
    BY <1>1, <1>5, <1>6, <2>3 DEF Followed
  <2> QED
    BY <2>1, <2>4 DEF Followed, Stale, Pending
<1> QED
  BY <1>4, <1>7 DEF OldAnswersFollowed

\* The oldest query is taken: the others move up, and what follows them does.
LEMMA QueryTaken ==
    ASSUME BalanceInv, queries # <<>>, queries' = Tail(queries),
           UNCHANGED <<balance, balances, orders>>
    PROVE  /\ \A i \in DOMAIN queries' :
                 queries'[i].value <= balance'[<<queries'[i].user, queries'[i].asset>>]
           /\ \A u, a : \A i \in DOMAIN queries' : Stale(u, a, i)' /\ Followed(u, a) => Pending(u, a, i)'
           /\ \A u, a : Pending(u, a, 0) /\ <<u, a>> # <<queries[1].user, queries[1].asset>>
                           => Pending(u, a, 0)'
           /\ \A u, a : Pending(u, a, 1) => Pending(u, a, 0)'
<1> DEFINE G == [user : Users, asset : Assets, value : Nat \cup {Unanswered}]
<1>1. queries \in Seq(G)
  BY DEF BalanceInv, EventInv, EngineOK
<1> HIDE DEF G
<1>2. /\ \A i \in DOMAIN queries : i # 1 => i - 1 \in DOMAIN queries' /\ queries'[i - 1] = queries[i]
      /\ \A i \in DOMAIN queries' : i \in Nat /\ i + 1 \in DOMAIN queries /\ queries'[i] = queries[i + 1]
  BY <1>1, TailHas
<1>3. DOMAIN queries = 1..Len(queries) /\ Len(queries) \in Nat
  BY <1>1
<1>4. \A i \in DOMAIN queries' : queries'[i].value <= balance'[<<queries'[i].user, queries'[i].asset>>]
  BY <1>2 DEF BalanceInv, NothingFromTheFuture
<1>5. ASSUME NEW u, NEW a, NEW k \in Nat, Pending(u, a, k + 1) PROVE Pending(u, a, k)'
  <2>1. CASE \E i \in DOMAIN queries : /\ i > k + 1 /\ queries[i].user = u /\ queries[i].asset = a
                                       /\ queries[i].value \in {Unanswered, balance[<<u, a>>]}
    <3>1. PICK i \in DOMAIN queries : /\ i > k + 1 /\ queries[i].user = u /\ queries[i].asset = a
                                      /\ queries[i].value \in {Unanswered, balance[<<u, a>>]}
      BY <2>1
    <3>2. i # 1 /\ i - 1 > k
      BY <1>3, <3>1
    <3> QED
      BY <1>2, <3>1, <3>2 DEF Pending
  <2> QED
    BY <1>5, <2>1 DEF Pending
<1>6. ASSUME NEW u, NEW a, NEW i \in DOMAIN queries', Stale(u, a, i)', Followed(u, a)
      PROVE  Pending(u, a, i)'
  <2>1. i \in Nat /\ i + 1 \in DOMAIN queries /\ Stale(u, a, i + 1)
    BY <1>2, <1>6 DEF Stale
  <2> QED
    BY <1>5, <1>6, <2>1 DEF Followed
<1>7. ASSUME NEW u, NEW a, Pending(u, a, 0), <<u, a>> # <<queries[1].user, queries[1].asset>>
      PROVE  Pending(u, a, 0)'
  <2>1. CASE \E i \in DOMAIN queries : /\ queries[i].user = u /\ queries[i].asset = a
                                       /\ queries[i].value \in {Unanswered, balance[<<u, a>>]}
    <3>1. PICK i \in DOMAIN queries : /\ queries[i].user = u /\ queries[i].asset = a
                                      /\ queries[i].value \in {Unanswered, balance[<<u, a>>]}
      BY <2>1
    <3>2. i # 1
      BY <1>7, <3>1
    <3>3. i - 1 > 0
      BY <1>3, <3>2
    <3> QED
      BY <1>2, <3>1, <3>2, <3>3 DEF Pending
  <2> QED
    BY <1>7, <2>1 DEF Pending
<1>8. \A u, a : Pending(u, a, 1) => Pending(u, a, 0)'
  BY <1>5
<1> QED
  BY <1>4, <1>6, <1>7, <1>8

\* The state of the oldest query times out: its balance is among the lost ones.
LEMMA OnTimeoutFollowed ==
    ASSUME BalanceInv, OnTimeout
    PROVE  NothingFromTheFuture' /\ OldAnswersFollowed'
<1> DEFINE h == <<queries[1].user, queries[1].asset>>
<1>1. /\ queries # <<>> /\ queries' = Tail(queries)
      /\ UNCHANGED <<user, told, balance, balances, orders>>
  BY DEF OnTimeout, session, engine, topics
<1>2. lost' = lost \cup {h}
  <2>1. Head(queries) = queries[1]
    BY <1>1 DEF BalanceInv, EventInv, EngineOK
  <2> QED
    BY <2>1 DEF OnTimeout
<1> HIDE DEF h
<1>3. /\ \A i \in DOMAIN queries' :
            queries'[i].value <= balance'[<<queries'[i].user, queries'[i].asset>>]
      /\ \A u, a : \A i \in DOMAIN queries' : Stale(u, a, i)' /\ Followed(u, a) => Pending(u, a, i)'
      /\ \A u, a : Pending(u, a, 0) /\ <<u, a>> # h => Pending(u, a, 0)'
  BY <1>1, QueryTaken DEF h
<1>4. NothingFromTheFuture'
  BY <1>1, <1>3 DEF BalanceInv, NothingFromTheFuture
<1>5. ASSUME NEW p \in Slots, NEW a \in Assets, Behind(p, a)' PROVE Followed(user[p], a)'
  <2>1. PICK u : u = user[p] /\ u = user'[p]
    BY <1>1
  <2>2. Behind(p, a)
    BY <1>1, <1>5 DEF Behind
  <2>3. Followed(u, a)
    BY <2>1, <2>2 DEF BalanceInv, OldAnswersFollowed
  <2>4. Pending(u, a, 0)' \/ <<u, a>> \in lost'
    BY <1>2, <1>3, <2>3 DEF Followed
  <2>5. Followed(u, a)'
    BY <1>3, <2>3, <2>4 DEF Followed
  <2> QED
    BY <2>1, <2>5 DEF Followed, Stale, Pending
<1> QED
  BY <1>4, <1>5 DEF OldAnswersFollowed

\* on_balance_query_reply: a client that is still behind was behind, and the
\* answer was old.
LEMMA QueryReplyFollowed ==
    ASSUME BalanceInv, NEW F \in SUBSET Slots, OnBalanceQueryReply(F)
    PROVE  NothingFromTheFuture' /\ OldAnswersFollowed'
<1> DEFINE v == queries[1].user
           b == queries[1].asset
           w == queries[1].value
           h == <<queries[1].user, queries[1].asset>>
<1>1. queries # <<>> /\ queries' = Tail(queries) /\ UNCHANGED <<balance, balances, orders>>
  BY DEF OnBalanceQueryReply, engine, topics
<1>2. Head(queries) = queries[1] /\ 1 \in DOMAIN queries
  BY <1>1 DEF BalanceInv, EventInv, EngineOK
<1>3. Notify("asset", v, b, w, F) /\ lost' = lost \ {h} /\ w # Unanswered
  BY <1>2 DEF OnBalanceQueryReply
<1>4. /\ v \in Users /\ b \in Assets /\ w \in Nat /\ balance[<<v, b>>] \in Nat
      /\ \A u \in Users, a \in Assets : balance[<<u, a>>] \in Nat
  BY <1>2, <1>3, BalanceTypes DEF BalanceInv
<1>5. w <= balance[<<v, b>>]
  BY <1>2 DEF BalanceInv, NothingFromTheFuture
<1>6. /\ \A i \in DOMAIN queries' :
            queries'[i].value <= balance'[<<queries'[i].user, queries'[i].asset>>]
      /\ \A u, a : \A i \in DOMAIN queries' : Stale(u, a, i)' /\ Followed(u, a) => Pending(u, a, i)'
      /\ \A u, a : Pending(u, a, 0) /\ <<u, a>> # h => Pending(u, a, 0)'
      /\ \A u, a : Pending(u, a, 1) => Pending(u, a, 0)'
  BY <1>1, QueryTaken
<1>7. \A u, a : u = v /\ a = b /\ w # balance[<<u, a>>] => Stale(u, a, 1)
  BY <1>3 DEF Stale
<1>8. h = <<v, b>>
  OBVIOUS
<1> HIDE DEF v, b, w, h
<1>9. Notified("asset", v, b, w, F)
  BY <1>3, NotifyTold
<1>10. user' = user
  BY <1>9 DEF Notified, Closed
<1>11. ASSUME NEW p \in Slots, NEW a \in Assets, <<"asset", a>> \in DOMAIN told'[p]
       PROVE  LET x == <<"asset", a>>
              IN  /\ x \in DOMAIN told[p] /\ user[p] \in Users
                  /\ told[p][x] \in 0..balance[<<user[p], a>>]
                  /\ IF user[p] = v /\ a = b
                     THEN told'[p][x] = (IF told[p][x] >= w THEN told[p][x] ELSE w)
                     ELSE told'[p][x] = told[p][x]
  <2> DEFINE x == <<"asset", a>>
  <2>1. p \notin F
    BY <1>9, <1>11 DEF Notified
  <2>2. x \in DOMAIN told[p]
    BY <1>9, <1>11, <2>1 DEF Notified
  <2>3. told'[p][x] = IF p \in Listeners("asset", v, b) /\ x = <<"asset", b>>
                      THEN Max({told[p][x], w}) ELSE told[p][x]
    BY <1>9, <2>1, <2>2 DEF Notified
  <2>4. user[p] \in Users /\ p \in Listeners("asset", user[p], a)
    BY <2>2, BehindListens DEF BalanceInv
  <2>5. told[p][x] \in 0..balance[<<user[p], a>>]
    BY <2>2 DEF BalanceInv, NothingFromTheFuture
  <2>6. CASE user[p] = v /\ a = b
    <3>1. told'[p][x] = Max({told[p][x], w})
      BY <2>3, <2>4, <2>6
    <3>2. told[p][x] \in Int /\ w \in Int
      BY <1>4, <2>4, <2>5
    <3>3. Max({told[p][x], w}) = IF told[p][x] >= w THEN told[p][x] ELSE w
      BY <3>2, MaxOfTwo
    <3> QED
      BY <2>2, <2>4, <2>5, <2>6, <3>1, <3>3
  <2>7. CASE ~(user[p] = v /\ a = b)
    <3>1. ~(p \in Listeners("asset", v, b) /\ x = <<"asset", b>>)
      <4>1. ASSUME p \in Listeners("asset", v, b) PROVE user[p] = v
        BY <1>4, <4>1 DEF Listeners, BalanceInv, EventInv, OwnInv, OwnEventsOnly, Kinds
      <4> QED
        BY <2>7, <4>1
    <3> QED
      BY <2>2, <2>3, <2>4, <2>5, <2>7, <3>1
  <2> QED
    BY <2>6, <2>7
<1>12. NothingFromTheFuture'
  <2>1. ASSUME NEW p \in Slots, NEW a \in Assets, <<"asset", a>> \in DOMAIN told'[p]
        PROVE  told'[p][<<"asset", a>>] \in 0..balance[<<user[p], a>>]
    <3> DEFINE x == <<"asset", a>>
    <3>1. /\ user[p] \in Users /\ told[p][x] \in 0..balance[<<user[p], a>>]
          /\ IF user[p] = v /\ a = b
             THEN told'[p][x] = (IF told[p][x] >= w THEN told[p][x] ELSE w)
             ELSE told'[p][x] = told[p][x]
      BY <1>11, <2>1
    <3>2. w \in 0..balance[<<v, b>>]
      BY <1>4, <1>5
    <3> QED
      BY <3>1, <3>2
  <2> QED
    BY <1>1, <1>6, <1>10, <2>1 DEF NothingFromTheFuture
<1>13. ASSUME NEW p \in Slots, NEW a \in Assets, Behind(p, a)' PROVE Followed(user[p], a)'
  <2> DEFINE x == <<"asset", a>>
  <2>1. x \in DOMAIN told'[p] /\ told'[p][x] # balance[<<user[p], a>>]
    BY <1>1, <1>10, <1>13 DEF Behind
  <2>2. /\ x \in DOMAIN told[p] /\ user[p] \in Users
        /\ told[p][x] \in 0..balance[<<user[p], a>>]
        /\ IF user[p] = v /\ a = b
           THEN told'[p][x] = (IF told[p][x] >= w THEN told[p][x] ELSE w)
           ELSE told'[p][x] = told[p][x]
    BY <1>11, <2>1
  <2>3. PICK u \in Users : u = user[p] /\ u = user'[p]
    BY <1>10, <2>2
  <2>4. balance[<<u, a>>] \in Nat
    BY <1>4, <2>3
  <2>5. Behind(p, a)
    <3>1. told[p][x] # balance[<<u, a>>]
      <4>1. CASE u = v /\ a = b
        BY <1>4, <1>5, <2>1, <2>2, <2>3, <2>4, <4>1
      <4>2. CASE ~(u = v /\ a = b)
        BY <2>1, <2>2, <2>3, <4>2
      <4> QED
        BY <4>1, <4>2
    <3> QED
      BY <2>2, <2>3, <3>1 DEF Behind
  <2>6. Followed(u, a)
    BY <2>3, <2>5 DEF BalanceInv, OldAnswersFollowed
  <2>7. Pending(u, a, 0)' \/ <<u, a>> \in lost'
    <3>1. CASE u = v /\ a = b
      <4>1. w # balance[<<u, a>>]
        BY <2>1, <2>2, <2>3, <2>4, <3>1, <1>4
      <4>2. Stale(u, a, 1)
        BY <1>7, <3>1, <4>1
      <4>3. Pending(u, a, 1)
        BY <1>2, <2>6, <4>2 DEF Followed
      <4> QED
        BY <1>6, <4>3
    <3>2. CASE ~(u = v /\ a = b)
      <4>1. <<u, a>> # h
        BY <1>8, <3>2
      <4> QED
        BY <1>3, <1>6, <2>6, <4>1 DEF Followed
    <3> QED
      BY <3>1, <3>2
  <2>8. Followed(u, a)'
    BY <1>6, <2>6, <2>7 DEF Followed
  <2> QED
    BY <2>3, <2>8 DEF Followed, Stale, Pending
<1> QED
  BY <1>12, <1>13 DEF OldAnswersFollowed

\* Every step keeps every balance known, or under way.
LEMMA BalanceStep == BalanceInv /\ [Next]_vars => BalanceInv'
<1> SUFFICES ASSUME BalanceInv, [Next]_vars PROVE BalanceInv'
  OBVIOUS
<1>1. EventInv /\ EventInv'
  BY EventStep DEF BalanceInv
<1>2. ASSUME ToldFresh, UNCHANGED <<balance, balances, orders, queries, lost>>
      PROVE  NothingFromTheFuture' /\ OldAnswersFollowed'
  BY <1>1, <1>2, FreshFollowed
<1>3. CASE Client
  <2>1. PICK p \in Slots :
           \/ Accept(p) \/ Close(p)
           \/ \E u \in Users : SendAuthRequest(p, u)
           \/ \E kind \in Kinds : Subscribing(p, kind)
    BY <1>3 DEF Client, Subscribing
  <2>2. ToldFresh
    <3>1. CASE \E u \in Users : SendAuthRequest(p, u)
      BY <3>1 DEF SendAuthRequest, session, ToldFresh
    <3> QED
      BY <1>1, <2>1, <3>1, AcceptTold, CloseTold, SubscriptionEvents
  <2>3. UNCHANGED <<balance, balances, orders, queries, lost>>
    BY <2>1 DEF Accept, Close, SendAuthRequest, Subscribing, OnMethodSubscribe, OnMethodSubscribeInvalid,
                OnMethodUnsubscribe, engine, topics, ghosts
  <2> QED
    BY <1>1, <1>2, <2>2, <2>3 DEF BalanceInv
<1>4. CASE Authority
  <2>1. ToldFresh
    BY <1>1, <1>4, AuthorityTold
  <2>2. UNCHANGED <<balance, balances, orders, queries, lost>>
    BY <1>4 DEF Authority, OnResult, OnResultError, engine, topics, ghosts
  <2> QED
    BY <1>1, <1>2, <2>1, <2>2 DEF BalanceInv
<1>5. CASE Matchengine
  BY <1>1, <1>5, MatchengineFollowed DEF BalanceInv
<1>6. CASE Pushes
  BY <1>1, <1>6, BalancesMessageFollowed, EngineAnswersFollowed, OnTimeoutFollowed,
     OrdersMessageFollowed, QueryReplyFollowed DEF BalanceInv, Pushes
<1>7. CASE UNCHANGED vars
  <2>1. ToldFresh /\ UNCHANGED <<balance, balances, orders, queries, lost>>
    BY <1>7 DEF vars, session, engine, topics, ghosts, ToldFresh
  <2> QED
    BY <1>1, <1>2, <2>1 DEF BalanceInv
<1> QED
  BY <1>3, <1>4, <1>5, <1>6, <1>7 DEF Next

\* Nobody has been told of a balance at first.
LEMMA InitBalances == Init => BalanceInv
<1> SUFFICES ASSUME Init PROVE BalanceInv
  OBVIOUS
<1>1. \A p \in Slots : DOMAIN told[p] = {}
  BY DEF Init, Nothing
<1>2. DOMAIN queries = {}
  BY DEF Init
<1>3. NothingFromTheFuture /\ OldAnswersFollowed
  BY <1>1, <1>2 DEF NothingFromTheFuture, OldAnswersFollowed, Behind
<1> QED
  BY <1>3, InitEvents DEF BalanceInv

\* A client that has an old balance has a message about it coming, or a query
\* whose answer is the balance, unless an answer was lost.
THEOREM EveryBalanceIsUnderWay == Spec => []BalanceUnderWay
<1>1. BalanceInv => BalanceUnderWay
  <2> SUFFICES ASSUME BalanceInv, NEW p \in Slots, NEW a \in Assets, Behind(p, a)
               PROVE  LET u == user[p]
                      IN  \/ \E i \in DOMAIN balances : balances[i] = <<u, a>>
                          \/ \E i \in DOMAIN orders : /\ orders[i].user = u
                                                      /\ a \in Range(Traded[orders[i].market])
                          \/ \E i \in DOMAIN queries :
                                /\ queries[i].user = u /\ queries[i].asset = a
                                /\ queries[i].value \in {Unanswered, balance[<<u, a>>]}
                          \/ <<u, a>> \in lost
    BY DEF BalanceUnderWay
  <2>1. Pending(user[p], a, 0) \/ <<user[p], a>> \in lost
    BY DEF BalanceInv, OldAnswersFollowed, Followed
  <2> QED
    BY <2>1 DEF Pending
<1> QED
  BY <1>1, InitBalances, BalanceStep, PTL DEF Spec
==============================================================================
