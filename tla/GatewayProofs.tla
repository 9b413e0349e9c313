---------------------------- MODULE GatewayProofs ----------------------------
(***************************************************************************)
(* What is proved of the fronts (module Gateway) for every value of the    *)
(* constants: that they implement AnswerService, and that a client who     *)
(* asks about a market is never sent older data than was sent before.      *)
(*                                                                         *)
(* Both rest on one inductive invariant: a state of the table stands for   *)
(* one request that is not answered, and a packet whose sequence number is *)
(* in the table stands for that request.  It holds while no id is given    *)
(* out that a packet still carries (no "stale_id" in Faults).              *)
(***************************************************************************)
EXTENDS Gateway, SequenceTheorems, WellFoundedInduction, TLAPS

-----------------------------------------------------------------------------
(* The inductive invariant. *)

Questions == {<<m, u>> : m \in UNION {p.methods : p \in Plans}, u \in Users \cup {None}}
Versions == Nat \cup {NoData, Refusal}
Packet == [seq : 1 .. IdSpace - 1, n : Nat, ver : Versions]
Entry == [pkg : Packet, ses : Nat]
OneAnswer == [to : Nat, about : Questions \cup {Error}, ver : Versions]
Replies == {<<>>} \cup {<<a>> : a \in OneAnswer}

ClientsOK ==
    /\ plan \in Plans
    /\ idCount \in Nat
    /\ ses \in [Slots -> 0 .. idCount]
    /\ \A s, r \in Slots : ses[s] = ses[r] /\ ses[s] # 0 => s = r
    /\ user \in [Slots -> Users \cup {None}]

RequestsOK ==
    /\ asked \in Seq([by : Nat, about : Questions])
    /\ answer \in Seq(Replies)
    /\ Len(answer) = Len(asked)

\* A state stands for one request that has no answer yet, of its own session.
TableOK ==
    /\ idStart \in 0 .. IdSpace - 1
    /\ DOMAIN table \subseteq 1 .. IdSpace - 1
    /\ \A i \in DOMAIN table :
          /\ table[i] \in [slot : Slots, ses : Nat, n : 1 .. Len(asked)]
          /\ answer[table[i].n] = <<>>
          /\ asked[table[i].n].by = table[i].ses
    /\ \A i, j \in DOMAIN table : table[i].n = table[j].n => i = j

\* A packet whose sequence number is in use is about the request of that state.
Fits(p) ==
    /\ p.n \in 1 .. Len(asked)
    /\ p.seq \in DOMAIN table => table[p.seq].n = p.n

\* The queue of packets q holds only such packets.
AllFit(q) == \A b \in Services : \A i \in 1 .. Len(q[b]) : Fits(q[b][i])

LinksOK ==
    /\ up \in [Services -> BOOLEAN] /\ drops \in [Services -> Nat]
    /\ toService \in [Services -> Seq(Packet)]
    /\ fromService \in [Services -> Seq(Packet)]
    /\ AllFit(toService) /\ AllFit(fromService)

\* A job of an earlier connection is never answered on a later one.
JobFits(e) ==
    /\ e.ses <= drops["readhistory"] \/ e.ses = rhSes
    /\ Answers(e) => Fits(e.pkg)

JobsOK ==
    /\ rhSes \in {0, drops["readhistory"] + 1}
    /\ request \in Seq(Entry) /\ reply \in Seq(Entry)
    /\ running \in [Thread -> Entry \cup {NoJob}]
    /\ \A i \in 1 .. Len(request) : JobFits(request[i])
    /\ \A i \in 1 .. Len(reply) : JobFits(reply[i])
    /\ \A t \in Thread : running[t] # NoJob => JobFits(running[t])

DataOK == data \in Nat /\ \A m \in DOMAIN cache : cache[m].ver \in Versions

IInv == ClientsOK /\ RequestsOK /\ TableOK /\ LinksOK /\ JobsOK /\ DataOK

-----------------------------------------------------------------------------
(* About the operators of the model. *)

\* Setting x leaves the other arguments alone; leaving x out, too.
LEMMA WithProperties ==
    ASSUME NEW f, NEW x, NEW v
    PROVE  /\ DOMAIN With(f, x, v) = DOMAIN f \cup {x}
           /\ With(f, x, v)[x] = v
           /\ \A y \in DOMAIN f : y # x => With(f, x, v)[y] = f[y]
           /\ DOMAIN Without(f, x) = DOMAIN f \ {x}
           /\ \A y \in DOMAIN f \ {x} : Without(f, x)[y] = f[y]
BY DEF With, Without

\* nw_state finds an id that is free when there is one: of the free ids one is the
\* first that counting on from id_start reaches.
LEMMA AvailableIdIsFree ==
    ASSUME TableOK, FreeIds # {}
    PROVE  /\ GetAvailableId \in FreeIds
           /\ GetAvailableId \in 1 .. IdSpace - 1 /\ GetAvailableId \notin DOMAIN table
<1> DEFINE distances == {Ahead(i) : i \in FreeIds}
<1>1. \A i \in FreeIds : Ahead(i) \in Nat
  <2>1. SUFFICES ASSUME NEW i \in FreeIds PROVE Ahead(i) \in Nat
    OBVIOUS
  <2>2. i + IdSpace - idStart - 1 \in Nat /\ IdSpace \in Nat \ {0}
    BY GatewayAssumption DEF FreeIds, TableOK
  <2>3. QED
    BY <2>2 DEF Ahead
<1>2. PICK d \in distances : \A e \in distances : ~(<<e, d>> \in OpToRel(<, Nat))
  <2>1. distances \subseteq Nat /\ distances # {}
    BY <1>1
  <2>2. QED
    BY <2>1, NatLessThanWellFounded, WFMin
<1>3. PICK i \in FreeIds : d = Ahead(i)
  OBVIOUS
<1>4. ASSUME NEW j \in FreeIds
      PROVE  Ahead(i) <= Ahead(j)
  <2>1. Ahead(i) \in Nat /\ Ahead(j) \in Nat
    BY <1>1
  <2>2. <<Ahead(j), Ahead(i)>> \notin OpToRel(<, Nat)
    BY <1>2, <1>3
  <2>3. ~(Ahead(j) < Ahead(i))
    BY <2>1, <2>2 DEF OpToRel
  <2>4. QED
    BY <2>1, <2>3
<1>5. QED
  BY <1>4 DEF GetAvailableId, FreeIds

-----------------------------------------------------------------------------
(* What the steps keep. *)

\* Requests are only added, and states only removed.
OnlyShrinks ==
    /\ Len(asked') \in Nat /\ Len(asked) \in Nat /\ Len(asked) <= Len(asked')
    /\ \A i \in DOMAIN table' : i \in DOMAIN table /\ table'[i] = table[i]

\* Then a packet that fits goes on fitting, and so does a job.
LEMMA FitsStays ==
    ASSUME OnlyShrinks, NEW p, Fits(p)
    PROVE  p.n \in 1 .. Len(asked') /\ (p.seq \in DOMAIN table' => table'[p.seq].n = p.n)
BY DEF OnlyShrinks, Fits

\* A request that is answered leaves the packets under way as they fit.
LEMMA LinksKept ==
    ASSUME LinksOK, OnlyShrinks, UNCHANGED <<up, drops, toService, fromService>>
    PROVE  LinksOK'
BY FitsStays DEF LinksOK, AllFit, Fits

\* A request that is answered leaves the jobs of readhistory as they fit.
LEMMA JobsKept ==
    ASSUME JobsOK, OnlyShrinks, UNCHANGED jobVars, UNCHANGED <<rhSes, drops>>
    PROVE  JobsOK'
BY FitsStays DEF JobsOK, JobFits, Fits, jobVars, Answers

\* The first states of the model.
LEMMA InitInv == Init => IInv
<1> SUFFICES ASSUME Init PROVE IInv
  OBVIOUS
<1>1. ClientsOK /\ RequestsOK
  BY DEF Init, ClientsOK, RequestsOK
<1>2. TableOK
  BY GatewayAssumption DEF Init, TableOK
<1>3. LinksOK
  BY DEF Init, LinksOK, AllFit
<1>4. JobsOK
  BY DEF Init, JobInit, JobsOK, Services
<1>5. DataOK
  BY DEF Init, DataOK
<1>6. QED
  BY <1>1, <1>2, <1>3, <1>4, <1>5 DEF IInv

\* The clients' connections: only a session object changes.
LEMMA ClientStep ==
    ASSUME IInv, NEW s \in Slots,
           Accept(s) \/ Close(s) \/ \E u \in Users : Authenticate(s, u)
    PROVE  IInv'
<1>1. UNCHANGED stateVars /\ UNCHANGED linkVars /\ UNCHANGED jobVars
  BY DEF Accept, Close, Authenticate
<1>2. ClientsOK'
  BY DEF Accept, Close, Authenticate, IInv, ClientsOK
<1>3. RequestsOK' /\ TableOK' /\ OnlyShrinks
  BY <1>1 DEF stateVars, IInv, RequestsOK, TableOK, OnlyShrinks
<1>4. LinksOK' /\ JobsOK'
  BY <1>1, <1>3, LinksKept, JobsKept DEF linkVars, IInv
<1>5. DataOK'
  BY <1>1 DEF stateVars, IInv, DataOK, Accept, Close, Authenticate
<1>6. QED
  BY <1>2, <1>3, <1>4, <1>5 DEF IInv

\* A request that is answered at once or not at all: only asked and answer grow.
LEMMA AskedKeeps ==
    ASSUME IInv, NEW s \in Slots, NEW m \in plan.methods,
           NEW now \in Replies, Asked(s, m, now)
    PROVE  /\ RequestsOK'
           /\ Len(asked') = Len(asked) + 1
           /\ \A n \in 1 .. Len(asked) : asked'[n] = asked[n] /\ answer'[n] = answer[n]
           /\ AboutOf(s, m) \in Questions
           /\ asked'[Len(asked')] = [by |-> ses[s], about |-> AboutOf(s, m)]
           /\ answer'[Len(asked')] = now
<1>1. AboutOf(s, m) \in Questions
  BY DEF IInv, ClientsOK, AboutOf, Questions
<1>2. [by |-> ses[s], about |-> AboutOf(s, m)] \in [by : Nat, about : Questions]
  BY <1>1 DEF IInv, ClientsOK
<1>3. QED
  BY <1>1, <1>2, AppendProperties DEF Asked, IInv, RequestsOK

\* A request that needs no service (a cached page, an error, a method of the front itself).
LEMMA AnsweredAtOnceStep ==
    ASSUME IInv, NEW s \in Slots, NEW m \in plan.methods,
           NEW now \in Replies, Asked(s, m, now),
           UNCHANGED <<table, idStart, cache, linkVars, clientVars, jobVars, data>>
    PROVE  IInv'
<1>1. ClientsOK' /\ DataOK'
  BY DEF IInv, ClientsOK, DataOK, clientVars
<1>2. /\ RequestsOK' /\ Len(asked') = Len(asked) + 1
      /\ \A n \in 1 .. Len(asked) : asked'[n] = asked[n] /\ answer'[n] = answer[n]
      /\ asked'[Len(asked')] = [by |-> ses[s], about |-> AboutOf(s, m)]
      /\ answer'[Len(asked')] = now
  BY AskedKeeps
<1>3. RequestsOK' /\ OnlyShrinks
  BY <1>2 DEF OnlyShrinks, IInv, RequestsOK
<1>4. TableOK'
  <2>1. table' = table /\ idStart' = idStart
    OBVIOUS
  <2>2. \A i \in DOMAIN table : table[i].n \in 1 .. Len(asked)
    BY DEF IInv, TableOK
  <2>3. \A i \in DOMAIN table : /\ asked'[table[i].n] = asked[table[i].n]
                               /\ answer'[table[i].n] = answer[table[i].n]
    BY <1>2, <2>2
  <2>4. \A i \in DOMAIN table : table[i] \in [slot : Slots, ses : Nat, n : 1 .. Len(asked')]
    BY <1>2, <1>3 DEF IInv, TableOK, RequestsOK
  <2>5. QED
    BY <2>1, <2>3, <2>4 DEF IInv, TableOK
<1>5. LinksOK' /\ JobsOK'
  BY <1>3, LinksKept, JobsKept DEF IInv, linkVars
<1>6. QED
  BY <1>1, <1>3, <1>4, <1>5 DEF IInv

\* The packets on the way are those of the queues and of the jobs to be answered.
LEMMA InFlightMembers ==
    /\ \A b \in Services : \A k \in DOMAIN toService[b] : toService[b][k] \in InFlight
    /\ \A b \in Services : \A k \in DOMAIN fromService[b] : fromService[b][k] \in InFlight
    /\ \A e \in Unfinished : Answers(e) => e.pkg \in InFlight
<1>1. \A b \in Services :
          Packets(toService[b]) \subseteq InFlight /\ Packets(fromService[b]) \subseteq InFlight
  <2> DEFINE carried(b) == Packets(toService[b]) \cup Packets(fromService[b])
  <2>1. (UNION {carried(b) : b \in Services}) \subseteq InFlight
    BY DEF InFlight
  <2>2. \A b \in Services : carried(b) \in {carried(c) : c \in Services}
    OBVIOUS
  <2> HIDE DEF carried
  <2>3. \A b \in Services : carried(b) \subseteq InFlight
    BY <2>1, <2>2
  <2>4. QED
    BY <2>3 DEF carried
<1>2. JobPackets \subseteq InFlight
  BY DEF InFlight
<1>3. \A e \in Unfinished : Answers(e) => e.pkg \in JobPackets
  BY DEF JobPackets
<1>4. QED
  BY <1>1, <1>2, <1>3 DEF Packets

\* A request that goes to a service: the id it gets is carried by no packet.
LEMMA ForwardStep ==
    ASSUME "stale_id" \notin Faults, IInv, NEW s \in Slots, NEW m \in plan.methods,
           ses[s] # 0, Forward(s, m), UNCHANGED <<clientVars, jobVars, data>>
    PROVE  IInv'
<1> DEFINE i == GetAvailableId
           n == Len(asked')
           p == [seq |-> i, n |-> n, ver |-> NoData]
           b == Service(m)
<1>1. i \in 1 .. IdSpace - 1 /\ i \notin DOMAIN table /\ i \notin StaleIds /\ idStart' = i
  BY AvailableIdIsFree DEF Forward, IInv, StateAdd
<1>2. \A q \in InFlight : q.seq # i
  BY <1>1 DEF StaleIds
<1> PICK now \in Replies : now = <<>>
  BY DEF Replies
<1>3. /\ RequestsOK' /\ Len(asked') = Len(asked) + 1
      /\ \A k \in 1 .. Len(asked) : asked'[k] = asked[k] /\ answer'[k] = answer[k]
      /\ asked'[Len(asked')] = [by |-> ses[s], about |-> AboutOf(s, m)]
      /\ answer'[Len(asked')] = now
  <2>1. Asked(s, m, now)
    BY DEF Forward
  <2>2. QED
    BY <2>1, AskedKeeps
<1>4. /\ DOMAIN table' = DOMAIN table \cup {i}
      /\ table'[i] = [slot |-> s, ses |-> ses[s], n |-> n]
      /\ \A j \in DOMAIN table : table'[j] = table[j]
  BY <1>1 DEF Forward, StateAdd, With
<1>5. ClientsOK' /\ DataOK'
  BY DEF IInv, ClientsOK, DataOK, clientVars, Forward, Without
<1>6. RequestsOK' /\ n = Len(asked) + 1 /\ n \in Nat
  BY <1>3 DEF IInv, RequestsOK
<1>7. TableOK'
  <2>1. table'[i] \in [slot : Slots, ses : Nat, n : 1 .. Len(asked')]
    BY <1>4, <1>6 DEF IInv, ClientsOK
  <2>2. answer'[n] = <<>> /\ asked'[n].by = ses[s]
    BY <1>3
  <2>3. ASSUME NEW j \in DOMAIN table
        PROVE  /\ table'[j] \in [slot : Slots, ses : Nat, n : 1 .. Len(asked')]
               /\ answer'[table'[j].n] = <<>> /\ asked'[table'[j].n].by = table'[j].ses
               /\ table'[j].n # n
    BY <1>3, <1>4, <1>6 DEF IInv, TableOK, RequestsOK
  <2>4. \A j, k \in DOMAIN table' : table'[j].n = table'[k].n => j = k
    BY <1>4, <2>3 DEF IInv, TableOK
  <2>5. QED
    BY <1>1, <1>4, <2>1, <2>2, <2>3, <2>4 DEF TableOK, IInv
<1>8. \A q \in InFlight : Fits(q) =>
          q.n \in 1 .. Len(asked') /\ (q.seq \in DOMAIN table' => table'[q.seq].n = q.n)
  BY <1>2, <1>4, <1>6 DEF Fits, IInv, RequestsOK
<1>9. LinksOK'
  <2>1. p \in Packet /\ b \in Services
    BY <1>1, <1>6 DEF Packet, Versions, Forward, IInv, LinksOK, Service, HttpHandler,
       WsHandler, Services, KlineQuery, DepthQuery, PriceQuery, StateQuery, TodayQuery,
       DealsQuery, OrderQuery, OrderHistory, AssetQuery, AssetHistory
  <2>2. toService' = [toService EXCEPT ![b] = Append(@, p)]
        /\ UNCHANGED <<up, drops, fromService, rhSes>>
    BY <1>1 DEF Forward, SendTo
  <2>3. \A c \in Services : \A k \in 1 .. Len(toService[c]) : toService[c][k] \in InFlight
    BY InFlightMembers DEF IInv, LinksOK
  <2>4. \A c \in Services : \A k \in 1 .. Len(fromService[c]) : fromService[c][k] \in InFlight
    BY InFlightMembers DEF IInv, LinksOK
  <2>5. AllFit(fromService)'
    BY <1>8, <2>2, <2>4 DEF AllFit, Fits, IInv, LinksOK
  <2>6. toService' \in [Services -> Seq(Packet)]
    BY <2>1, <2>2 DEF IInv, LinksOK
  <2>7. ASSUME NEW c \in Services, NEW k \in 1 .. Len(toService'[c])
        PROVE  Fits(toService[c][k])'
    <3>1. CASE c = b /\ k = Len(toService[b]) + 1
      <4>1. toService'[c][k] = p
        BY <2>1, <2>2, <3>1 DEF IInv, LinksOK
      <4>2. QED
        BY <4>1, <1>4, <1>6 DEF Fits
    <3>2. CASE ~(c = b /\ k = Len(toService[b]) + 1)
      <4>1. k \in 1 .. Len(toService[c]) /\ toService'[c][k] = toService[c][k]
        BY <2>1, <2>2, <3>2 DEF IInv, LinksOK
      <4>2. QED
        BY <4>1, <1>8, <2>3 DEF IInv, LinksOK, AllFit, Fits
    <3>3. QED
      BY <3>1, <3>2
  <2>8. QED
    BY <2>2, <2>5, <2>6, <2>7 DEF LinksOK, AllFit, IInv
<1>10. JobsOK'
  <2>1. UNCHANGED jobVars /\ UNCHANGED <<rhSes, drops>>
    BY DEF Forward, SendTo
  <2>2. \A k \in 1 .. Len(request) : Answers(request[k]) => request[k].pkg \in InFlight
    BY InFlightMembers DEF Unfinished, IInv, JobsOK
  <2>3. \A k \in 1 .. Len(reply) : Answers(reply[k]) => reply[k].pkg \in InFlight
    BY InFlightMembers DEF Unfinished, IInv, JobsOK
  <2>4. \A t \in Thread : running[t] # NoJob /\ Answers(running[t])
                              => running[t].pkg \in InFlight
    BY InFlightMembers DEF Unfinished, IInv, JobsOK
  <2>5. QED
    BY <1>8, <2>1, <2>2, <2>3, <2>4 DEF IInv, JobsOK, JobFits, Fits, Answers, jobVars
<1>11. QED
  BY <1>5, <1>6, <1>7, <1>9, <1>10 DEF IInv

\* on_http_request and on_message.
LEMMA RequestStep ==
    ASSUME "stale_id" \notin Faults, IInv, NEW s \in Slots, NEW m \in plan.methods,
           OnRequest(s, m)
    PROVE  IInv'
<1>1. ses[s] # 0 /\ UNCHANGED <<clientVars, jobVars, data>>
  BY DEF OnRequest
<1>2. ses[s] \in Nat /\ AboutOf(s, m) \in Questions
  BY DEF IInv, ClientsOK, AboutOf, Questions
<1>3. <<ErrorTo(ses[s])>> \in Replies /\ <<>> \in Replies
  BY <1>2 DEF Replies, OneAnswer, ErrorTo, Versions
<1>4. CASE UnknownMethod(s, m)
  BY <1>1, <1>3, <1>4, AnsweredAtOnceStep DEF UnknownMethod
<1>5. CASE Refuse(s, m)
  BY <1>1, <1>3, <1>5, AnsweredAtOnceStep DEF Refuse
<1>6. CASE FromCache(s, m)
  <2>1. <<DataTo(ses[s], AboutOf(s, m), cache[m].ver)>> \in Replies
    BY <1>2, <1>6 DEF FromCache, DataTo, Replies, OneAnswer, IInv, DataOK
  <2>2. QED
    BY <1>1, <1>6, <2>1, AnsweredAtOnceStep DEF FromCache
<1>7. CASE Forward(s, m)
  BY <1>1, <1>7, ForwardStep
<1>8. QED
  BY <1>4, <1>5, <1>6, <1>7 DEF OnRequest

\* A state is answered, if at all, once, and removed.
LEMMA AnswerOneStep ==
    ASSUME IInv, NEW i \in DOMAIN table, NEW now \in OneAnswer,
           answer' = (IF Asker(table[i])
                      THEN [answer EXCEPT ![table[i].n] = Append(@, now)] ELSE answer),
           StateDel(i), UNCHANGED asked
    PROVE  /\ RequestsOK' /\ TableOK' /\ OnlyShrinks
           /\ answer' = IF Asker(table[i]) THEN [answer EXCEPT ![table[i].n] = <<now>>]
                                           ELSE answer
<1> DEFINE n == table[i].n
<1>1. n \in 1 .. Len(asked) /\ answer[n] = <<>> /\ Len(answer) = Len(asked) /\ Len(asked) \in Nat
  BY DEF IInv, TableOK, RequestsOK
<1>2. answer' = IF Asker(table[i]) THEN [answer EXCEPT ![n] = <<now>>] ELSE answer
  <2>1. Append(answer[n], now) = <<now>>
    BY <1>1
  <2>2. QED
    BY <2>1
<1>3. <<now>> \in Replies
  BY DEF Replies
<1>4. RequestsOK'
  BY <1>1, <1>2, <1>3 DEF IInv, RequestsOK
<1>5. /\ DOMAIN table' = DOMAIN table \ {i} /\ idStart' = idStart
      /\ \A j \in DOMAIN table' : table'[j] = table[j]
  BY DEF StateDel, Without
<1>6. OnlyShrinks
  BY <1>1, <1>5 DEF OnlyShrinks
<1>7. \A j \in DOMAIN table' : answer'[table'[j].n] = answer[table[j].n]
  BY <1>1, <1>2, <1>5 DEF IInv, TableOK, RequestsOK
<1>8. TableOK'
  BY <1>5, <1>7 DEF IInv, TableOK
<1>9. QED
  BY <1>2, <1>4, <1>6, <1>8

\* on_backend_recv_pkg: the packet is about the request whose state it finds.
LEMMA RecvEffect ==
    ASSUME IInv, NEW b \in Services, OnBackendRecvPkg(b)
    PROVE  /\ Head(fromService[b]) \in Packet /\ Fits(Head(fromService[b]))
           /\ \/ UNCHANGED stateVars
              \/ \E i \in DOMAIN table, v \in Versions :
                    LET now == DataTo(table[i].ses, asked[table[i].n].about, v)
                    IN  /\ i = Head(fromService[b]).seq /\ v = Head(fromService[b]).ver
                        /\ now \in OneAnswer
                        /\ answer' = IF Asker(table[i])
                                     THEN [answer EXCEPT ![table[i].n] = Append(@, now)] ELSE answer
                        /\ cache' = IF IsCached(asked[table[i].n].about[1]) /\ v # Refusal
                                    THEN ToCache(asked[table[i].n].about[1], v) ELSE cache
                        /\ StateDel(i) /\ UNCHANGED asked
<1> DEFINE p == Head(fromService[b])
<1>1. p \in Packet /\ Fits(p)
  <2>1. fromService[b] # <<>> /\ fromService[b] \in Seq(Packet)
    BY DEF OnBackendRecvPkg, IInv, LinksOK
  <2>2. p = fromService[b][1] /\ 1 \in 1 .. Len(fromService[b])
    BY <2>1
  <2>3. QED
    BY <2>1, <2>2 DEF IInv, LinksOK, AllFit
<1>2. CASE p.seq \notin DOMAIN table
  BY <1>1, <1>2 DEF OnBackendRecvPkg
<1>3. CASE p.seq \in DOMAIN table
  <2> DEFINE e == table[p.seq]
             about == asked[p.n].about
             now == DataTo(e.ses, about, p.ver)
  <2>1. e.n = p.n /\ p.ver \in Versions /\ p.n \in 1 .. Len(asked) /\ e.ses \in Nat
    BY <1>1, <1>3 DEF Fits, Packet, IInv, TableOK
  <2>2. about \in Questions
    <3>1. asked \in Seq([by : Nat, about : Questions])
      BY DEF IInv, RequestsOK
    <3>2. asked[p.n] \in [by : Nat, about : Questions]
      BY <2>1, <3>1, ElementOfSeq
    <3>3. QED
      BY <3>2
  <2>3. now \in OneAnswer
    BY <2>1, <2>2 DEF DataTo, OneAnswer
  <2>4. Asker(e) => DataTo(ses[e.slot], about, p.ver) = now
    BY DEF Asker
  <2>5. answer' = IF Asker(e) THEN [answer EXCEPT ![e.n] = Append(@, now)] ELSE answer
    BY <1>3, <2>1, <2>4 DEF OnBackendRecvPkg
  <2>6. /\ cache' = IF IsCached(about[1]) /\ p.ver # Refusal
                    THEN ToCache(about[1], p.ver) ELSE cache
        /\ StateDel(p.seq) /\ UNCHANGED asked
    BY <1>3, <2>1 DEF OnBackendRecvPkg
  <2>7. QED
    BY <1>1, <1>3, <2>1, <2>3, <2>5, <2>6
<1>4. QED
  BY <1>2, <1>3

\* Taking the first packet away leaves packets that fit.
LEMMA TailFits ==
    ASSUME NEW q \in [Services -> Seq(Packet)], AllFit(q), NEW b \in Services, q[b] # <<>>
    PROVE  /\ [q EXCEPT ![b] = Tail(@)] \in [Services -> Seq(Packet)]
           /\ AllFit([q EXCEPT ![b] = Tail(@)])
<1>1. \A i \in 1 .. Len(Tail(q[b])) : Tail(q[b])[i] = q[b][i + 1] /\ i + 1 \in 1 .. Len(q[b])
  OBVIOUS
<1>2. QED
  BY <1>1 DEF AllFit

\* on_backend_recv_pkg takes a packet: it answers the request its id names, or is passed over.
LEMMA RecvStep ==
    ASSUME IInv, NEW b \in Services, OnBackendRecvPkg(b)
    PROVE  IInv' /\ OnlyShrinks
<1>1. RequestsOK' /\ TableOK' /\ OnlyShrinks /\ DataOK'
  <2>1. CASE UNCHANGED stateVars
    <3>1. UNCHANGED <<asked, answer, table, idStart, cache, data>>
      BY <2>1 DEF stateVars, OnBackendRecvPkg
    <3>2. RequestsOK' /\ OnlyShrinks
      BY <3>1 DEF IInv, RequestsOK, OnlyShrinks
    <3>3. TableOK' /\ DataOK'
      BY <3>1 DEF IInv, TableOK, DataOK
    <3>4. QED
      BY <3>2, <3>3
  <2>2. CASE ~ UNCHANGED stateVars
    <3>1. PICK i \in DOMAIN table, v \in Versions, now \in OneAnswer :
             /\ answer' = (IF Asker(table[i])
                           THEN [answer EXCEPT ![table[i].n] = Append(@, now)] ELSE answer)
             /\ cache' = cache \/ cache' = ToCache(asked[table[i].n].about[1], v)
             /\ StateDel(i) /\ UNCHANGED asked
      BY <2>2, RecvEffect
    <3>2. RequestsOK' /\ TableOK' /\ OnlyShrinks
      BY <3>1, AnswerOneStep
    <3>3. DataOK'
      <4>1. data' = data
        BY DEF OnBackendRecvPkg
      <4>2. \A m : ToCache(m, v)[m].ver = v
        BY DEF ToCache, With
      <4>3. \A m : \A k \in DOMAIN ToCache(m, v) : k # m =>
                k \in DOMAIN cache /\ ToCache(m, v)[k] = cache[k]
        BY DEF ToCache, With
      <4>4. QED
        BY <3>1, <4>1, <4>2, <4>3 DEF IInv, DataOK
    <3>4. QED
      BY <3>2, <3>3
  <2>3. QED
    BY <2>1, <2>2
<1>2. ClientsOK'
  BY DEF IInv, ClientsOK, OnBackendRecvPkg, clientVars
<1>3. JobsOK'
  BY <1>1, JobsKept DEF IInv, OnBackendRecvPkg
<1>4. LinksOK'
  <2>1. fromService' = [fromService EXCEPT ![b] = Tail(@)] /\ fromService[b] # <<>>
    BY DEF OnBackendRecvPkg
  <2>2. fromService' \in [Services -> Seq(Packet)] /\ AllFit(fromService')
    BY <2>1, TailFits DEF IInv, LinksOK
  <2>3. AllFit(fromService)'
    BY <1>1, <2>2, FitsStays DEF AllFit, Fits
  <2>4. AllFit(toService)' /\ UNCHANGED <<up, drops, toService>>
    BY <1>1, FitsStays DEF AllFit, Fits, IInv, LinksOK, OnBackendRecvPkg
  <2>5. QED
    BY <2>2, <2>3, <2>4 DEF IInv, LinksOK
<1>5. QED
  BY <1>1, <1>2, <1>3, <1>4 DEF IInv

\* on_timeout gives a request up with an error and frees its id.
LEMMA TimeoutStep ==
    ASSUME IInv, NEW i, OnTimeout(i)
    PROVE  IInv' /\ OnlyShrinks
<1>1. i \in DOMAIN table /\ StateDel(i)
      /\ UNCHANGED <<asked, cache, clientVars, linkVars, jobVars, data>>
  BY DEF OnTimeout
<1>2. PICK now \in OneAnswer : now = ErrorTo(table[i].ses)
  <2>1. table[i].ses \in Nat
    BY <1>1 DEF IInv, TableOK
  <2>2. QED
    BY <2>1 DEF ErrorTo, OneAnswer, Versions
<1>3. answer' = IF Asker(table[i])
                THEN [answer EXCEPT ![table[i].n] = Append(@, now)] ELSE answer
  BY <1>2 DEF OnTimeout, Asker
<1>4. RequestsOK' /\ TableOK' /\ OnlyShrinks
  BY <1>1, <1>3, AnswerOneStep
<1>5. ClientsOK' /\ DataOK'
  BY <1>1 DEF IInv, ClientsOK, DataOK, clientVars
<1>6. LinksOK' /\ JobsOK'
  BY <1>1, <1>4, LinksKept, JobsKept DEF IInv, linkVars
<1>7. QED
  BY <1>4, <1>5, <1>6 DEF IInv

\* Steps that touch neither the clients nor the requests.
LEMMA NothingAnswered ==
    ASSUME IInv, UNCHANGED <<clientVars, asked, answer, table, idStart>>
    PROVE  ClientsOK' /\ RequestsOK' /\ TableOK' /\ OnlyShrinks
<1>1. ClientsOK' /\ RequestsOK'
  BY DEF IInv, ClientsOK, RequestsOK, clientVars
<1>2. TableOK'
  BY DEF IInv, TableOK
<1>3. OnlyShrinks
  BY DEF OnlyShrinks, IInv, RequestsOK
<1>4. QED
  BY <1>1, <1>2, <1>3

\* The cache and the data of the services.
LEMMA DataStep ==
    ASSUME IInv, DataChanges \/ OnCacheTimer \/ \E m : CacheAges(m)
    PROVE  IInv'
<1>1. UNCHANGED <<clientVars, asked, answer, table, idStart>> /\ UNCHANGED linkVars
      /\ UNCHANGED jobVars
  BY DEF DataChanges, OnCacheTimer, CacheAges, stateVars
<1>2. OnlyShrinks /\ ClientsOK' /\ RequestsOK' /\ TableOK'
  BY <1>1, NothingAnswered
<1>3. LinksOK' /\ JobsOK'
  BY <1>1, <1>2, LinksKept, JobsKept DEF IInv, linkVars
<1>4. DataOK'
  <2>1. ASSUME NEW m, CacheAges(m) PROVE DataOK'
    BY <2>1 DEF IInv, DataOK, CacheAges
  <2>2. CASE DataChanges
    BY <2>2 DEF IInv, DataOK, DataChanges, stateVars
  <2>3. CASE OnCacheTimer
    BY <2>3 DEF IInv, DataOK, OnCacheTimer
  <2>4. QED
    BY <2>1, <2>2, <2>3
<1>5. QED
  BY <1>2, <1>3, <1>4 DEF IInv

\* A connection to a service breaks, or is made again.
LEMMA LinkStep ==
    ASSUME IInv, NEW b \in Services, Drop(b) \/ Reconnect(b)
    PROVE  IInv'
<1>1. UNCHANGED <<clientVars, stateVars, jobVars, data>>
  BY DEF Drop, Reconnect
<1>2. OnlyShrinks /\ ClientsOK' /\ RequestsOK' /\ TableOK' /\ DataOK'
  BY <1>1, NothingAnswered DEF stateVars, IInv, DataOK
<1>3. LinksOK'
  <2>1. CASE Drop(b)
    <3>1. up' \in [Services -> BOOLEAN] /\ drops' \in [Services -> Nat]
      BY <2>1 DEF Drop, IInv, LinksOK
    <3>2. /\ toService' \in [Services -> Seq(Packet)] /\ fromService' \in [Services -> Seq(Packet)]
          /\ \A c \in Services : toService'[c] = toService[c] \/ toService'[c] = <<>>
          /\ \A c \in Services : fromService'[c] = fromService[c] \/ fromService'[c] = <<>>
      BY <2>1 DEF Drop, IInv, LinksOK
    <3>3. AllFit(toService)'
      <4>1. SUFFICES ASSUME NEW c \in Services, NEW k \in 1 .. Len(toService'[c])
                     PROVE  Fits(toService[c][k])'
        BY DEF AllFit
      <4>2. toService'[c] = toService[c]
        BY <3>2
      <4>3. Fits(toService[c][k])
        BY <4>2 DEF IInv, LinksOK, AllFit
      <4>4. QED
        BY <1>2, <4>2, <4>3, FitsStays DEF Fits
    <3>4. AllFit(fromService)'
      <4>1. SUFFICES ASSUME NEW c \in Services, NEW k \in 1 .. Len(fromService'[c])
                     PROVE  Fits(fromService[c][k])'
        BY DEF AllFit
      <4>2. fromService'[c] = fromService[c]
        BY <3>2
      <4>3. Fits(fromService[c][k])
        BY <4>2 DEF IInv, LinksOK, AllFit
      <4>4. QED
        BY <1>2, <4>2, <4>3, FitsStays DEF Fits
    <3>5. QED
      BY <3>1, <3>2, <3>3, <3>4 DEF LinksOK
  <2>2. CASE Reconnect(b)
    <3>1. up' \in [Services -> BOOLEAN] /\ UNCHANGED <<drops, toService, fromService>>
      BY <2>2 DEF Reconnect, IInv, LinksOK
    <3>2. QED
      BY <1>2, <3>1, FitsStays DEF IInv, LinksOK, AllFit, Fits
  <2>3. QED
    BY <2>1, <2>2
<1>4. JobsOK'
  <2>1. UNCHANGED jobVars /\ UNCHANGED table /\ UNCHANGED asked
    BY <1>1 DEF stateVars
  <2>2. drops["readhistory"] \in Nat /\ drops'["readhistory"] \in Nat
    BY DEF Drop, Reconnect, IInv, LinksOK, Services
  <2>3. /\ rhSes' \in {0, drops'["readhistory"] + 1}
        /\ \A n \in Nat : n <= drops["readhistory"] \/ n = rhSes
              => /\ n <= drops'["readhistory"] \/ n = rhSes'
                 /\ rhSes' # 0 /\ rhSes' = n => rhSes # 0 /\ rhSes = n
    <3>1. rhSes \in {0, drops["readhistory"] + 1} /\ "readhistory" \in Services
      BY DEF IInv, JobsOK, Services
    <3>2. CASE Drop(b)
      BY <2>2, <3>1, <3>2 DEF Drop, IInv, LinksOK
    <3>3. CASE Reconnect(b)
      BY <2>2, <3>1, <3>3 DEF Reconnect, IInv, LinksOK
    <3>4. QED
      BY <3>2, <3>3
  <2>4. \A e \in Entry : JobFits(e) => JobFits(e)'
    BY <2>1, <2>3 DEF JobFits, Answers, Fits, Entry
  <2>5. QED
    BY <2>1, <2>3, <2>4 DEF IInv, JobsOK, jobVars, JobFits, Answers, Fits
<1>5. QED
  BY <1>2, <1>3, <1>4 DEF IInv

\* A packet that fits may be put on a queue, with another version in it.
LEMMA AppendFits ==
    ASSUME NEW q \in [Services -> Seq(Packet)], AllFit(q), NEW b \in Services,
           NEW p \in Packet, Fits(p)
    PROVE  /\ [q EXCEPT ![b] = Append(@, p)] \in [Services -> Seq(Packet)]
           /\ AllFit([q EXCEPT ![b] = Append(@, p)])
<1> DEFINE r == [q EXCEPT ![b] = Append(@, p)]
<1>1. r \in [Services -> Seq(Packet)]
  OBVIOUS
<1>2. ASSUME NEW c \in Services, NEW k \in 1 .. Len(r[c])
      PROVE  Fits(r[c][k])
  <2>1. r[c][k] = p \/ (k \in 1 .. Len(q[c]) /\ r[c][k] = q[c][k])
    OBVIOUS
  <2>2. QED
    BY <2>1 DEF AllFit
<1>3. QED
  BY <1>1, <1>2 DEF AllFit

\* The first packet of a queue, answered with version v.
LEMMA HeadFits ==
    ASSUME NEW q \in [Services -> Seq(Packet)], AllFit(q), NEW b \in Services, q[b] # <<>>,
           NEW v \in Versions
    PROVE  /\ Head(q[b]) \in Packet /\ Fits(Head(q[b]))
           /\ [Head(q[b]) EXCEPT !.ver = v] \in Packet
           /\ Fits([Head(q[b]) EXCEPT !.ver = v])
<1>1. Head(q[b]) = q[b][1] /\ 1 \in 1 .. Len(q[b]) /\ Head(q[b]) \in Packet
  OBVIOUS
<1>2. Fits(Head(q[b]))
  BY <1>1 DEF AllFit
<1>3. QED
  BY <1>1, <1>2 DEF Fits, Packet

\* A service takes the oldest packet of its link and answers it.
LEMMA ServeStep ==
    ASSUME IInv, NEW b \in Services, Serve(b)
    PROVE  IInv'
<1>1. UNCHANGED <<clientVars, stateVars, up, drops, rhSes, jobVars, data>>
  BY DEF Serve
<1>2. OnlyShrinks /\ ClientsOK' /\ RequestsOK' /\ TableOK' /\ DataOK' /\ JobsOK'
  BY <1>1, NothingAnswered, JobsKept DEF stateVars, IInv, DataOK
<1>3. PICK v \in Versions :
          /\ toService[b] # <<>>
          /\ toService' = [toService EXCEPT ![b] = Tail(@)]
          /\ fromService' = [fromService EXCEPT ![b] =
                                Append(@, [Head(toService[b]) EXCEPT !.ver = v])]
  BY DEF Serve, IInv, DataOK, Versions
<1>4. /\ toService' \in [Services -> Seq(Packet)] /\ AllFit(toService')
      /\ fromService' \in [Services -> Seq(Packet)] /\ AllFit(fromService')
  BY <1>3, TailFits, HeadFits, AppendFits DEF IInv, LinksOK
<1>5. LinksOK'
  BY <1>1, <1>4 DEF stateVars, IInv, LinksOK, AllFit, Fits
<1>6. QED
  BY <1>2, <1>5 DEF IInv

\* readhistory: jobs move from list to list, and carry the packets they were made of.
LEMMA JobsMove ==
    ASSUME IInv, UNCHANGED <<clientVars, stateVars, up, drops, rhSes, data>>,
           request' \in Seq(Entry), reply' \in Seq(Entry),
           running' \in [Thread -> Entry \cup {NoJob}],
           \A i \in 1 .. Len(request') : JobFits(request'[i]),
           \A i \in 1 .. Len(reply') : JobFits(reply'[i]),
           \A t \in Thread : running'[t] # NoJob => JobFits(running'[t])
    PROVE  ClientsOK' /\ RequestsOK' /\ TableOK' /\ DataOK' /\ JobsOK'
<1>1. ClientsOK' /\ RequestsOK' /\ TableOK' /\ DataOK'
  BY NothingAnswered DEF stateVars, IInv, DataOK
<1>2. UNCHANGED <<asked, table, rhSes, drops>>
  BY DEF stateVars
<1>3. JobsOK'
  BY <1>2 DEF IInv, JobsOK, JobFits, Answers, Fits
<1>4. QED
  BY <1>1, <1>3

\* readhistory puts a packet in the queue of its job threads (on_recv_pkg, nw_job_add).
LEMMA RHRecvStep ==
    ASSUME IInv, RHRecv
    PROVE  IInv'
<1> DEFINE b == "readhistory"
           p == Head(toService[b])
<1>1. /\ UNCHANGED <<clientVars, stateVars, up, drops, rhSes, data>>
      /\ toService[b] # <<>> /\ toService' = [toService EXCEPT ![b] = Tail(@)]
      /\ b \in Services
  BY DEF RHRecv, Services
<1>2. p \in Packet /\ Fits(p) /\ [p EXCEPT !.ver = Refusal] \in Packet
      /\ Fits([p EXCEPT !.ver = Refusal])
  BY <1>1, HeadFits DEF IInv, LinksOK, Versions
<1>3. toService' \in [Services -> Seq(Packet)] /\ AllFit(toService')
  BY <1>1, TailFits DEF IInv, LinksOK
<1>4. fromService' \in [Services -> Seq(Packet)] /\ AllFit(fromService')
  <2>1. CASE UNCHANGED fromService
    BY <2>1 DEF IInv, LinksOK
  <2>2. CASE fromService' = [fromService EXCEPT ![b] = Append(@, [p EXCEPT !.ver = Refusal])]
    BY <1>1, <1>2, <2>2, AppendFits DEF IInv, LinksOK
  <2>3. QED
    BY <2>1, <2>2 DEF RHRecv
<1>5. LinksOK'
  BY <1>1, <1>3, <1>4 DEF stateVars, IInv, LinksOK, AllFit, Fits
<1>6. ClientsOK' /\ RequestsOK' /\ TableOK' /\ DataOK' /\ JobsOK'
  <2>1. CASE UNCHANGED jobVars
    BY <1>1, <2>1, NothingAnswered, JobsKept DEF stateVars, IInv, DataOK
  <2>2. CASE Enqueue(p)
    <3> DEFINE e == [pkg |-> p, ses |-> rhSes]
    <3>1. e \in Entry /\ JobFits(e)
      BY <1>2 DEF Entry, JobFits, IInv, JobsOK, LinksOK, Services
    <3>2. request' = Append(request, e) /\ UNCHANGED <<running, reply>>
      BY <2>2 DEF Enqueue, JobAdd
    <3>3. request' \in Seq(Entry) /\ \A i \in 1 .. Len(request') : JobFits(request'[i])
      <4>1. request \in Seq(Entry) /\ \A i \in 1 .. Len(request) : JobFits(request[i])
        BY DEF IInv, JobsOK
      <4>2. request' \in Seq(Entry)
        BY <3>1, <3>2, <4>1
      <4>3. \A i \in 1 .. Len(request') :
                request'[i] = e \/ (i \in 1 .. Len(request) /\ request'[i] = request[i])
        BY <3>1, <3>2, <4>1
      <4>4. QED
        BY <3>1, <4>1, <4>2, <4>3
    <3>4. QED
      BY <1>1, <3>2, <3>3, JobsMove DEF IInv, JobsOK
  <2>3. QED
    BY <2>1, <2>2 DEF RHRecv
<1>7. QED
  BY <1>5, <1>6 DEF IInv

\* A thread of readhistory takes a job or finishes it.
LEMMA RHThreadStep ==
    ASSUME IInv, NEW t \in Thread, RHThread(t)
    PROVE  IInv'
<1>1. UNCHANGED <<clientVars, stateVars, linkVars, data>>
  BY DEF RHThread
<1>2. LinksOK'
  BY <1>1 DEF stateVars, linkVars, IInv, LinksOK, AllFit, Fits
<1>3. /\ request \in Seq(Entry) /\ reply \in Seq(Entry)
      /\ running \in [Thread -> Entry \cup {NoJob}]
      /\ \A i \in 1 .. Len(request) : JobFits(request[i])
      /\ \A i \in 1 .. Len(reply) : JobFits(reply[i])
      /\ \A u \in Thread : running[u] # NoJob => JobFits(running[u])
  BY DEF IInv, JobsOK
<1>4. ClientsOK' /\ RequestsOK' /\ TableOK' /\ DataOK' /\ JobsOK'
  <2>1. CASE TakeRequest(t)
    <3>1. /\ request # <<>> /\ UNCHANGED reply /\ request' = Tail(request)
          /\ running' = [running EXCEPT ![t] = Head(request)]
      BY <2>1 DEF TakeRequest
    <3>2. Head(request) \in Entry /\ JobFits(Head(request))
      <4>1. Head(request) = request[1] /\ 1 \in 1 .. Len(request)
        BY <1>3, <3>1
      <4>2. QED
        BY <1>3, <4>1
    <3>3. request' \in Seq(Entry) /\ \A i \in 1 .. Len(request') : JobFits(request'[i])
      <4>1. request' \in Seq(Entry)
        BY <1>3, <3>1
      <4>2. \A i \in 1 .. Len(request') :
                request'[i] = request[i + 1] /\ i + 1 \in 1 .. Len(request)
        BY <1>3, <3>1
      <4>3. QED
        BY <1>3, <4>1, <4>2
    <3>4. /\ running' \in [Thread -> Entry \cup {NoJob}]
          /\ \A u \in Thread : running'[u] # NoJob => JobFits(running'[u])
      BY <1>3, <3>1, <3>2
    <3>5. QED
      BY <1>1, <1>3, <3>1, <3>3, <3>4, JobsMove DEF linkVars
  <2>2. CASE RunJob(t, {0, Refusal})
    <3>1. PICK v \in Versions : running[t] # NoJob /\ ReturnReply(t, OnJob(running[t], v))
      BY <2>2 DEF RunJob, Versions
    <3> DEFINE e == OnJob(running[t], v)
    <3>2. e \in Entry /\ JobFits(e)
      <4>1. running[t] \in Entry /\ JobFits(running[t])
        BY <1>3, <3>1
      <4>2. QED
        BY <4>1 DEF OnJob, Entry, Packet, JobFits, Answers, Fits
    <3>3. /\ reply' = Append(reply, e) /\ UNCHANGED request
          /\ running' = [running EXCEPT ![t] = NoJob]
      BY <3>1 DEF ReturnReply
    <3> HIDE DEF e
    <3>4. reply' \in Seq(Entry) /\ \A i \in 1 .. Len(reply') : JobFits(reply'[i])
      <4>1. reply' \in Seq(Entry)
        BY <1>3, <3>2, <3>3
      <4>2. \A i \in 1 .. Len(reply') :
                reply'[i] = e \/ (i \in 1 .. Len(reply) /\ reply'[i] = reply[i])
        BY <1>3, <3>2, <3>3
      <4>3. QED
        BY <1>3, <3>2, <4>1, <4>2
    <3>5. /\ running' \in [Thread -> Entry \cup {NoJob}]
          /\ \A u \in Thread : running'[u] # NoJob => JobFits(running'[u])
      BY <1>3, <3>3
    <3>6. QED
      BY <1>1, <1>3, <3>3, <3>4, <3>5, JobsMove DEF linkVars
  <2>3. QED
    BY <2>1, <2>2 DEF RHThread
<1>5. QED
  BY <1>2, <1>4 DEF IInv

\* The loop of readhistory sends a reply, or drops one whose session is gone.
LEMMA RHLoopStep ==
    ASSUME IInv, RHLoop
    PROVE  IInv'
<1>1. CASE RHFinish
  <2> DEFINE e == Head(reply)
  <2>1. /\ UNCHANGED <<clientVars, stateVars, up, drops, toService, rhSes, data>>
        /\ reply # <<>> /\ reply' = Tail(reply) /\ UNCHANGED <<request, running>>
    BY <1>1 DEF RHFinish, TakeReply
  <2>2. e \in Entry /\ JobFits(e)
    <3>1. reply \in Seq(Entry) /\ e = reply[1] /\ 1 \in 1 .. Len(reply)
      BY <2>1 DEF IInv, JobsOK
    <3>2. QED
      BY <3>1 DEF IInv, JobsOK
  <2>3. fromService' \in [Services -> Seq(Packet)] /\ AllFit(fromService')
    <3>1. CASE ~Answers(e)
      BY <1>1, <3>1 DEF RHFinish, IInv, LinksOK
    <3>2. CASE Answers(e)
      <4>1. e.pkg \in Packet /\ Fits(e.pkg) /\ "readhistory" \in Services
        BY <2>2, <3>2 DEF Entry, JobFits, Services
      <4>2. fromService' = [fromService EXCEPT !["readhistory"] = Append(@, e.pkg)]
        BY <1>1, <3>2 DEF RHFinish
      <4>3. QED
        BY <4>1, <4>2, AppendFits DEF IInv, LinksOK
    <3>3. QED
      BY <3>1, <3>2
  <2>4. LinksOK'
    BY <2>1, <2>3 DEF stateVars, IInv, LinksOK, AllFit, Fits
  <2>5. reply' \in Seq(Entry) /\ \A i \in 1 .. Len(reply') : JobFits(reply'[i])
    <3>1. reply \in Seq(Entry) /\ \A i \in 1 .. Len(reply) : JobFits(reply[i])
      BY DEF IInv, JobsOK
    <3>2. reply' \in Seq(Entry)
      BY <2>1, <3>1
    <3>3. \A i \in 1 .. Len(reply') : reply'[i] = reply[i + 1] /\ i + 1 \in 1 .. Len(reply)
      BY <2>1, <3>1
    <3>4. QED
      BY <3>1, <3>2, <3>3
  <2>6. ClientsOK' /\ RequestsOK' /\ TableOK' /\ DataOK' /\ JobsOK'
    BY <2>1, <2>5, JobsMove DEF IInv, JobsOK
  <2>7. QED
    BY <2>4, <2>6 DEF IInv
<1>2. CASE (DrainPipe \/ NoMoreReplies) /\ UNCHANGED <<clientVars, stateVars, linkVars, data>>
  <2>1. UNCHANGED <<request, reply, running>>
    BY <1>2 DEF DrainPipe, NoMoreReplies
  <2>2. ClientsOK' /\ RequestsOK' /\ TableOK' /\ DataOK' /\ JobsOK'
    BY <1>2, <2>1, JobsMove DEF IInv, JobsOK, linkVars
  <2>3. LinksOK'
    BY <1>2 DEF stateVars, linkVars, IInv, LinksOK, AllFit, Fits
  <2>4. QED
    BY <2>2, <2>3 DEF IInv
<1>3. QED
  BY <1>1, <1>2 DEF RHLoop

\* A step that changes nothing keeps the invariant.
LEMMA StutterStep ==
    ASSUME IInv, UNCHANGED vars
    PROVE  IInv'
<1>1. UNCHANGED <<clientVars, stateVars, linkVars, jobVars, data>>
  BY DEF vars
<1>2. ClientsOK' /\ RequestsOK' /\ TableOK' /\ DataOK' /\ OnlyShrinks
  BY <1>1, NothingAnswered DEF stateVars, IInv, DataOK
<1>3. LinksOK' /\ JobsOK'
  BY <1>1, <1>2, LinksKept, JobsKept DEF linkVars, IInv
<1>4. QED
  BY <1>2, <1>3 DEF IInv

\* Every step keeps the invariant.
LEMMA InvStep == "stale_id" \notin Faults /\ IInv /\ [Next]_vars => IInv'
<1> SUFFICES ASSUME "stale_id" \notin Faults, IInv, [Next]_vars PROVE IInv'
  OBVIOUS
<1>1. CASE \E s \in Slots : Accept(s) \/ Close(s)
  BY <1>1, ClientStep
<1>2. CASE \E s \in Slots, u \in Users : Authenticate(s, u)
  BY <1>2, ClientStep
<1>3. CASE \E s \in Slots, m \in plan.methods : OnRequest(s, m)
  BY <1>3, RequestStep
<1>4. CASE \E b \in Services : Drop(b) \/ Reconnect(b) \/ Serve(b) \/ OnBackendRecvPkg(b)
  BY <1>4, LinkStep, ServeStep, RecvStep
<1>5. CASE \E i \in 1 .. IdSpace - 1 : OnTimeout(i)
  BY <1>5, TimeoutStep
<1>6. CASE (\E m \in plan.methods : CacheAges(m)) \/ OnCacheTimer \/ DataChanges
  BY <1>6, DataStep
<1>7. CASE RHRecv \/ (\E t \in Thread : RHThread(t)) \/ RHLoop
  BY <1>7, RHRecvStep, RHThreadStep, RHLoopStep
<1>8. CASE UNCHANGED vars
  BY <1>8, StutterStep
<1>9. QED
  BY <1>1, <1>2, <1>3, <1>4, <1>5, <1>6, <1>7, <1>8 DEF Next

\* The tables of the fronts, the packets of the services and the jobs of readhistory
\* (nw_state.c, ut_rpc_clt.c, nw_job.c) agree on which request each of them is about:
\* IInv holds in every state, however requests, answers, time-outs, broken connections
\* and reused session objects interleave.
THEOREM StatesAndPacketsAgree == "stale_id" \notin Faults => (Spec => []IInv)
<1> SUFFICES ASSUME "stale_id" \notin Faults PROVE Spec => []IInv
  OBVIOUS
<1>1. IInv /\ [Next]_vars => IInv'
  BY InvStep
<1>2. QED
  BY InitInv, <1>1, PTL DEF Spec

-----------------------------------------------------------------------------
(* The fronts implement AnswerService. *)

\* What the clients see of the answers, the refinement mapping.
SeenAnswers == [n \in DOMAIN answer |-> Seen(answer[n])]

\* What a client sees of an answer is whom it is for and what it is about.
LEMMA SeenProperties ==
    /\ Seen(<<>>) = <<>>
    /\ \A a : Seen(<<a>>) = <<[to |-> a.to, about |-> a.about]>>
BY DEF Seen

\* A step that changes none of what the clients see is a stuttering step.
LEMMA NothingSeen ==
    ASSUME UNCHANGED <<idCount, ses, asked, answer>>
    PROVE  UNCHANGED Promise!vars
BY DEF Promise!vars, Open, Seen

\* A front that takes a connection is a client of the abstract service that connects.
LEMMA ConnectMap ==
    ASSUME IInv, NEW s \in Slots, Accept(s)
    PROVE  Promise!Next
<1>1. /\ ses \in [Slots -> 0 .. idCount] /\ idCount \in Nat
      /\ ses[s] = 0 /\ idCount' = idCount + 1 /\ ses' = [ses EXCEPT ![s] = idCount']
      /\ UNCHANGED <<asked, answer>>
  BY DEF Accept, IInv, ClientsOK, stateVars
<1>2. Open' = Open \cup {idCount'}
  BY <1>1 DEF Open
<1>3. Promise!Connect
  BY <1>1, <1>2 DEF Promise!Connect, Seen
<1>4. QED
  BY <1>3 DEF Promise!Next

\* A session that is closed is a client of the abstract service that leaves.
LEMMA LeaveMap ==
    ASSUME IInv, NEW s \in Slots, Close(s)
    PROVE  Promise!Next
<1>1. /\ ses \in [Slots -> 0 .. idCount] /\ idCount \in Nat
      /\ \A r \in Slots : ses[s] = ses[r] => s = r
      /\ ses[s] # 0 /\ ses' = [ses EXCEPT ![s] = 0]
      /\ UNCHANGED <<idCount, asked, answer>>
  BY DEF Close, IInv, ClientsOK, stateVars
<1>2. Open' = Open \ {ses[s]} /\ ses[s] \in Open
  BY <1>1 DEF Open
<1>3. Promise!Leave(ses[s])
  BY <1>1, <1>2 DEF Promise!Leave, Seen
<1>4. QED
  BY <1>2, <1>3 DEF Promise!Next

\* What came of a request at once is what AnswerService allows.
LEMMA AskMap ==
    ASSUME IInv, NEW s \in Slots, NEW m \in plan.methods, ses[s] # 0,
           NEW now \in Replies, Asked(s, m, now), UNCHANGED <<idCount, ses>>,
           \/ now = <<>>
           \/ \E a \in {AboutOf(s, m), Error} : Seen(now) = <<[to |-> ses[s], about |-> a]>>
    PROVE  Promise!Next
<1> DEFINE q == AboutOf(s, m)
           c == ses[s]
<1>1. c \in Open /\ Open' = Open /\ q \in {<<k, u>> : k \in UNION {p.methods : p \in Plans},
                                                     u \in Users \cup {None}}
  <2>1. c \in Open /\ Open' = Open
    BY DEF Open
  <2>2. q \in Questions
    BY AskedKeeps
  <2>3. QED
    BY <2>1, <2>2 DEF Questions
<1>2. asked' = Append(asked, [by |-> c, about |-> q]) /\ answer' = Append(answer, now)
  BY DEF Asked
<1>3. answer \in Seq(Replies)
  BY DEF IInv, RequestsOK
<1>4. SeenAnswers' = Append(SeenAnswers, Seen(now))
  <2> DEFINE old == SeenAnswers
             new == Append(old, Seen(now))
  <2>1. old \in Seq({Seen(a) : a \in Replies}) /\ Len(old) = Len(answer)
    BY <1>3 DEF SeenAnswers
  <2>2. QED
    BY <1>2, <1>3, <2>1 DEF SeenAnswers
<1>5. \E then \in {<<>>} \cup {<<[to |-> c, about |-> a]>> : a \in {q, Error}} :
          SeenAnswers' = Append(SeenAnswers, then)
  BY <1>4, SeenProperties
<1>6. Promise!Ask(c, q)
  BY <1>1, <1>2, <1>5 DEF Promise!Ask, SeenAnswers, Open
<1>7. QED
  BY <1>1, <1>6 DEF Promise!Next

\* A request is asked of the abstract service, and answered there if the front answers at once.
LEMMA RequestMap ==
    ASSUME IInv, NEW s \in Slots, NEW m \in plan.methods, OnRequest(s, m)
    PROVE  Promise!Next
<1>1. ses[s] # 0 /\ UNCHANGED <<idCount, ses>>
  BY DEF OnRequest, clientVars
<1>2. ses[s] \in Nat /\ AboutOf(s, m) \in Questions
  BY DEF IInv, ClientsOK, AboutOf, Questions
<1>3. <<>> \in Replies
  BY DEF Replies
<1>4. <<ErrorTo(ses[s])>> \in Replies
      /\ Seen(<<ErrorTo(ses[s])>>) = <<[to |-> ses[s], about |-> Error]>>
  BY <1>2, SeenProperties DEF Replies, OneAnswer, ErrorTo, Versions
<1>5. CASE UnknownMethod(s, m)
  BY <1>1, <1>3, <1>4, <1>5, AskMap DEF UnknownMethod
<1>6. CASE Refuse(s, m)
  BY <1>1, <1>4, <1>6, AskMap DEF Refuse
<1>7. CASE FromCache(s, m)
  <2> DEFINE a == DataTo(ses[s], AboutOf(s, m), cache[m].ver)
  <2>1. <<a>> \in Replies
    BY <1>2, <1>7 DEF FromCache, DataTo, Replies, OneAnswer, IInv, DataOK
  <2>2. Seen(<<a>>) = <<[to |-> ses[s], about |-> AboutOf(s, m)]>>
    BY SeenProperties DEF DataTo
  <2>3. QED
    BY <1>1, <1>7, <2>1, <2>2, AskMap DEF FromCache
<1>8. CASE Forward(s, m)
  BY <1>1, <1>3, <1>8, AskMap DEF Forward
<1>9. QED
  BY <1>5, <1>6, <1>7, <1>8 DEF OnRequest

\* An answer, or the error of a time-out, for the request a state stands for.
LEMMA TellMap ==
    ASSUME IInv, NEW i \in DOMAIN table, NEW now \in OneAnswer,
           answer' = (IF Asker(table[i])
                      THEN [answer EXCEPT ![table[i].n] = Append(@, now)] ELSE answer),
           StateDel(i), UNCHANGED <<asked, idCount, ses>>,
           now.to = table[i].ses, now.about \in {asked[table[i].n].about, Error}
    PROVE  [Promise!Next]_(Promise!vars)
<1> DEFINE n == table[i].n
           one == [to |-> now.to, about |-> now.about]
<1>1. answer' = IF Asker(table[i]) THEN [answer EXCEPT ![n] = <<now>>] ELSE answer
  BY AnswerOneStep
<1>2. CASE ~Asker(table[i])
  BY <1>1, <1>2, NothingSeen
<1>3. CASE Asker(table[i])
  <2>1. /\ n \in DOMAIN asked /\ n \in DOMAIN answer /\ answer[n] = <<>>
        /\ asked[n].by = table[i].ses /\ table[i].slot \in Slots
    BY DEF IInv, TableOK, RequestsOK
  <2>2. asked[n].by \in Open /\ Open' = Open
    BY <1>3, <2>1 DEF Asker, Open
  <2>3. SeenAnswers[n] = <<>>
    BY <2>1, SeenProperties DEF SeenAnswers
  <2>4. SeenAnswers' = [SeenAnswers EXCEPT ![n] = <<one>>]
    BY <1>1, <1>3, <2>1, SeenProperties DEF SeenAnswers, IInv, RequestsOK
  <2>5. Promise!Tell(n)
    BY <2>1, <2>2, <2>3, <2>4 DEF Promise!Tell, SeenAnswers, Open
  <2>6. QED
    BY <2>1, <2>5 DEF Promise!Next
<1>4. QED
  BY <1>2, <1>3

\* Every step of the gateway is a step of the abstract service or none.
LEMMA StepMap == "stale_id" \notin Faults /\ IInv /\ [Next]_vars => [Promise!Next]_(Promise!vars)
<1> SUFFICES ASSUME "stale_id" \notin Faults, IInv, [Next]_vars
             PROVE  [Promise!Next]_(Promise!vars)
  OBVIOUS
<1>1. ASSUME NEW s \in Slots, Accept(s) \/ Close(s)
      PROVE  Promise!Next
  BY <1>1, ConnectMap, LeaveMap
<1>2. ASSUME NEW s \in Slots, NEW m \in plan.methods, OnRequest(s, m)
      PROVE  Promise!Next
  BY <1>2, RequestMap
<1>3. ASSUME NEW b \in Services, OnBackendRecvPkg(b)
      PROVE  [Promise!Next]_(Promise!vars)
  <2>1. UNCHANGED <<idCount, ses>>
    BY <1>3 DEF OnBackendRecvPkg, clientVars
  <2>2. CASE UNCHANGED stateVars
    BY <2>1, <2>2, NothingSeen DEF stateVars
  <2>3. CASE ~ UNCHANGED stateVars
    <3>1. PICK i \in DOMAIN table, v \in Versions :
            LET now == DataTo(table[i].ses, asked[table[i].n].about, v)
            IN  /\ now \in OneAnswer
                /\ answer' = IF Asker(table[i])
                             THEN [answer EXCEPT ![table[i].n] = Append(@, now)] ELSE answer
                /\ StateDel(i) /\ UNCHANGED asked
      BY <1>3, <2>3, RecvEffect
    <3>2. PICK now \in OneAnswer :
            /\ now = DataTo(table[i].ses, asked[table[i].n].about, v)
            /\ answer' = IF Asker(table[i])
                         THEN [answer EXCEPT ![table[i].n] = Append(@, now)] ELSE answer
      BY <3>1
    <3>3. now.to = table[i].ses /\ now.about = asked[table[i].n].about
      BY <3>2 DEF DataTo
    <3>4. QED
      BY <2>1, <3>1, <3>2, <3>3, TellMap
  <2>4. QED
    BY <2>2, <2>3
<1>4. ASSUME NEW i, OnTimeout(i)
      PROVE  [Promise!Next]_(Promise!vars)
  <2>1. i \in DOMAIN table /\ StateDel(i) /\ UNCHANGED <<asked, idCount, ses>>
    BY <1>4 DEF OnTimeout, clientVars
  <2>2. PICK now \in OneAnswer : now = ErrorTo(table[i].ses)
    <3>1. table[i].ses \in Nat
      BY <2>1 DEF IInv, TableOK
    <3>2. QED
      BY <3>1 DEF ErrorTo, OneAnswer, Versions
  <2>3. answer' = IF Asker(table[i])
                  THEN [answer EXCEPT ![table[i].n] = Append(@, now)] ELSE answer
    BY <1>4, <2>2 DEF OnTimeout, Asker
  <2>4. now.to = table[i].ses /\ now.about = Error
    BY <2>2 DEF ErrorTo
  <2>5. QED
    BY <2>1, <2>3, <2>4, TellMap
<1>5. CASE \/ \E s \in Slots, u \in Users : Authenticate(s, u)
           \/ \E b \in Services : Drop(b) \/ Reconnect(b) \/ Serve(b)
           \/ (\E m \in plan.methods : CacheAges(m)) \/ OnCacheTimer \/ DataChanges
           \/ RHRecv \/ (\E t \in Thread : RHThread(t)) \/ RHLoop
           \/ UNCHANGED vars
  <2>1. UNCHANGED <<idCount, ses, asked, answer>>
    BY <1>5 DEF Authenticate, Drop, Reconnect, Serve, CacheAges, OnCacheTimer, DataChanges,
       RHRecv, RHThread, RHLoop, RHFinish, vars, clientVars, stateVars
  <2>2. QED
    BY <2>1, NothingSeen
<1>6. QED
  BY <1>1, <1>2, <1>3, <1>4, <1>5 DEF Next

\* KeepsPromise, what accesshttp and accessws promise their clients whatever happens to
\* the services behind them: a request is answered at most once, on the connection that
\* asked and only while that is open, about what it asked or by an error.
THEOREM FrontsKeepPromise == "stale_id" \notin Faults => (Spec => KeepsPromise)
<1> SUFFICES ASSUME "stale_id" \notin Faults PROVE Spec => Promise!Spec
  BY DEF KeepsPromise
<1>1. Init => Promise!Init
  BY DEF Init, Promise!Init, Open
<1>2. IInv /\ [Next]_vars => [Promise!Next]_(Promise!vars)
  BY StepMap
<1>3. Spec => []IInv
  BY StatesAndPacketsAgree
<1>4. QED
  BY <1>1, <1>2, <1>3, PTL DEF Spec, Promise!Spec

-----------------------------------------------------------------------------
(* Nobody is sent older data about a market than was sent before.           *)

Methods == UNION {p.methods : p \in Plans}

\* A packet is on the connection to the service of its request's method.
RoutedTo(n, b) == n \in 1 .. Len(asked) /\ Service(asked[n].about[1]) = b
Routed(q) == \A b \in Services : \A i \in 1 .. Len(q[b]) : RoutedTo(q[b][i].n, b)
JobRouted(e) == RoutedTo(e.pkg.n, "readhistory")
RoutesOK ==
    /\ Routed(toService) /\ Routed(fromService)
    /\ \A i \in 1 .. Len(request) : JobRouted(request[i])
    /\ \A i \in 1 .. Len(reply) : JobRouted(reply[i])
    /\ \A t \in Thread : running[t] # NoJob => JobRouted(running[t])

\* The versions on the way from a worker only grow, up to the data it holds.
OrderOK ==
    \A b \in Services \ {"readhistory"} : \A i \in 1 .. Len(fromService[b]) :
       fromService[b][i].ver \in Nat =>
          /\ fromService[b][i].ver <= data
          /\ \A j \in i .. Len(fromService[b]) : fromService[b][j].ver \in Nat
                => fromService[b][i].ver <= fromService[b][j].ver

\* No answer about m that was sent is newer than version v.
SentUpTo(m, v) ==
    \A n \in 1 .. Len(answer) :
       answer[n] # <<>> /\ asked[n].about[1] = m /\ answer[n][1].ver \in Nat
          => answer[n][1].ver <= v

\* The versions that may still come from the service of m, and the one in the cache.
Coming(m) ==
    {fromService[Service(m)][i].ver : i \in 1 .. Len(fromService[Service(m)])} \cup {data}
Known(m) == {cache[k].ver : k \in {m} \cap DOMAIN cache}

\* What was sent is not newer than what is cached, nor that than what is to come.
FreshOK ==
    \A m \in Methods : IsCached(m) =>
       /\ \A v \in Coming(m) \cap Nat :
             SentUpTo(m, v) /\ \A w \in Known(m) \cap Nat : w <= v
       /\ \A w \in Known(m) \cap Nat : SentUpTo(m, w)

FreshInv == IInv /\ RoutesOK /\ OrderOK /\ FreshOK

\* Nothing is under way at first.
LEMMA FreshInitially == Init => FreshInv
<1> SUFFICES ASSUME Init PROVE FreshInv
  OBVIOUS
<1>1. RoutesOK
  BY DEF Init, JobInit, RoutesOK, Routed, Services
<1>2. OrderOK
  BY DEF Init, OrderOK
<1>3. FreshOK
  BY DEF Init, FreshOK, SentUpTo, Known
<1>4. QED
  BY <1>1, <1>2, <1>3, InitInv DEF FreshInv

\* Which service answers a method, and whether accessws caches it, is never changed.
LEMMA HandlersStay ==
    ASSUME plan' = plan
    PROVE  \A m : Service(m)' = Service(m) /\ IsCached(m)' = IsCached(m)
BY DEF Service, IsCached, front, HttpHandler, WsHandler

\* Every method has a service, and readhistory answers none of the cached ones (svr_init of the fronts).
LEMMA ServiceOfCached ==
    /\ \A m : Service(m) \in Services
    /\ \A m : IsCached(m) => Service(m) \in Services \ {"readhistory"}
<1>1. \A m : WsHandler(m).to \in Services
             /\ (WsHandler(m).cached => WsHandler(m).to # "readhistory")
  BY DEF WsHandler, Services, KlineQuery, DepthQuery, PriceQuery, StateQuery, TodayQuery,
     DealsQuery, OrderQuery, OrderHistory, AssetQuery, AssetHistory
<1>2. \A m : HttpHandler(m) \in Services
  BY DEF HttpHandler, Services
<1>3. QED
  BY <1>1, <1>2 DEF Service, IsCached, front, GatewayAssumption

\* Requests keep their numbers.
AskedStays ==
    /\ plan' = plan
    /\ Len(asked) \in Nat /\ Len(asked') \in Nat /\ Len(asked) <= Len(asked')
    /\ \A n \in 1 .. Len(asked) : asked'[n] = asked[n]

\* A request stays routed to the service it was sent to.
LEMMA RouteStays ==
    ASSUME AskedStays
    PROVE  \A n, b : RoutedTo(n, b) => RoutedTo(n, b)'
<1> SUFFICES ASSUME NEW n, NEW b, RoutedTo(n, b) PROVE RoutedTo(n, b)'
  OBVIOUS
<1>1. PICK m : m = asked[n].about[1]
  OBVIOUS
<1>2. n \in 1 .. Len(asked') /\ asked'[n].about[1] = m /\ plan' = plan /\ Service(m) = b
  BY <1>1 DEF AskedStays, RoutedTo
<1>3. Service(asked[n].about[1])' = Service(m)
  BY <1>2 DEF Service, front
<1>4. QED
  BY <1>2, <1>3 DEF RoutedTo

\* The packets of a link stay routed.
LEMMA QueueRoutesStay ==
    ASSUME AskedStays
    PROVE  /\ Routed(toService) /\ UNCHANGED toService => Routed(toService)'
           /\ Routed(fromService) /\ UNCHANGED fromService => Routed(fromService)'
<1>1. Routed(toService) /\ UNCHANGED toService => Routed(toService)'
  BY RouteStays DEF Routed, RoutedTo, Service, front
<1>2. Routed(fromService) /\ UNCHANGED fromService => Routed(fromService)'
  BY RouteStays DEF Routed, RoutedTo, Service, front
<1>3. QED
  BY <1>1, <1>2

\* The jobs of readhistory stay routed.
LEMMA JobRoutesStay ==
    ASSUME RoutesOK, AskedStays, UNCHANGED <<request, reply, running>>
    PROVE  /\ \A i \in 1 .. Len(request') : JobRouted(request[i])'
           /\ \A i \in 1 .. Len(reply') : JobRouted(reply[i])'
           /\ \A t \in Thread : running'[t] # NoJob => JobRouted(running[t])'
BY RouteStays DEF RoutesOK, JobRouted, RoutedTo, Service, front

\* An answer that was not sent before, or is not data.
OldOrNoData(n) ==
    \/ n \in 1 .. Len(answer) /\ answer'[n] = answer[n]
    \/ answer'[n] = <<>>
    \/ answer'[n][1].ver \notin Nat

\* A step that sends no data: what is cached and what is to come may get less, and
\* the data newer.
LEMMA FreshStays ==
    ASSUME FreshInv, AskedStays, \A n \in 1 .. Len(answer') : OldOrNoData(n),
           Len(answer') = Len(asked'),
           \A m \in Methods : \A w \in Known(m)' : w \in Known(m),
           \A m \in Methods : IsCached(m) =>
              \A v \in Coming(m)' \cap Nat : \E w \in Coming(m) \cap Nat : w <= v
    PROVE  FreshOK'
<1>1. SUFFICES ASSUME NEW m \in Methods, IsCached(m)
               PROVE  /\ \A v \in Coming(m)' \cap Nat :
                            SentUpTo(m, v)' /\ \A w \in Known(m)' \cap Nat : w <= v
                      /\ \A w \in Known(m)' \cap Nat : SentUpTo(m, w)'
  BY HandlersStay DEF FreshOK, AskedStays
<1>2. Len(answer) = Len(asked)
  BY DEF FreshInv, IInv, RequestsOK
<1>3. ASSUME NEW v \in Nat, NEW w \in Nat, w <= v, SentUpTo(m, w)
      PROVE  SentUpTo(m, v)'
  <2>1. SUFFICES ASSUME NEW n \in 1 .. Len(answer'), answer'[n] # <<>>,
                        asked'[n].about[1] = m, answer'[n][1].ver \in Nat
                 PROVE  answer'[n][1].ver <= v
    BY DEF SentUpTo
  <2>2. n \in 1 .. Len(answer) /\ answer'[n] = answer[n] /\ asked'[n] = asked[n]
    BY <1>2, <2>1 DEF OldOrNoData, AskedStays
  <2>3. answer[n][1].ver <= w /\ answer[n][1].ver \in Nat
    BY <1>3, <2>1, <2>2 DEF SentUpTo
  <2>4. QED
    BY <1>3, <2>2, <2>3
<1>4. /\ \A v \in Coming(m) \cap Nat :
             SentUpTo(m, v) /\ \A w \in Known(m) \cap Nat : w <= v
      /\ \A w \in Known(m) \cap Nat : SentUpTo(m, w)
  BY <1>1 DEF FreshInv, FreshOK
<1>5. ASSUME NEW v \in Coming(m)' \cap Nat
      PROVE  SentUpTo(m, v)' /\ \A w \in Known(m)' \cap Nat : w <= v
  <2>1. PICK u \in Coming(m) \cap Nat : u <= v
    BY <1>1, <1>5
  <2>2. SentUpTo(m, v)'
    BY <1>3, <1>4, <1>5, <2>1
  <2>3. \A w \in Known(m)' \cap Nat : w <= v
    BY <1>4, <1>5, <2>1
  <2>4. QED
    BY <2>2, <2>3
<1>6. \A w \in Known(m)' \cap Nat : SentUpTo(m, w)'
  BY <1>3, <1>4
<1>7. QED
  BY <1>5, <1>6

\* What may still come is what is on the way, and the data.
LEMMA ComingStays ==
    ASSUME FreshInv, plan' = plan, NEW m, data' \in Nat, data <= data',
           \A i \in 1 .. Len(fromService'[Service(m)]) :
              LET v == fromService'[Service(m)][i].ver
              IN  v \in Nat => v \in Coming(m) \/ data <= v
    PROVE  \A v \in Coming(m)' \cap Nat : \E w \in Coming(m) \cap Nat : w <= v
<1>1. Service(m)' = Service(m)
  BY HandlersStay
<1>2. data \in Coming(m) \cap Nat
  BY DEF Coming, FreshInv, IInv, DataOK
<1>3. Coming(m)' = {fromService'[Service(m)][i].ver : i \in 1 .. Len(fromService'[Service(m)])}
                      \cup {data'}
  BY <1>1 DEF Coming
<1>4. ASSUME NEW v \in Coming(m)' \cap Nat
      PROVE  \E w \in Coming(m) \cap Nat : w <= v
  <2>1. CASE v = data'
    BY <1>2, <2>1
  <2>2. CASE v # data'
    <3>1. PICK i \in 1 .. Len(fromService'[Service(m)]) : v = fromService'[Service(m)][i].ver
      BY <1>3, <1>4, <2>2
    <3>2. v \in Coming(m) \/ data <= v
      BY <1>4, <3>1
    <3>3. QED
      BY <1>2, <1>4, <3>2
  <2>3. QED
    BY <2>1, <2>2
<1>5. QED
  BY <1>4

\* Steps that leave the packets and the jobs alone and send no data.
LEMMA QuietStep ==
    ASSUME FreshInv, UNCHANGED <<plan, asked, toService, fromService, request, reply, running>>,
           Len(answer') = Len(answer), \A n \in 1 .. Len(answer') : OldOrNoData(n),
           \A m \in Methods : \A w \in Known(m)' : w \in Known(m),
           data' \in Nat, data <= data'
    PROVE  RoutesOK' /\ OrderOK' /\ FreshOK'
<1>1. AskedStays /\ Len(answer') = Len(asked')
  BY DEF AskedStays, FreshInv, IInv, RequestsOK
<1>2. RoutesOK'
  BY <1>1, QueueRoutesStay, JobRoutesStay DEF FreshInv, RoutesOK
<1>3. OrderOK'
  BY DEF FreshInv, OrderOK, IInv, DataOK
<1>4. FreshOK'
  <2>1. \A m : \A i \in 1 .. Len(fromService'[Service(m)]) :
            fromService'[Service(m)][i].ver \in Coming(m)
    BY DEF Coming
  <2>2. \A m : \A v \in Coming(m)' \cap Nat : \E w \in Coming(m) \cap Nat : w <= v
    BY <2>1, ComingStays
  <2>3. QED
    BY <1>1, <2>2, FreshStays
<1>5. QED
  BY <1>2, <1>3, <1>4

\* Clients, time-outs, the cache, the data, new connections, and the loop of readhistory.
LEMMA QuietSteps ==
    ASSUME FreshInv,
           \/ \E s \in Slots : Accept(s) \/ Close(s) \/ \E u \in Users : Authenticate(s, u)
           \/ \E b \in Services : Reconnect(b)
           \/ DataChanges \/ OnCacheTimer \/ \E m : CacheAges(m)
           \/ (DrainPipe \/ NoMoreReplies) /\ UNCHANGED <<clientVars, stateVars, linkVars, data>>
           \/ UNCHANGED vars
    PROVE  RoutesOK' /\ OrderOK' /\ FreshOK'
<1>1. UNCHANGED <<plan, asked, answer, toService, fromService, request, reply, running>>
  BY DEF Accept, Close, Authenticate, Reconnect, DataChanges, OnCacheTimer, CacheAges,
     DrainPipe, NoMoreReplies, vars, clientVars, stateVars, linkVars, jobVars
<1>2. \A m : \A w \in Known(m)' : w \in Known(m)
  <2>1. CASE UNCHANGED cache
    BY <2>1 DEF Known
  <2>2. CASE OnCacheTimer
    BY <2>2 DEF OnCacheTimer, Known
  <2>3. ASSUME NEW k, CacheAges(k)
        PROVE  \A m : \A w \in Known(m)' : w \in Known(m)
    BY <2>3 DEF CacheAges, Known
  <2>4. QED
    BY <2>1, <2>2, <2>3 DEF Accept, Close, Authenticate, Reconnect, DataChanges,
       DrainPipe, NoMoreReplies, vars, stateVars
<1>3. data' \in Nat /\ data <= data'
  <2>1. data \in Nat
    BY DEF FreshInv, IInv, DataOK
  <2>2. data' = data \/ data' = data + 1
    BY DEF Accept, Close, Authenticate, Reconnect, DataChanges, OnCacheTimer, CacheAges, vars
  <2>3. QED
    BY <2>1, <2>2
<1>4. QED
  BY <1>1, <1>2, <1>3, QuietStep DEF OldOrNoData

\* A packet of a request for service b may follow in the queue of b.
LEMMA AppendRoutes ==
    ASSUME NEW q \in [Services -> Seq(Packet)], Routed(q), NEW b \in Services,
           NEW p \in Packet, RoutedTo(p.n, b)
    PROVE  Routed([q EXCEPT ![b] = Append(@, p)])
<1> DEFINE r == [q EXCEPT ![b] = Append(@, p)]
<1>1. ASSUME NEW c \in Services, NEW k \in 1 .. Len(r[c])
      PROVE  RoutedTo(r[c][k].n, c)
  <2>1. (c = b /\ r[c][k] = p) \/ (k \in 1 .. Len(q[c]) /\ r[c][k] = q[c][k])
    OBVIOUS
  <2>2. QED
    BY <2>1 DEF Routed
<1>2. QED
  BY <1>1 DEF Routed

\* Taking the oldest packet of a link leaves the others routed.
LEMMA TailRoutes ==
    ASSUME NEW q \in [Services -> Seq(Packet)], Routed(q), NEW b \in Services, q[b] # <<>>
    PROVE  Routed([q EXCEPT ![b] = Tail(@)]) /\ RoutedTo(Head(q[b]).n, b)
<1> DEFINE r == [q EXCEPT ![b] = Tail(@)]
<1>1. ASSUME NEW c \in Services, NEW k \in 1 .. Len(r[c])
      PROVE  RoutedTo(r[c][k].n, c)
  <2>1. \E i \in 1 .. Len(q[c]) : r[c][k] = q[c][i]
    <3>1. CASE c = b
      <4>1. r[c] = Tail(q[b]) /\ q[b] \in Seq(Packet)
        BY <3>1
      <4>2. k + 1 \in 1 .. Len(q[b]) /\ r[c][k] = q[b][k + 1]
        BY <4>1
      <4>3. QED
        BY <3>1, <4>2
    <3>2. CASE c # b
      BY <3>2
    <3>3. QED
      BY <3>1, <3>2
  <2>2. QED
    BY <2>1 DEF Routed
<1>2. Head(q[b]) = q[b][1] /\ 1 \in 1 .. Len(q[b])
  OBVIOUS
<1>3. QED
  BY <1>1, <1>2 DEF Routed

\* A link that breaks loses its packets.
LEMMA DropFresh ==
    ASSUME FreshInv, NEW b \in Services, Drop(b)
    PROVE  RoutesOK' /\ OrderOK' /\ FreshOK'
<1>1. /\ UNCHANGED <<plan, asked, answer, cache, data, request, reply, running>>
      /\ toService' = [toService EXCEPT ![b] = <<>>]
      /\ fromService' = [fromService EXCEPT ![b] = <<>>]
      /\ toService \in [Services -> Seq(Packet)] /\ fromService \in [Services -> Seq(Packet)]
      /\ data \in Nat
  BY DEF Drop, FreshInv, IInv, LinksOK, DataOK, clientVars, stateVars, jobVars
<1>2. AskedStays /\ Len(answer') = Len(asked')
  BY <1>1 DEF AskedStays, FreshInv, IInv, RequestsOK
<1>3. /\ \A c \in Services : toService'[c] = toService[c] \/ toService'[c] = <<>>
      /\ \A c \in Services : fromService'[c] = fromService[c] \/ fromService'[c] = <<>>
  BY <1>1
<1>4. Routed(toService)'
  BY <1>1, <1>3 DEF FreshInv, RoutesOK, Routed, RoutedTo, Service, front
<1>5. Routed(fromService)'
  BY <1>1, <1>3 DEF FreshInv, RoutesOK, Routed, RoutedTo, Service, front
<1>6. RoutesOK'
  BY <1>1, <1>2, <1>4, <1>5, JobRoutesStay DEF FreshInv, RoutesOK
<1>7. OrderOK'
  BY <1>1, <1>3 DEF FreshInv, OrderOK
<1>8. FreshOK'
  <2>1. ASSUME NEW m \in Methods
        PROVE  \A v \in Coming(m)' \cap Nat : \E w \in Coming(m) \cap Nat : w <= v
    <3>1. \A i \in 1 .. Len(fromService'[Service(m)]) :
              fromService'[Service(m)][i].ver \in Coming(m)
      BY <1>3, ServiceOfCached DEF Coming
    <3>2. QED
      BY <1>1, <3>1, ComingStays
  <2>2. \A m : \A w \in Known(m)' : w \in Known(m)
    BY <1>1 DEF Known
  <2>3. \A n \in 1 .. Len(answer') : OldOrNoData(n)
    BY <1>1 DEF OldOrNoData
  <2>4. QED
    BY <1>2, <2>1, <2>2, <2>3, FreshStays
<1>9. QED
  BY <1>6, <1>7, <1>8

\* A worker that answers puts the version it holds behind those it sent before.
LEMMA ServeFresh ==
    ASSUME FreshInv, NEW b \in Services, Serve(b)
    PROVE  RoutesOK' /\ OrderOK' /\ FreshOK'
<1>1. /\ UNCHANGED <<plan, asked, answer, cache, data, request, reply, running>>
      /\ toService \in [Services -> Seq(Packet)] /\ fromService \in [Services -> Seq(Packet)]
      /\ data \in Nat /\ b # "readhistory" /\ toService[b] # <<>>
      /\ toService' = [toService EXCEPT ![b] = Tail(@)]
  BY DEF Serve, FreshInv, IInv, LinksOK, DataOK, clientVars, stateVars, jobVars
<1>2. PICK v \in {data, Refusal} :
          fromService' = [fromService EXCEPT ![b] = Append(@, [Head(toService[b]) EXCEPT !.ver = v])]
  BY DEF Serve
<1> DEFINE p == [Head(toService[b]) EXCEPT !.ver = v]
<1>3. p \in Packet /\ p.n = Head(toService[b]).n /\ p.ver = v
  <2>1. Head(toService[b]) \in Packet
    BY <1>1
  <2>2. QED
    BY <1>1, <2>1 DEF Packet, Versions
<1>4. AskedStays /\ Len(answer') = Len(asked')
  BY <1>1 DEF AskedStays, FreshInv, IInv, RequestsOK
<1>5. Routed(toService') /\ Routed(fromService')
  BY <1>1, <1>2, <1>3, TailRoutes, AppendRoutes DEF FreshInv, RoutesOK
<1>6. RoutesOK'
  <2>1. Routed(toService)'
    BY <1>1, <1>5 DEF Routed, RoutedTo, Service, front
  <2>2. Routed(fromService)'
    BY <1>1, <1>5 DEF Routed, RoutedTo, Service, front
  <2>3. QED
    BY <1>1, <1>4, <2>1, <2>2, JobRoutesStay DEF RoutesOK, FreshInv
<1> HIDE DEF p
<1>7. \A c \in Services : \A i \in 1 .. Len(fromService'[c]) :
          \/ i \in 1 .. Len(fromService[c]) /\ fromService'[c][i] = fromService[c][i]
          \/ c = b /\ i = Len(fromService[b]) + 1 /\ fromService'[c][i] = p
  BY <1>1, <1>2, <1>3 DEF p
<1>8. v \in Nat => v = data
  BY VersionsAssumption
<1>9. OrderOK'
  <2>1. SUFFICES ASSUME NEW c \in Services \ {"readhistory"},
                        NEW i \in 1 .. Len(fromService'[c]), NEW j \in i .. Len(fromService'[c]),
                        fromService'[c][i].ver \in Nat
                 PROVE  /\ fromService'[c][i].ver <= data
                        /\ fromService'[c][j].ver \in Nat
                              => fromService'[c][i].ver <= fromService'[c][j].ver
    <3>1. \A c \in Services : Len(fromService'[c]) \in Nat
      BY <1>1, <1>2, <1>3 DEF p
    <3>2. \A c \in Services \ {"readhistory"} : \A i \in 1 .. Len(fromService'[c]) :
              i \in i .. Len(fromService'[c])
      BY <3>1
    <3>3. QED
      BY <1>1, <3>2 DEF OrderOK
  <2>2. fromService'[c][i].ver <= data
    <3>1. CASE i \in 1 .. Len(fromService[c]) /\ fromService'[c][i] = fromService[c][i]
      BY <2>1, <3>1 DEF FreshInv, OrderOK
    <3>2. CASE c = b /\ i = Len(fromService[b]) + 1 /\ fromService'[c][i] = p
      BY <1>1, <1>3, <1>8, <2>1, <3>2
    <3>3. QED
      BY <1>7, <3>1, <3>2
  <2>3. ASSUME fromService'[c][j].ver \in Nat
        PROVE  fromService'[c][i].ver <= fromService'[c][j].ver
    <3>1. j \in 1 .. Len(fromService'[c])
      BY <1>1, <1>2, <1>3 DEF p
    <3>2. CASE c = b /\ j = Len(fromService[b]) + 1 /\ fromService'[c][j] = p
      BY <1>3, <1>8, <2>2, <2>3, <3>2
    <3>3. CASE j \in 1 .. Len(fromService[c]) /\ fromService'[c][j] = fromService[c][j]
      <4>1. i \in 1 .. Len(fromService[c]) /\ fromService'[c][i] = fromService[c][i]
            /\ j \in i .. Len(fromService[c])
        BY <1>1, <1>7, <3>3
      <4>2. QED
        BY <2>1, <2>3, <3>3, <4>1 DEF FreshInv, OrderOK
    <3>4. QED
      BY <1>7, <3>1, <3>2, <3>3
  <2>4. QED
    BY <2>2, <2>3
<1>10. FreshOK'
  <2>1. ASSUME NEW m \in Methods
        PROVE  \A w \in Coming(m)' \cap Nat : \E u \in Coming(m) \cap Nat : u <= w
    <3>1. \A i \in 1 .. Len(fromService'[Service(m)]) :
             LET w == fromService'[Service(m)][i].ver IN w \in Nat => w \in Coming(m) \/ data <= w
      BY <1>1, <1>3, <1>7, <1>8, ServiceOfCached DEF Coming
    <3>2. QED
      BY <1>1, <3>1, ComingStays
  <2>2. \A m : \A w \in Known(m)' : w \in Known(m)
    BY <1>1 DEF Known
  <2>3. \A n \in 1 .. Len(answer') : OldOrNoData(n)
    BY <1>1 DEF OldOrNoData
  <2>4. QED
    BY <1>4, <2>1, <2>2, <2>3, FreshStays
<1>11. QED
  BY <1>6, <1>9, <1>10

\* readhistory answers no method that is cached.
LEMMA ReadHistoryFresh ==
    ASSUME FreshInv, UNCHANGED <<plan, asked, answer, cache, data>>,
           fromService \in [Services -> Seq(Packet)],
           \A c \in Services \ {"readhistory"} : fromService'[c] = fromService[c]
    PROVE  AskedStays /\ OrderOK' /\ FreshOK'
<1>1. AskedStays /\ Len(answer') = Len(asked')
  BY DEF AskedStays, FreshInv, IInv, RequestsOK
<1>2. OrderOK'
  BY DEF FreshInv, OrderOK
<1>3. FreshOK'
  <2>1. ASSUME NEW m \in Methods, IsCached(m)
        PROVE  \A w \in Coming(m)' \cap Nat : \E u \in Coming(m) \cap Nat : u <= w
    <3>1. fromService'[Service(m)] = fromService[Service(m)]
      BY <2>1, ServiceOfCached
    <3>2. Coming(m)' = Coming(m)
      BY <3>1, HandlersStay DEF Coming
    <3>3. QED
      BY <3>2
  <2>2. \A m : \A w \in Known(m)' : w \in Known(m)
    BY DEF Known
  <2>3. \A n \in 1 .. Len(answer') : OldOrNoData(n)
    BY DEF OldOrNoData
  <2>4. QED
    BY <1>1, <2>1, <2>2, <2>3, FreshStays
<1>4. QED
  BY <1>1, <1>2, <1>3

\* A packet that becomes a job is as fresh as before.
LEMMA RHRecvFresh ==
    ASSUME FreshInv, RHRecv
    PROVE  RoutesOK' /\ OrderOK' /\ FreshOK'
<1> DEFINE b == "readhistory"
           p == Head(toService[b])
<1>1. /\ UNCHANGED <<plan, asked, answer, cache, data, running, reply>>
      /\ toService \in [Services -> Seq(Packet)] /\ fromService \in [Services -> Seq(Packet)]
      /\ toService[b] # <<>> /\ toService' = [toService EXCEPT ![b] = Tail(@)]
      /\ b \in Services
  BY DEF RHRecv, Enqueue, JobAdd, jobVars, clientVars, stateVars, FreshInv, IInv, LinksOK, Services
<1>2. p \in Packet /\ Routed(toService') /\ RoutedTo(p.n, b)
  <2>1. p \in Packet
    BY <1>1
  <2>2. Routed(toService)
    BY DEF FreshInv, RoutesOK
  <2>3. QED
    BY <1>1, <2>1, <2>2, TailRoutes
<1>3. \/ UNCHANGED request /\ fromService' = [fromService EXCEPT ![b] = Append(@, [p EXCEPT !.ver = Refusal])]
      \/ UNCHANGED fromService /\ request' = Append(request, [pkg |-> p, ses |-> rhSes])
  BY DEF RHRecv, Enqueue, JobAdd, jobVars
<1>4. /\ [p EXCEPT !.ver = Refusal] \in Packet /\ [p EXCEPT !.ver = Refusal].n = p.n
  BY <1>2 DEF Packet, Versions
<1>5. \A c \in Services \ {b} : fromService'[c] = fromService[c]
  BY <1>1, <1>3
<1>6. AskedStays /\ OrderOK' /\ FreshOK'
  BY <1>1, <1>5, ReadHistoryFresh
<1>7. Routed(fromService')
  BY <1>1, <1>2, <1>3, <1>4, AppendRoutes DEF FreshInv, RoutesOK
<1>8. Routed(toService)' /\ Routed(fromService)'
  <2>1. Routed(toService)'
    BY <1>1, <1>2 DEF Routed, RoutedTo, Service, front
  <2>2. Routed(fromService)'
    BY <1>1, <1>7 DEF Routed, RoutedTo, Service, front
  <2>3. QED
    BY <2>1, <2>2
<1>9. \A i \in 1 .. Len(request') : RoutedTo(request'[i].pkg.n, b)
  <2>1. request \in Seq(Entry) /\ \A i \in 1 .. Len(request) : RoutedTo(request[i].pkg.n, b)
    BY DEF FreshInv, RoutesOK, JobRouted, IInv, JobsOK
  <2>2. CASE UNCHANGED request
    BY <2>1, <2>2
  <2>3. CASE request' = Append(request, [pkg |-> p, ses |-> rhSes])
    <3>1. [pkg |-> p, ses |-> rhSes] \in Entry
      BY <1>2 DEF Entry, FreshInv, IInv, JobsOK, LinksOK, Services
    <3>2. \A i \in 1 .. Len(request') : \/ i \in 1 .. Len(request) /\ request'[i] = request[i]
                                        \/ request'[i] = [pkg |-> p, ses |-> rhSes]
      BY <2>1, <2>3, <3>1
    <3>3. QED
      BY <1>2, <2>1, <3>2
  <2>4. QED
    BY <1>3, <2>2, <2>3
<1>10. RoutesOK'
  <2>1. \A i \in 1 .. Len(request') : JobRouted(request[i])'
    BY <1>1, <1>9 DEF JobRouted, RoutedTo, Service, front
  <2>2. \A i \in 1 .. Len(reply') : JobRouted(reply[i])'
    BY <1>1 DEF FreshInv, RoutesOK, JobRouted, RoutedTo, Service, front
  <2>3. \A t \in Thread : running'[t] # NoJob => JobRouted(running[t])'
    BY <1>1 DEF FreshInv, RoutesOK, JobRouted, RoutedTo, Service, front
  <2>4. QED
    BY <1>8, <2>1, <2>2, <2>3 DEF RoutesOK
<1>11. QED
  BY <1>6, <1>10

\* A job on a thread is routed as its packet was.
LEMMA RHThreadFresh ==
    ASSUME FreshInv, NEW t \in Thread, RHThread(t)
    PROVE  RoutesOK' /\ OrderOK' /\ FreshOK'
<1> DEFINE b == "readhistory"
<1>1. UNCHANGED <<plan, asked, answer, cache, data, toService, fromService>>
  BY DEF RHThread, clientVars, stateVars, linkVars
<1>2. AskedStays /\ OrderOK' /\ FreshOK'
  BY <1>1, ReadHistoryFresh DEF FreshInv, IInv, LinksOK
<1>3. /\ request \in Seq(Entry) /\ reply \in Seq(Entry)
      /\ running \in [Thread -> Entry \cup {NoJob}]
      /\ \A i \in 1 .. Len(request) : RoutedTo(request[i].pkg.n, b)
      /\ \A i \in 1 .. Len(reply) : RoutedTo(reply[i].pkg.n, b)
      /\ \A u \in Thread : running[u] # NoJob => RoutedTo(running[u].pkg.n, b)
  BY DEF FreshInv, IInv, JobsOK, RoutesOK, JobRouted
<1>4. /\ \A i \in 1 .. Len(request') : RoutedTo(request'[i].pkg.n, b)
      /\ \A i \in 1 .. Len(reply') : RoutedTo(reply'[i].pkg.n, b)
      /\ \A u \in Thread : running'[u] # NoJob => RoutedTo(running'[u].pkg.n, b)
  <2>1. CASE TakeRequest(t)
    <3>1. /\ request # <<>> /\ UNCHANGED reply /\ request' = Tail(request)
          /\ running' = [running EXCEPT ![t] = Head(request)]
      BY <2>1 DEF TakeRequest
    <3>2. Head(request) = request[1] /\ 1 \in 1 .. Len(request)
      BY <1>3, <3>1
    <3>3. \A i \in 1 .. Len(request') : request'[i] = request[i + 1] /\ i + 1 \in 1 .. Len(request)
      BY <1>3, <3>1
    <3>4. \A u \in Thread : running'[u] # NoJob => RoutedTo(running'[u].pkg.n, b)
      BY <1>3, <3>1, <3>2
    <3>5. QED
      BY <1>3, <3>1, <3>3, <3>4
  <2>2. CASE RunJob(t, {0, Refusal})
    <3>1. PICK v \in Versions : running[t] # NoJob /\ ReturnReply(t, OnJob(running[t], v))
      BY <2>2 DEF RunJob, Versions
    <3> DEFINE e == OnJob(running[t], v)
    <3>2. e \in Entry /\ e.pkg.n = running[t].pkg.n
      <4>1. running[t] \in Entry
        BY <1>3, <3>1
      <4>2. QED
        BY <4>1 DEF OnJob, Entry, Packet
    <3>3. /\ reply' = Append(reply, e) /\ UNCHANGED request
          /\ running' = [running EXCEPT ![t] = NoJob]
      BY <3>1 DEF ReturnReply
    <3> HIDE DEF e
    <3>4. \A i \in 1 .. Len(reply') :
              reply'[i] = e \/ (i \in 1 .. Len(reply) /\ reply'[i] = reply[i])
      BY <1>3, <3>2, <3>3
    <3>5. RoutedTo(e.pkg.n, b)
      BY <1>3, <3>1, <3>2
    <3>6. QED
      BY <1>3, <3>3, <3>4, <3>5
  <2>3. QED
    BY <2>1, <2>2 DEF RHThread
<1>5. Routed(toService)' /\ Routed(fromService)'
  BY <1>1, <1>2, QueueRoutesStay DEF FreshInv, RoutesOK
<1>6. RoutesOK'
  <2>1. \A i \in 1 .. Len(request') : JobRouted(request[i])'
    BY <1>1, <1>4 DEF JobRouted, RoutedTo, Service, front
  <2>2. \A i \in 1 .. Len(reply') : JobRouted(reply[i])'
    BY <1>1, <1>4 DEF JobRouted, RoutedTo, Service, front
  <2>3. \A u \in Thread : running'[u] # NoJob => JobRouted(running[u])'
    BY <1>1, <1>4 DEF JobRouted, RoutedTo, Service, front
  <2>4. QED
    BY <1>5, <2>1, <2>2, <2>3 DEF RoutesOK
<1>7. QED
  BY <1>2, <1>6

\* A reply of readhistory is routed as its job was.
LEMMA RHFinishFresh ==
    ASSUME FreshInv, RHFinish
    PROVE  RoutesOK' /\ OrderOK' /\ FreshOK'
<1> DEFINE b == "readhistory"
           e == Head(reply)
<1>1. /\ UNCHANGED <<plan, asked, answer, cache, data, toService, request, running>>
      /\ fromService \in [Services -> Seq(Packet)] /\ reply \in Seq(Entry)
      /\ reply # <<>> /\ reply' = Tail(reply) /\ b \in Services
      /\ \/ UNCHANGED fromService
         \/ fromService' = [fromService EXCEPT ![b] = Append(@, e.pkg)]
  BY DEF RHFinish, TakeReply, clientVars, stateVars, FreshInv, IInv, LinksOK, JobsOK, Services
<1>2. e = reply[1] /\ 1 \in 1 .. Len(reply) /\ e \in Entry
  BY <1>1
<1>3. e.pkg \in Packet /\ RoutedTo(e.pkg.n, b)
  BY <1>2 DEF Entry, FreshInv, RoutesOK, JobRouted
<1>4. \A c \in Services \ {b} : fromService'[c] = fromService[c]
  BY <1>1
<1>5. AskedStays /\ OrderOK' /\ FreshOK'
  BY <1>1, <1>4, ReadHistoryFresh
<1>6. Routed(fromService')
  BY <1>1, <1>3, AppendRoutes DEF FreshInv, RoutesOK
<1>7. Routed(toService)'
  BY <1>1, <1>5, QueueRoutesStay DEF FreshInv, RoutesOK
<1>8. Routed(fromService)'
  BY <1>1, <1>6 DEF Routed, RoutedTo, Service, front
<1>9. \A i \in 1 .. Len(reply') : reply'[i] = reply[i + 1] /\ i + 1 \in 1 .. Len(reply)
  BY <1>1
<1>10. RoutesOK'
  <2>1. \A i \in 1 .. Len(request') : JobRouted(request[i])'
    BY <1>1 DEF FreshInv, RoutesOK, JobRouted, RoutedTo, Service, front
  <2>2. \A i \in 1 .. Len(reply') : JobRouted(reply[i])'
    BY <1>1, <1>9 DEF FreshInv, RoutesOK, JobRouted, RoutedTo, Service, front
  <2>3. \A u \in Thread : running'[u] # NoJob => JobRouted(running[u])'
    BY <1>1 DEF FreshInv, RoutesOK, JobRouted, RoutedTo, Service, front
  <2>4. QED
    BY <1>7, <1>8, <2>1, <2>2, <2>3 DEF RoutesOK
<1>11. QED
  BY <1>5, <1>10

\* An answer that is sent in a step is as new as any that was sent about the same.
SentInOrder(n) ==
    \A m \in Methods, v \in Nat :
       m = asked'[n].about[1] /\ v = answer'[n][1].ver /\ IsCached(m) => SentUpTo(m, v)
NotOlder == \A n \in 1 .. Len(answer') : OldOrNoData(n) \/ SentInOrder(n)

\* An error for a request that is given up is no data.
LEMMA TimeoutFresh ==
    ASSUME FreshInv, NEW i, OnTimeout(i)
    PROVE  RoutesOK' /\ OrderOK' /\ FreshOK' /\ NotOlder
<1>1. /\ i \in DOMAIN table /\ StateDel(i)
      /\ UNCHANGED <<plan, asked, cache, toService, fromService, request, reply, running, data>>
  BY DEF OnTimeout, clientVars, linkVars, jobVars
<1>2. PICK now \in OneAnswer : now = ErrorTo(table[i].ses)
  <2>1. table[i].ses \in Nat
    BY <1>1 DEF FreshInv, IInv, TableOK
  <2>2. QED
    BY <2>1 DEF ErrorTo, OneAnswer, Versions
<1>3. answer' = IF Asker(table[i])
                THEN [answer EXCEPT ![table[i].n] = Append(@, now)] ELSE answer
  BY <1>2 DEF OnTimeout, Asker
<1>4. answer' = IF Asker(table[i]) THEN [answer EXCEPT ![table[i].n] = <<now>>] ELSE answer
  BY <1>1, <1>3, AnswerOneStep DEF FreshInv
<1>5. now.ver \notin Nat
  BY <1>2, VersionsAssumption DEF ErrorTo
<1>6. Len(answer') = Len(answer) /\ \A n \in 1 .. Len(answer') : OldOrNoData(n)
  <2>1. answer \in Seq(Replies)
    BY DEF FreshInv, IInv, RequestsOK
  <2>2. CASE ~Asker(table[i])
    BY <1>4, <2>1, <2>2 DEF OldOrNoData
  <2>3. CASE Asker(table[i])
    <3>1. answer' = [answer EXCEPT ![table[i].n] = <<now>>]
      BY <1>4, <2>3
    <3>2. /\ Len(answer') = Len(answer)
          /\ \A n \in 1 .. Len(answer) : answer'[n] = IF n = table[i].n THEN <<now>> ELSE answer[n]
      BY <2>1, <3>1
    <3>3. QED
      BY <1>5, <3>2 DEF OldOrNoData
  <2>4. QED
    BY <2>2, <2>3
<1>7. RoutesOK' /\ OrderOK' /\ FreshOK'
  <2>1. \A m : \A w \in Known(m)' : w \in Known(m)
    BY <1>1 DEF Known
  <2>2. data \in Nat
    BY DEF FreshInv, IInv, DataOK
  <2>3. QED
    BY <1>1, <1>6, <2>1, <2>2, QuietStep
<1>8. QED
  BY <1>6, <1>7 DEF NotOlder

\* The request that comes in, and whom it is for.
LEMMA AskedFresh ==
    ASSUME FreshInv, NEW s \in Slots, NEW m \in plan.methods, NEW now \in Replies,
           Asked(s, m, now), UNCHANGED <<plan, fromService, request, reply, running, data>>
    PROVE  /\ AskedStays /\ Len(answer') = Len(asked') /\ Len(asked') = Len(asked) + 1
           /\ m \in Methods /\ asked'[Len(asked')].about[1] = m
           /\ answer'[Len(asked')] = now
           /\ \A n \in 1 .. Len(asked) : answer'[n] = answer[n]
           /\ OrderOK' /\ Routed(fromService)'
           /\ \A k \in Methods : \A v \in Coming(k)' \cap Nat : v \in Coming(k)
           /\ UNCHANGED toService => RoutesOK'
           /\ Routed(toService)' => RoutesOK'
<1>1. /\ RequestsOK' /\ Len(asked') = Len(asked) + 1
      /\ \A n \in 1 .. Len(asked) : asked'[n] = asked[n] /\ answer'[n] = answer[n]
      /\ asked'[Len(asked')] = [by |-> ses[s], about |-> AboutOf(s, m)]
      /\ answer'[Len(asked')] = now
  BY AskedKeeps DEF FreshInv
<1>2. AskedStays /\ Len(answer') = Len(asked')
  <2>1. Len(asked) \in Nat /\ Len(asked') \in Nat
    BY <1>1 DEF FreshInv, IInv, RequestsOK
  <2>2. Len(answer') = Len(asked')
    BY <1>1 DEF RequestsOK
  <2>3. QED
    BY <1>1, <2>1, <2>2 DEF AskedStays
<1>3. m \in Methods /\ asked'[Len(asked')].about[1] = m
  BY <1>1 DEF AboutOf, Methods, FreshInv, IInv, ClientsOK
<1>4. OrderOK'
  BY DEF FreshInv, OrderOK
<1>5. \A k \in Methods : \A v \in Coming(k)' \cap Nat : v \in Coming(k)
  BY HandlersStay DEF Coming
<1>6. Routed(fromService)' /\ (UNCHANGED toService => Routed(toService)')
  BY <1>2, QueueRoutesStay DEF FreshInv, RoutesOK
<1>7. Routed(toService)' => RoutesOK'
  BY <1>2, <1>6, JobRoutesStay DEF FreshInv, RoutesOK
<1>8. QED
  BY <1>1, <1>2, <1>3, <1>4, <1>5, <1>6, <1>7

\* A request that no data is sent for yet.
LEMMA NoDataFresh ==
    ASSUME FreshInv, NEW s \in Slots, NEW m \in plan.methods, NEW now \in Replies,
           Asked(s, m, now), UNCHANGED <<plan, fromService, request, reply, running, data>>,
           now = <<>> \/ now[1].ver \notin Nat,
           \A k \in Methods : \A w \in Known(k)' : w \in Known(k)
    PROVE  FreshOK' /\ NotOlder
<1>1. /\ AskedStays /\ Len(answer') = Len(asked') /\ Len(asked') = Len(asked) + 1
      /\ answer'[Len(asked')] = now
      /\ \A n \in 1 .. Len(asked) : answer'[n] = answer[n]
      /\ \A k \in Methods : \A v \in Coming(k)' \cap Nat : v \in Coming(k)
  BY AskedFresh
<1>2. \A n \in 1 .. Len(answer') : OldOrNoData(n)
  BY <1>1 DEF OldOrNoData, FreshInv, IInv, RequestsOK
<1>3. \A k \in Methods : \A v \in Coming(k)' \cap Nat : \E w \in Coming(k) \cap Nat : w <= v
  BY <1>1
<1>4. FreshOK'
  BY <1>1, <1>2, <1>3, FreshStays
<1>5. QED
  BY <1>2, <1>4 DEF NotOlder

\* What is sent from the cache is not older than what was sent, nor newer than what is
\* on the way.
LEMMA FromCacheFresh ==
    ASSUME FreshInv, NEW s \in Slots, NEW m \in plan.methods, FromCache(s, m), ses[s] # 0,
           UNCHANGED <<clientVars, jobVars, data>>
    PROVE  RoutesOK' /\ OrderOK' /\ FreshOK' /\ NotOlder
<1> DEFINE one == DataTo(ses[s], AboutOf(s, m), cache[m].ver)
           last == Len(asked')
<1>1. /\ m \in DOMAIN cache /\ IsCached(m) /\ Asked(s, m, <<one>>)
      /\ UNCHANGED <<plan, cache, toService, fromService, request, reply, running, data>>
  BY DEF FromCache, clientVars, jobVars, linkVars
<1>2. <<one>> \in Replies
  <2>1. ses[s] \in Nat /\ AboutOf(s, m) \in Questions /\ cache[m].ver \in Versions
    BY <1>1 DEF FreshInv, IInv, ClientsOK, AboutOf, Questions, DataOK
  <2>2. QED
    BY <2>1 DEF DataTo, OneAnswer, Replies
<1>3. /\ AskedStays /\ Len(answer') = last /\ last = Len(asked) + 1
      /\ m \in Methods /\ asked'[last].about[1] = m /\ answer'[last] = <<one>>
      /\ \A n \in 1 .. Len(asked) : answer'[n] = answer[n]
      /\ OrderOK' /\ RoutesOK'
      /\ \A k \in Methods : \A v \in Coming(k)' \cap Nat : v \in Coming(k)
  BY <1>1, <1>2, AskedFresh
<1>4. \A k : Known(k)' = Known(k)
  BY <1>1 DEF Known
<1>5. Known(m) = {one.ver}
  BY <1>1 DEF Known, DataTo
<1>6. Len(answer) = Len(asked) /\ Len(asked) \in Nat
  BY DEF FreshInv, IInv, RequestsOK
<1> HIDE DEF one
<1>7. ASSUME NEW k \in Methods, NEW v \in Nat, SentUpTo(k, v),
             k = m /\ one.ver \in Nat => one.ver <= v
      PROVE  SentUpTo(k, v)'
  <2>1. SUFFICES ASSUME NEW n \in 1 .. Len(answer'), answer'[n] # <<>>,
                        asked'[n].about[1] = k, answer'[n][1].ver \in Nat
                 PROVE  answer'[n][1].ver <= v
    BY DEF SentUpTo
  <2>2. CASE n = last
    BY <1>3, <1>7, <2>1, <2>2
  <2>3. CASE n # last
    <3>1. n \in 1 .. Len(answer) /\ answer'[n] = answer[n] /\ asked'[n] = asked[n]
      BY <1>3, <1>6, <2>3 DEF AskedStays
    <3>2. QED
      BY <1>7, <2>1, <3>1 DEF SentUpTo
  <2>4. QED
    BY <2>2, <2>3
<1>8. FreshOK'
  <2>1. SUFFICES ASSUME NEW k \in Methods, IsCached(k)
                 PROVE  /\ \A v \in Coming(k)' \cap Nat :
                              SentUpTo(k, v)' /\ \A w \in Known(k)' \cap Nat : w <= v
                        /\ \A w \in Known(k)' \cap Nat : SentUpTo(k, w)'
    BY <1>1, HandlersStay DEF FreshOK
  <2>2. /\ \A v \in Coming(k) \cap Nat :
               SentUpTo(k, v) /\ \A w \in Known(k) \cap Nat : w <= v
        /\ \A w \in Known(k) \cap Nat : SentUpTo(k, w)
    BY <2>1 DEF FreshInv, FreshOK
  <2>3. ASSUME NEW v \in Coming(k)' \cap Nat
        PROVE  SentUpTo(k, v)' /\ \A w \in Known(k)' \cap Nat : w <= v
    <3>1. v \in Coming(k) \cap Nat
      BY <1>3, <2>3
    <3>2. k = m /\ one.ver \in Nat => one.ver <= v
      BY <1>5, <2>2, <3>1
    <3>3. QED
      BY <1>4, <1>7, <2>2, <3>1, <3>2
  <2>4. ASSUME NEW w \in Known(k)' \cap Nat
        PROVE  SentUpTo(k, w)'
    <3>1. w \in Known(k) \cap Nat
      BY <1>4, <2>4
    <3>2. k = m /\ one.ver \in Nat => one.ver <= w
      BY <1>5, <3>1
    <3>3. QED
      BY <1>7, <2>2, <3>1, <3>2
  <2>5. QED
    BY <2>3, <2>4
<1>9. NotOlder
  <2>1. SUFFICES ASSUME NEW n \in 1 .. Len(answer') PROVE OldOrNoData(n) \/ SentInOrder(n)
    BY DEF NotOlder
  <2>2. CASE n # last
    BY <1>3, <1>6, <2>2 DEF OldOrNoData
  <2>3. CASE n = last
    <3>1. SUFFICES ASSUME NEW k \in Methods, NEW v \in Nat, k = asked'[n].about[1],
                          v = answer'[n][1].ver, IsCached(k)
                   PROVE  SentUpTo(k, v)
      BY DEF SentInOrder
    <3>2. k = m /\ v = one.ver
      BY <1>3, <2>3, <3>1
    <3>3. v \in Known(k) \cap Nat
      BY <1>5, <3>1, <3>2
    <3>4. QED
      BY <3>1, <3>3 DEF FreshInv, FreshOK
  <2>4. QED
    BY <2>2, <2>3
<1>10. QED
  BY <1>3, <1>8, <1>9

\* A request answered from the cache gets what the front answered last, or newer.
LEMMA RequestFresh ==
    ASSUME FreshInv, "stale_id" \notin Faults, NEW s \in Slots, NEW m \in plan.methods,
           OnRequest(s, m)
    PROVE  RoutesOK' /\ OrderOK' /\ FreshOK' /\ NotOlder
<1>1. ses[s] # 0 /\ UNCHANGED <<clientVars, jobVars, data>>
  BY DEF OnRequest
<1>2. UNCHANGED <<plan, request, reply, running, data>>
  BY <1>1 DEF clientVars, jobVars
<1>3. <<>> \in Replies /\ <<ErrorTo(ses[s])>> \in Replies /\ ErrorTo(ses[s]).ver \notin Nat
  <2>1. ses[s] \in Nat
    BY DEF FreshInv, IInv, ClientsOK
  <2>2. QED
    BY <2>1, VersionsAssumption DEF Replies, OneAnswer, ErrorTo, Versions
<1>4. CASE UnknownMethod(s, m) \/ Refuse(s, m)
  <2>1. PICK now \in Replies : Asked(s, m, now) /\ (now = <<>> \/ now[1].ver \notin Nat)
    BY <1>3, <1>4 DEF UnknownMethod, Refuse
  <2>2. UNCHANGED <<cache, toService, fromService>>
    BY <1>4 DEF UnknownMethod, Refuse, linkVars
  <2>3. \A k : \A w \in Known(k)' : w \in Known(k)
    BY <2>2 DEF Known
  <2>4. RoutesOK' /\ OrderOK'
    BY <1>2, <2>1, <2>2, AskedFresh
  <2>5. FreshOK' /\ NotOlder
    BY <1>2, <2>1, <2>2, <2>3, NoDataFresh
  <2>6. QED
    BY <2>4, <2>5
<1>5. CASE FromCache(s, m)
  BY <1>1, <1>5, FromCacheFresh
<1>6. CASE Forward(s, m)
  <2> DEFINE b == Service(m)
             p == [seq |-> idStart', n |-> Len(asked'), ver |-> NoData]
  <2>1. PICK now \in Replies : now = <<>> /\ Asked(s, m, now)
    BY <1>3, <1>6 DEF Forward
  <2>2. /\ UNCHANGED fromService
        /\ toService' = [toService EXCEPT ![b] = Append(@, p)]
        /\ b \in Services
    BY <1>6, ServiceOfCached DEF Forward, SendTo
  <2>3. /\ AskedStays /\ Len(asked') = Len(asked) + 1
        /\ asked'[Len(asked')].about[1] = m
        /\ OrderOK' /\ (Routed(toService)' => RoutesOK')
    BY <1>2, <2>1, <2>2, AskedFresh
  <2>4. p \in Packet
    BY <1>6, <2>3, AvailableIdIsFree
       DEF Forward, FreshInv, IInv, StateAdd, Packet, Versions, RequestsOK
  <2>5. Routed(toService)'
    <3>1. SUFFICES ASSUME NEW c \in Services, NEW k \in 1 .. Len(toService'[c])
                   PROVE  RoutedTo(toService[c][k].n, c)'
      BY DEF Routed
    <3>2. toService \in [Services -> Seq(Packet)]
      BY DEF FreshInv, IInv, LinksOK
    <3>3. CASE c = b /\ k = Len(toService[b]) + 1
      <4>1. toService'[c][k] = p
        BY <2>2, <2>4, <3>2, <3>3
      <4>2. Service(m)' = c
        BY <1>2, <3>3, HandlersStay
      <4>3. Len(asked') \in 1 .. Len(asked') /\ toService'[c][k].n = Len(asked')
        BY <2>3, <4>1 DEF AskedStays
      <4>4. QED
        BY <2>3, <4>2, <4>3 DEF RoutedTo, Service, front
    <3>4. CASE ~(c = b /\ k = Len(toService[b]) + 1)
      <4>1. k \in 1 .. Len(toService[c]) /\ toService'[c][k] = toService[c][k]
        BY <2>2, <2>4, <3>2, <3>4
      <4>2. RoutedTo(toService[c][k].n, c)
        BY <4>1 DEF FreshInv, RoutesOK, Routed
      <4>3. QED
        BY <2>3, <4>1, <4>2, RouteStays DEF RoutedTo, Service, front
    <3>5. QED
      BY <3>3, <3>4
  <2>6. \A k : \A w \in Known(k)' : w \in Known(k)
    BY <1>6 DEF Known, Forward, Without
  <2>7. FreshOK' /\ NotOlder
    BY <1>2, <2>1, <2>2, <2>6, NoDataFresh
  <2>8. QED
    BY <2>3, <2>5, <2>7
<1>7. QED
  BY <1>4, <1>5, <1>6 DEF OnRequest

\* An answer of a worker is not older than what was sent or cached, nor newer than what
\* follows it on the connection.
LEMMA RecvFresh ==
    ASSUME FreshInv, NEW b \in Services, OnBackendRecvPkg(b)
    PROVE  RoutesOK' /\ OrderOK' /\ FreshOK' /\ NotOlder
<1>1. /\ UNCHANGED <<plan, asked, toService, request, reply, running, data>>
      /\ fromService \in [Services -> Seq(Packet)] /\ fromService[b] # <<>>
      /\ fromService' = [fromService EXCEPT ![b] = Tail(@)]
      /\ data \in Nat /\ answer \in Seq(Replies) /\ Len(answer) = Len(asked)
  BY DEF OnBackendRecvPkg, clientVars, stateVars, jobVars, FreshInv, IInv, LinksOK, DataOK, RequestsOK
<1>2. PICK p \in Packet : p = Head(fromService[b])
  BY <1>1
<1>3. p = fromService[b][1] /\ 1 \in 1 .. Len(fromService[b]) /\ p.ver \in Versions
  BY <1>1, <1>2 DEF Packet
<1>4. Fits(p) /\ RoutedTo(p.n, b)
  BY <1>1, <1>2, RecvEffect, TailRoutes DEF FreshInv, RoutesOK
<1>5. PICK m : m = asked[p.n].about[1]
  OBVIOUS
<1>6. Service(m) = b /\ p.n \in 1 .. Len(asked)
  BY <1>4, <1>5 DEF RoutedTo
<1>7. AskedStays
  BY <1>1 DEF AskedStays, FreshInv, IInv, RequestsOK
<1>8. /\ \A i \in 1 .. Len(fromService'[b]) :
             i + 1 \in 1 .. Len(fromService[b]) /\ fromService'[b][i] = fromService[b][i + 1]
      /\ \A c \in Services \ {b} : fromService'[c] = fromService[c]
  <2>1. fromService[b] \in Seq(Packet) /\ fromService'[b] = Tail(fromService[b])
    BY <1>1
  <2>2. QED
    BY <1>1, <2>1
<1>9. RoutesOK'
  <2>1. Routed(fromService')
    BY <1>1, TailRoutes DEF FreshInv, RoutesOK
  <2>2. Routed(fromService)'
    BY <1>1, <2>1 DEF Routed, RoutedTo, Service, front
  <2>3. QED
    BY <1>1, <1>7, <2>2, QueueRoutesStay, JobRoutesStay DEF FreshInv, RoutesOK
<1>10. OrderOK'
  <2>1. SUFFICES ASSUME NEW c \in Services \ {"readhistory"},
                        NEW i \in 1 .. Len(fromService'[c]), NEW j \in i .. Len(fromService'[c]),
                        fromService'[c][i].ver \in Nat
                 PROVE  /\ fromService'[c][i].ver <= data
                        /\ fromService'[c][j].ver \in Nat
                              => fromService'[c][i].ver <= fromService'[c][j].ver
    <3>1. \A c \in Services : Len(fromService'[c]) \in Nat
      BY <1>1
    <3>2. \A c \in Services \ {"readhistory"} : \A i \in 1 .. Len(fromService'[c]) :
              i \in i .. Len(fromService'[c])
      BY <3>1
    <3>3. QED
      BY <1>1, <3>2 DEF OrderOK
  <2>2. CASE c # b
    BY <1>8, <2>1, <2>2 DEF FreshInv, OrderOK
  <2>3. CASE c = b
    <3>1. /\ i + 1 \in 1 .. Len(fromService[b]) /\ fromService'[b][i] = fromService[b][i + 1]
          /\ j + 1 \in i + 1 .. Len(fromService[b]) /\ fromService'[b][j] = fromService[b][j + 1]
      <4>1. j \in 1 .. Len(fromService'[b])
        BY <2>1, <2>3
      <4>2. QED
        BY <1>1, <1>8, <2>1, <2>3, <4>1
    <3>2. QED
      BY <2>1, <2>3, <3>1 DEF FreshInv, OrderOK
  <2>4. QED
    BY <2>2, <2>3
<1>11. ASSUME NEW k \in Methods
       PROVE  \A v \in Coming(k)' \cap Nat : v \in Coming(k)
  <2>1. Service(k)' = Service(k) /\ Service(k) \in Services
    BY <1>1, HandlersStay, ServiceOfCached
  <2>2. Coming(k)' = {fromService'[Service(k)][i].ver : i \in 1 .. Len(fromService'[Service(k)])}
                       \cup {data}
    BY <1>1, <2>1 DEF Coming
  <2>3. QED
    BY <1>1, <1>8, <2>1, <2>2 DEF Coming
<1>12. IsCached(m) /\ p.ver \in Nat =>
          p.ver \in Coming(m) /\ \A v \in Coming(m)' \cap Nat : p.ver <= v
  <2>1. SUFFICES ASSUME IsCached(m), p.ver \in Nat
                 PROVE  p.ver \in Coming(m) /\ \A v \in Coming(m)' \cap Nat : p.ver <= v
    OBVIOUS
  <2>2. b # "readhistory"
    BY <1>6, <2>1, ServiceOfCached
  <2>3. p.ver \in Coming(m)
    BY <1>3, <1>6 DEF Coming
  <2>4. p.ver <= data
    BY <1>3, <2>1, <2>2 DEF FreshInv, OrderOK
  <2>5. ASSUME NEW i \in 1 .. Len(fromService'[b]), fromService'[b][i].ver \in Nat
        PROVE  p.ver <= fromService'[b][i].ver
    <3>1. i + 1 \in 1 .. Len(fromService[b]) /\ fromService'[b][i] = fromService[b][i + 1]
      BY <1>8
    <3>2. QED
      BY <1>3, <2>1, <2>2, <2>5, <3>1 DEF FreshInv, OrderOK
  <2>6. Coming(m)' = {fromService'[b][i].ver : i \in 1 .. Len(fromService'[b])} \cup {data}
    BY <1>1, <1>6, HandlersStay DEF Coming
  <2>7. QED
    BY <2>3, <2>4, <2>5, <2>6
<1>13. CASE UNCHANGED stateVars
  <2>1. UNCHANGED <<answer, cache>>
    BY <1>13 DEF stateVars
  <2>2. \A n \in 1 .. Len(answer') : OldOrNoData(n)
    BY <2>1 DEF OldOrNoData
  <2>3. \A k \in Methods : \A v \in Coming(k)' \cap Nat : \E w \in Coming(k) \cap Nat : w <= v
    BY <1>11
  <2>4. \A k : \A w \in Known(k)' : w \in Known(k)
    BY <2>1 DEF Known
  <2>5. Len(answer') = Len(asked')
    BY <1>1, <2>1
  <2>6. FreshOK'
    BY <1>7, <2>2, <2>3, <2>4, <2>5, FreshStays
  <2>7. QED
    BY <1>9, <1>10, <2>2, <2>6 DEF NotOlder
<1>14. CASE ~ UNCHANGED stateVars
  <2>1. PICK now \in OneAnswer :
          /\ now.ver = p.ver
          /\ \/ answer' = answer
             \/ answer' = [answer EXCEPT ![p.n] = <<now>>]
          /\ cache' = IF IsCached(m) /\ p.ver # Refusal THEN ToCache(m, p.ver) ELSE cache
    <3>1. PICK i \in DOMAIN table, v \in Versions :
            LET now == DataTo(table[i].ses, asked[table[i].n].about, v)
            IN  /\ i = p.seq /\ v = p.ver
                /\ now \in OneAnswer
                /\ answer' = IF Asker(table[i])
                             THEN [answer EXCEPT ![table[i].n] = Append(@, now)] ELSE answer
                /\ cache' = IF IsCached(asked[table[i].n].about[1]) /\ v # Refusal
                            THEN ToCache(asked[table[i].n].about[1], v) ELSE cache
                /\ StateDel(i) /\ UNCHANGED asked
      BY <1>2, <1>14, RecvEffect DEF FreshInv
    <3>2. table[i].n = p.n
      BY <1>4, <3>1 DEF Fits
    <3>3. PICK now \in OneAnswer :
            /\ now = DataTo(table[i].ses, asked[table[i].n].about, v)
            /\ answer' = IF Asker(table[i])
                         THEN [answer EXCEPT ![table[i].n] = Append(@, now)] ELSE answer
      BY <3>1
    <3>4. answer' = IF Asker(table[i])
                    THEN [answer EXCEPT ![table[i].n] = <<now>>] ELSE answer
      BY <3>1, <3>3, AnswerOneStep DEF FreshInv
    <3>5. now.ver = p.ver
      BY <3>1, <3>3 DEF DataTo
    <3>6. QED
      BY <1>5, <3>1, <3>2, <3>4, <3>5
  <2>2. /\ Len(answer') = Len(answer)
        /\ \A n \in 1 .. Len(answer) :
              answer'[n] = answer[n] \/ (n = p.n /\ answer'[n] = <<now>>)
    BY <1>1, <2>1
  <2>3. \A n \in 1 .. Len(answer') : OldOrNoData(n) \/ (n = p.n /\ answer'[n] = <<now>>)
    BY <2>2 DEF OldOrNoData
  <2>4. /\ \A k : k # m => Known(k)' = Known(k)
        /\ IsCached(m) /\ p.ver # Refusal => Known(m)' = {p.ver}
        /\ ~(IsCached(m) /\ p.ver # Refusal) => Known(m)' = Known(m)
    <3>1. CASE IsCached(m) /\ p.ver # Refusal
      <4>1. cache' = ToCache(m, p.ver)
        BY <2>1, <3>1
      <4>2. /\ DOMAIN cache' = DOMAIN cache \cup {m} /\ cache'[m].ver = p.ver
            /\ \A k \in DOMAIN cache : k # m => cache'[k] = cache[k]
        BY <4>1 DEF ToCache, With
      <4>3. QED
        BY <3>1, <4>2 DEF Known
    <3>2. CASE ~(IsCached(m) /\ p.ver # Refusal)
      BY <2>1, <3>2 DEF Known
    <3>3. QED
      BY <3>1, <3>2
  <2>5. ASSUME NEW k \in Methods, NEW v \in Nat, SentUpTo(k, v),
               k = m /\ p.ver \in Nat => p.ver <= v
        PROVE  SentUpTo(k, v)'
    <3>1. SUFFICES ASSUME NEW n \in 1 .. Len(answer'), answer'[n] # <<>>,
                          asked'[n].about[1] = k, answer'[n][1].ver \in Nat
                   PROVE  answer'[n][1].ver <= v
      BY DEF SentUpTo
    <3>2. CASE answer'[n] = answer[n]
      BY <1>1, <2>2, <2>5, <3>1, <3>2 DEF SentUpTo
    <3>3. CASE n = p.n /\ answer'[n] = <<now>>
      BY <1>1, <1>5, <2>1, <2>5, <3>1, <3>3
    <3>4. QED
      BY <2>2, <3>2, <3>3
  <2>6. FreshOK'
    <3>1. SUFFICES ASSUME NEW k \in Methods, IsCached(k)
                   PROVE  /\ \A v \in Coming(k)' \cap Nat :
                                SentUpTo(k, v)' /\ \A w \in Known(k)' \cap Nat : w <= v
                          /\ \A w \in Known(k)' \cap Nat : SentUpTo(k, w)'
      BY <1>1, HandlersStay DEF FreshOK
    <3>2. /\ \A v \in Coming(k) \cap Nat :
                 SentUpTo(k, v) /\ \A w \in Known(k) \cap Nat : w <= v
          /\ \A w \in Known(k) \cap Nat : SentUpTo(k, w)
      BY <3>1 DEF FreshInv, FreshOK
    <3>3. ASSUME NEW v \in Coming(k)' \cap Nat
          PROVE  SentUpTo(k, v)' /\ \A w \in Known(k)' \cap Nat : w <= v
      <4>1. v \in Coming(k) \cap Nat
        BY <1>11, <3>3
      <4>2. k = m /\ p.ver \in Nat => p.ver <= v
        BY <1>12, <3>1, <3>3
      <4>3. SentUpTo(k, v)'
        BY <2>5, <3>2, <4>1, <4>2
      <4>4. \A w \in Known(k)' \cap Nat : w <= v
        BY <2>4, <3>1, <3>2, <4>1, <4>2
      <4>5. QED
        BY <4>3, <4>4
    <3>4. ASSUME NEW w \in Known(k)' \cap Nat
          PROVE  SentUpTo(k, w)'
      <4>1. CASE k = m /\ p.ver # Refusal
        <5>1. w = p.ver /\ w \in Nat /\ w \in Coming(k)
          BY <1>12, <2>4, <3>1, <3>4, <4>1
        <5>2. QED
          BY <2>5, <3>2, <5>1
      <4>2. CASE ~(k = m /\ p.ver # Refusal)
        <5>1. w \in Known(k) \cap Nat
          BY <2>4, <3>4, <4>2
        <5>2. k = m => p.ver \notin Nat
          BY <4>2, VersionsAssumption
        <5>3. QED
          BY <2>5, <3>2, <5>1, <5>2
      <4>3. QED
        BY <4>1, <4>2
    <3>5. QED
      BY <3>3, <3>4
  <2>7. NotOlder
    <3>1. SUFFICES ASSUME NEW n \in 1 .. Len(answer'), n = p.n, answer'[n] = <<now>>
                   PROVE  SentInOrder(n)
      BY <2>3 DEF NotOlder
    <3>2. SUFFICES ASSUME NEW k \in Methods, NEW v \in Nat, k = asked'[n].about[1],
                          v = answer'[n][1].ver, IsCached(k)
                   PROVE  SentUpTo(k, v)
      BY DEF SentInOrder
    <3>3. k = m /\ v = p.ver
      BY <1>1, <1>5, <2>1, <3>1, <3>2
    <3>4. v \in Coming(k) \cap Nat
      BY <1>12, <3>2, <3>3
    <3>5. QED
      BY <3>2, <3>4 DEF FreshInv, FreshOK
  <2>8. QED
    BY <1>9, <1>10, <2>6, <2>7
<1>15. QED
  BY <1>13, <1>14

\* Every step keeps the order of what is under way, and no answer is older than one seen.
LEMMA FreshNext ==
    ASSUME "stale_id" \notin Faults, FreshInv, [Next]_vars
    PROVE  FreshInv' /\ AskedStays /\ NotOlder
<1>1. IInv'
  BY InvStep DEF FreshInv
<1>2. AskedStays
  <2>1. plan' = plan
    BY DEF Next, Accept, Close, Authenticate, OnRequest, Drop, Reconnect, Serve,
       OnBackendRecvPkg, OnTimeout, CacheAges, OnCacheTimer, DataChanges, RHRecv, RHThread,
       RHLoop, RHFinish, vars, clientVars
  <2>2. UNCHANGED asked \/ \E s \in Slots, m \in plan.methods : OnRequest(s, m)
    BY DEF Next, Accept, Close, Authenticate, Drop, Reconnect, Serve,
       OnBackendRecvPkg, OnTimeout, CacheAges, OnCacheTimer, DataChanges, RHRecv, RHThread,
       RHLoop, RHFinish, vars, stateVars
  <2>3. asked \in Seq([by : Nat, about : Questions])
    BY DEF FreshInv, IInv, RequestsOK
  <2>4. CASE UNCHANGED asked
    BY <2>1, <2>3, <2>4 DEF AskedStays
  <2>5. ASSUME NEW s \in Slots, NEW m \in plan.methods, OnRequest(s, m)
        PROVE  AskedStays
    <3>1. asked' = Append(asked, [by |-> ses[s], about |-> AboutOf(s, m)])
      BY <2>5 DEF OnRequest, UnknownMethod, Refuse, FromCache, Forward, Asked
    <3>2. [by |-> ses[s], about |-> AboutOf(s, m)] \in [by : Nat, about : Questions]
      BY DEF FreshInv, IInv, ClientsOK, AboutOf, Questions
    <3>3. QED
      BY <2>1, <2>3, <3>1, <3>2, AppendProperties DEF AskedStays
  <2>6. QED
    BY <2>2, <2>4, <2>5
<1>3. (RoutesOK' /\ OrderOK' /\ FreshOK') /\ NotOlder
  <2>1. ASSUME NEW s \in Slots, NEW m \in plan.methods, OnRequest(s, m)
        PROVE  RoutesOK' /\ OrderOK' /\ FreshOK' /\ NotOlder
    BY <2>1, RequestFresh
  <2>2. ASSUME NEW b \in Services, OnBackendRecvPkg(b)
        PROVE  RoutesOK' /\ OrderOK' /\ FreshOK' /\ NotOlder
    BY <2>2, RecvFresh
  <2>3. ASSUME NEW i, OnTimeout(i)
        PROVE  RoutesOK' /\ OrderOK' /\ FreshOK' /\ NotOlder
    BY <2>3, TimeoutFresh
  <2>4. CASE \/ \E s \in Slots : Accept(s) \/ Close(s)
             \/ \E s \in Slots, u \in Users : Authenticate(s, u)
             \/ \E b \in Services : Drop(b) \/ Reconnect(b) \/ Serve(b)
             \/ (\E m \in plan.methods : CacheAges(m)) \/ OnCacheTimer \/ DataChanges
             \/ RHRecv \/ (\E t \in Thread : RHThread(t)) \/ RHLoop
             \/ UNCHANGED vars
    <3>1. UNCHANGED answer
      BY <2>4 DEF Accept, Close, Authenticate, Drop, Reconnect, Serve, CacheAges,
         OnCacheTimer, DataChanges, RHRecv, RHThread, RHLoop, RHFinish, vars, stateVars
    <3>2. NotOlder
      BY <3>1 DEF NotOlder, OldOrNoData
    <3>3. CASE RHLoop
      BY <3>2, <3>3, RHFinishFresh, QuietSteps DEF RHLoop
    <3>4. CASE RHRecv \/ \E t \in Thread : RHThread(t)
      BY <3>2, <3>4, RHRecvFresh, RHThreadFresh
    <3>5. CASE \E b \in Services : Drop(b) \/ Serve(b)
      BY <3>2, <3>5, DropFresh, ServeFresh
    <3>6. RoutesOK' /\ OrderOK' /\ FreshOK'
      BY <2>4, <3>3, <3>4, <3>5, QuietSteps
    <3>7. QED
      BY <3>2, <3>6
  <2>5. QED
    BY <2>1, <2>2, <2>3, <2>4 DEF Next
<1>4. QED
  BY <1>1, <1>2, <1>3 DEF FreshInv

\* What FreshInv says of the answers of one step.
LEMMA NewerThanSent ==
    ASSUME FreshInv, AskedStays, NotOlder, NEW n \in DOMAIN answer', NEW k \in DOMAIN answer',
           Told(n, answer'), ~Told(n, answer), Told(k, answer),
           asked'[n].about = asked'[k].about, IsCached(asked'[n].about[1]),
           RequestsOK'
    PROVE  answer'[n][1].ver >= answer[k][1].ver
<1>1. answer \in Seq(Replies) /\ answer' \in Seq(Replies) /\ Len(answer) = Len(asked)
      /\ Len(answer') = Len(asked')
  BY DEF FreshInv, IInv, RequestsOK
<1>2. \A i \in 0 .. MaxData : i \in Nat
  OBVIOUS
<1>3. n \in 1 .. Len(answer') /\ answer'[n] # <<>> /\ answer'[n][1].ver \in Nat
  BY <1>1, <1>2 DEF Told
<1>4. k \in 1 .. Len(answer) /\ answer[k] # <<>> /\ answer[k][1].ver \in Nat
  BY <1>1, <1>2 DEF Told
<1>5. ~OldOrNoData(n)
  BY <1>1, <1>3 DEF OldOrNoData, Told
<1>6. PICK m, v : m = asked'[n].about[1] /\ v = answer'[n][1].ver
  OBVIOUS
<1>7. m \in Methods
  <2>1. asked' \in Seq([by : Nat, about : Questions])
    BY DEF RequestsOK
  <2>2. asked'[n] \in [by : Nat, about : Questions]
    BY <1>1, <1>3, <2>1, ElementOfSeq
  <2>3. QED
    BY <1>6, <2>2 DEF Questions, Methods
<1>8. SentUpTo(m, v)
  BY <1>3, <1>5, <1>6, <1>7 DEF NotOlder, SentInOrder
<1>9. asked[k].about[1] = m
  BY <1>1, <1>4, <1>6 DEF AskedStays
<1>10. answer[k][1].ver <= v
  BY <1>4, <1>8, <1>9 DEF SentUpTo
<1>11. QED
  BY <1>3, <1>4, <1>6, <1>10

\* NeverOlder: whoever asks accessws about a market, from the cache of the process or
\* from the worker, is never sent older data than the worker has sent before.
THEOREM NobodySeesOlderData == "stale_id" \notin Faults => (Spec => NeverOlder)
<1> SUFFICES ASSUME "stale_id" \notin Faults PROVE Spec => NeverOlder
  OBVIOUS
<1>1. Init => FreshInv
  BY FreshInitially
<1>2. FreshInv /\ [Next]_vars => FreshInv'
  BY FreshNext
<1>3. FreshInv /\ [Next]_vars =>
         [\A n, k \in DOMAIN answer' :
             /\ Told(n, answer') /\ ~Told(n, answer) /\ Told(k, answer)
             /\ asked'[n].about = asked'[k].about /\ IsCached(asked'[n].about[1])
             => answer'[n][1].ver >= answer[k][1].ver]_vars
  <2>1. SUFFICES ASSUME FreshInv, [Next]_vars, NEW n \in DOMAIN answer', NEW k \in DOMAIN answer',
                        Told(n, answer'), ~Told(n, answer), Told(k, answer),
                        asked'[n].about = asked'[k].about, IsCached(asked'[n].about[1])
                 PROVE  answer'[n][1].ver >= answer[k][1].ver
    OBVIOUS
  <2>2. AskedStays /\ NotOlder /\ RequestsOK'
    BY <2>1, FreshNext DEF FreshInv, IInv
  <2>3. QED
    BY <2>1, <2>2, NewerThanSent
<1>4. QED
  BY <1>1, <1>2, <1>3, PTL DEF Spec, NeverOlder
==============================================================================
