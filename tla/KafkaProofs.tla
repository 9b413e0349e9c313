----------------------------- MODULE KafkaProofs -----------------------------
(***************************************************************************)
(* Proofs about what passes through kafka, for any bounds.                 *)
(*                                                                         *)
(* MEOutput, for any operations, limits of the queues and consumers: a     *)
(* consumer is given the messages of its topic in the order in which the   *)
(* engine made them.  A message is on one of three ways: in the list of    *)
(* its topic, in the queue of the producer, or with the broker.  QueueOK   *)
(* says that of one topic what is farther on is not younger, and that      *)
(* holds through push_message, which only goes past the list when it is    *)
(* empty, and produce_list, which takes from its head.                     *)
(*                                                                         *)
(* MPMarket, for any markets, prices, units of time and limits: its        *)
(* klines, last prices and lists of deals are those of the deals that it   *)
(* has read.  PriceInv says so of memory while the process runs and of     *)
(* redis between two flushes, and Behind what redis lacks meanwhile: the   *)
(* klines in the update list and the deals that are not pushed, of the     *)
(* markets whose steps of the flush are still to come.                     *)
(***************************************************************************)
EXTENDS MEOutput, MPMarket, FiniteSetTheorems, SequenceTheorems, WellFoundedInduction, TLAPS

-----------------------------------------------------------------------------
(* Induction, with a set for what is to be shown *)

\* A set that has 0 and the successor of each of its numbers has them all: the smallest
\* number it lacked would have a predecessor that it has.
LEMMA SetInduction ==
    ASSUME NEW S, 0 \in S, \A n \in Nat : n \in S => n + 1 \in S
    PROVE  Nat \subseteq S
<1> DEFINE T == Nat \ S
<1> SUFFICES ASSUME T # {} PROVE FALSE
  OBVIOUS
<1>1. PICK n \in T : \A m \in T : ~(<<m, n>> \in OpToRel(<, Nat))
  <2>1. T \subseteq Nat
    OBVIOUS
  <2> HIDE DEF T
  <2> QED
    BY <2>1, NatLessThanWellFounded, WFMin
<1>2. n \in Nat /\ n # 0
  BY <1>1
<1>3. n - 1 \in Nat /\ (n - 1) + 1 = n
  BY <1>2
<1>4. n - 1 \in T
  BY <1>1, <1>3
<1>5. <<n - 1, n>> \in OpToRel(<, Nat)
  BY <1>2, <1>3 DEF OpToRel
<1> QED
  BY <1>1, <1>4, <1>5

-----------------------------------------------------------------------------
(* The order of the messages of a topic *)

Msg == [topic : Topic, n : Nat]

Rising(s) == \A i, j \in 1..Len(s) : i < j => s[i].n <= s[j].n

\* The lists L and the queue P hold messages in the order of each topic: those of the
\* queue before those of the list, none of a topic t older than low[t], none younger than
\* top.
QueueOK(L, P, low, top) ==
    /\ top \in Nat /\ low \in [Topic -> 0..top]
    /\ L \in [Topic -> Seq(Msg)] /\ P \in Seq(Msg)
    /\ \A t \in Topic : Rising(L[t])
    /\ \A t \in Topic : \A i \in 1..Len(L[t]) :
          L[t][i].topic = t /\ low[t] <= L[t][i].n /\ L[t][i].n <= top
    /\ \A i \in 1..Len(P) : low[P[i].topic] <= P[i].n /\ P[i].n <= top
    /\ \A i, j \in 1..Len(P) : i < j /\ P[i].topic = P[j].topic => P[i].n <= P[j].n
    /\ \A i \in 1..Len(P) : \A j \in 1..Len(L[P[i].topic]) : P[i].n <= L[P[i].topic][j].n

\* Operators on lists and queues work on a record of both.
OutOK(out, low, top) ==
    /\ out = [lists |-> out.lists, producer |-> out.producer]
    /\ QueueOK(out.lists, out.producer, low, top)

LEMMA QueueHas ==
    ASSUME NEW L, NEW P, NEW low, NEW top, QueueOK(L, P, low, top)
    PROVE  /\ \A t \in Topic : L[t] \in Seq(Msg) /\ Len(L[t]) \in Nat /\ low[t] \in Nat
           /\ \A t \in Topic : \A i \in 1..Len(L[t]) : L[t][i] \in Msg /\ L[t][i].n \in Nat
           /\ Len(P) \in Nat /\ \A i \in 1..Len(P) : P[i] \in Msg /\ P[i].topic \in Topic /\ P[i].n \in Nat
<1>1. \A m \in Msg : m.topic \in Topic /\ m.n \in Nat
  BY DEF Msg
<1>2. top \in Nat /\ low \in [Topic -> 0..top] /\ L \in [Topic -> Seq(Msg)] /\ P \in Seq(Msg)
  BY DEF QueueOK
<1>3. \A t \in Topic : L[t] \in Seq(Msg) /\ Len(L[t]) \in Nat /\ low[t] \in Nat
  BY <1>2
<1>4. \A t \in Topic : \A i \in 1..Len(L[t]) : L[t][i] \in Msg
  BY <1>3, ElementOfSeq
<1>5. Len(P) \in Nat /\ \A i \in 1..Len(P) : P[i] \in Msg
  BY <1>2, ElementOfSeq
<1> QED
  BY <1>1, <1>3, <1>4, <1>5

\* A message at the end of the list of its topic, which is the youngest
LEMMA LaterOK ==
    ASSUME NEW L, NEW P, NEW low, NEW top, QueueOK(L, P, low, top), NEW m \in Msg, m.n = top
    PROVE  QueueOK([L EXCEPT ![m.topic] = Append(L[m.topic], m)], P, low, top)
<1> DEFINE t == m.topic
           l == Append(L[t], m)
           M == [L EXCEPT ![t] = l]
<1>1. /\ top \in Nat /\ low \in [Topic -> 0..top] /\ L \in [Topic -> Seq(Msg)] /\ P \in Seq(Msg)
      /\ t \in Topic
  BY DEF QueueOK, Msg
<1>2. /\ l \in Seq(Msg) /\ Len(l) = Len(L[t]) + 1 /\ Len(L[t]) \in Nat
      /\ \A i \in 1..(Len(L[t]) + 1) : l[i] = IF i <= Len(L[t]) THEN L[t][i] ELSE m
  BY <1>1, AppendProperties
<1>3. M \in [Topic -> Seq(Msg)] /\ M[t] = l /\ \A u \in Topic \ {t} : M[u] = L[u]
  BY <1>1, <1>2
<1>4. \A i \in 1..Len(L[t]) : L[t][i].topic = t /\ low[t] <= L[t][i].n /\ L[t][i].n <= top /\ L[t][i].n \in Nat
  <2>1. \A i \in 1..Len(L[t]) : L[t][i].n \in Nat
    BY <1>1, QueueHas
  <2> QED
    BY <1>1, <2>1 DEF QueueOK
<1>5. \A i \in 1..Len(P) : P[i].topic \in Topic /\ P[i].n \in Nat /\ P[i].n <= top
  <2>1. \A i \in 1..Len(P) : P[i].topic \in Topic /\ P[i].n \in Nat
    BY QueueHas
  <2> QED
    BY <2>1 DEF QueueOK
<1> HIDE DEF t, l, M
<1>6. \A i \in 1..Len(l) : l[i].topic = t /\ low[t] <= l[i].n /\ l[i].n <= top
  <2> TAKE i \in 1..Len(l)
  <2>1. CASE i <= Len(L[t])
    BY <1>2, <1>4, <2>1
  <2>2. CASE ~(i <= Len(L[t]))
    <3>1. l[i] = m
      BY <1>2, <2>2
    <3>2. low[t] \in 0..top
      BY <1>1
    <3> QED
      BY <1>1, <3>1, <3>2 DEF t
  <2> QED
    BY <2>1, <2>2
<1>7. Rising(l)
  <2> SUFFICES ASSUME NEW i \in 1..Len(l), NEW j \in 1..Len(l), i < j PROVE l[i].n <= l[j].n
    BY DEF Rising
  <2>1. i \in 1..Len(L[t]) /\ l[i] = L[t][i]
    BY <1>2
  <2>2. CASE j <= Len(L[t])
    <3>1. l[j] = L[t][j] /\ j \in 1..Len(L[t])
      BY <1>2, <2>2
    <3>2. Rising(L[t])
      BY <1>1 DEF QueueOK
    <3> QED
      BY <2>1, <3>1, <3>2 DEF Rising
  <2>3. CASE ~(j <= Len(L[t]))
    <3>1. l[j] = m
      BY <1>2, <2>3
    <3> QED
      BY <1>4, <2>1, <3>1
  <2> QED
    BY <2>2, <2>3
<1>8. ASSUME NEW i \in 1..Len(P), NEW j \in 1..Len(M[P[i].topic]) PROVE P[i].n <= M[P[i].topic][j].n
  <2>1. CASE P[i].topic = t /\ j <= Len(L[t])
    <3>1. j \in 1..(Len(L[t]) + 1) /\ j \in 1..Len(L[t])
      BY <1>2, <1>3, <1>8, <2>1
    <3>2. l[j] = L[t][j] /\ M[t] = l
      BY <1>2, <1>3, <2>1, <3>1
    <3>3. M[P[i].topic][j] = L[P[i].topic][j] /\ j \in 1..Len(L[P[i].topic])
      BY <2>1, <3>1, <3>2
    <3> QED
      BY <3>3 DEF QueueOK
  <2>2. CASE P[i].topic = t /\ ~(j <= Len(L[t]))
    <3>1. M[P[i].topic][j] = m
      BY <1>2, <1>3, <2>2
    <3> QED
      BY <1>5, <3>1
  <2>3. CASE P[i].topic # t
    BY <1>3, <1>5, <2>3 DEF QueueOK
  <2> QED
    BY <2>1, <2>2, <2>3
<1>9. \A u \in Topic : Rising(M[u])
  BY <1>3, <1>7 DEF QueueOK
<1>10. \A u \in Topic : \A i \in 1..Len(M[u]) : M[u][i].topic = u /\ low[u] <= M[u][i].n /\ M[u][i].n <= top
  <2> TAKE u \in Topic
  <2>1. CASE u = t
    BY <1>3, <1>6, <2>1
  <2>2. CASE u # t
    BY <1>3, <2>2 DEF QueueOK
  <2> QED
    BY <2>1, <2>2
<1>11. QueueOK(M, P, low, top)
  BY <1>1, <1>3, <1>8, <1>9, <1>10 DEF QueueOK
<1> QED
  BY <1>11 DEF M, l, t

\* A message at the end of the queue, not older than those of its topic there and not younger
\* than those of its list
LEMMA ProducedOK ==
    ASSUME NEW L, NEW P, NEW low, NEW top, QueueOK(L, P, low, top), NEW m \in Msg,
           low[m.topic] <= m.n, m.n <= top,
           \A i \in 1..Len(P) : P[i].topic = m.topic => P[i].n <= m.n,
           \A j \in 1..Len(L[m.topic]) : m.n <= L[m.topic][j].n
    PROVE  QueueOK(L, Produced(P, m), low, top)
<1>1. CASE m \in Refused
  BY <1>1 DEF Produced
<1>2. CASE m \notin Refused
  <2>1. PICK Q : Q = Append(P, m)
    OBVIOUS
  <2>2. /\ top \in Nat /\ low \in [Topic -> 0..top] /\ L \in [Topic -> Seq(Msg)] /\ P \in Seq(Msg)
        /\ \A i \in 1..Len(P) : P[i] \in Msg
    BY DEF QueueOK
  <2>3. /\ Q \in Seq(Msg) /\ Len(Q) = Len(P) + 1 /\ Len(P) \in Nat
        /\ \A i \in 1..(Len(P) + 1) : Q[i] = IF i <= Len(P) THEN P[i] ELSE m
    BY <2>1, <2>2, AppendProperties
  <2>4. \A i \in 1..Len(Q) : (i \in 1..Len(P) /\ Q[i] = P[i]) \/ (~(i <= Len(P)) /\ Q[i] = m)
    BY <2>3
  <2>5. \A i \in 1..Len(Q) : low[Q[i].topic] <= Q[i].n /\ Q[i].n <= top
    BY <2>4 DEF QueueOK
  <2>6. ASSUME NEW i \in 1..Len(Q), NEW j \in 1..Len(Q), i < j, Q[i].topic = Q[j].topic PROVE Q[i].n <= Q[j].n
    <3>1. i \in 1..Len(P) /\ Q[i] = P[i]
      BY <2>3, <2>6
    <3>2. CASE j \in 1..Len(P) /\ Q[j] = P[j]
      BY <2>6, <3>1, <3>2 DEF QueueOK
    <3>3. CASE Q[j] = m
      BY <2>6, <3>1, <3>3
    <3> QED
      BY <2>4, <3>2, <3>3
  <2>7. \A i \in 1..Len(Q) : \A j \in 1..Len(L[Q[i].topic]) : Q[i].n <= L[Q[i].topic][j].n
    BY <2>4 DEF QueueOK
  <2>8. QueueOK(L, Q, low, top)
    BY <2>2, <2>3, <2>5, <2>6, <2>7 DEF QueueOK
  <2> QED
    BY <1>2, <2>1, <2>8 DEF Produced
<1> QED
  BY <1>1, <1>2

\* push_message: to the list if it is not empty or the queue is full, and to the queue otherwise
LEMMA PushOK ==
    ASSUME NEW out, NEW low, NEW top, OutOK(out, low, top), NEW m \in Msg, m.n = top
    PROVE  OutOK(PushMessage(out, m), low, top)
<1> DEFINE L == out.lists
           P == out.producer
<1>1. out = [lists |-> L, producer |-> P] /\ QueueOK(L, P, low, top)
  BY DEF OutOK
<1>2. m.topic \in Topic /\ L \in [Topic -> Seq(Msg)]
  BY <1>1 DEF QueueOK, Msg
<1>3. OutOK(Later(out, m), low, top)
  <2>1. Later(out, m) = [lists |-> [L EXCEPT ![m.topic] = Append(L[m.topic], m)], producer |-> P]
    <3>1. Later(out, m) = [out EXCEPT !.lists = [L EXCEPT ![m.topic] = Append(L[m.topic], m)]]
      BY DEF Later
    <3>2. PICK K : K = [L EXCEPT ![m.topic] = Append(L[m.topic], m)]
      OBVIOUS
    <3>3. [out EXCEPT !.lists = K] = [lists |-> K, producer |-> P]
      <4> HIDE DEF L, P
      <4> QED
        BY <1>1
    <3> QED
      BY <3>1, <3>2, <3>3
  <2>2. QueueOK([L EXCEPT ![m.topic] = Append(L[m.topic], m)], P, low, top)
    BY <1>1, LaterOK
  <2> QED
    BY <2>1, <2>2 DEF OutOK
<1>4. CASE L[m.topic] # <<>> \/ IsFull(P)
  <2>1. PushMessage(out, m) = Later(out, m)
    BY <1>4 DEF PushMessage, ProduceFirst
  <2> QED
    BY <1>3, <2>1
<1>5. CASE L[m.topic] = <<>> /\ ~IsFull(P)
  <2>1. PushMessage(out, m) = [out EXCEPT !.producer = Produced(P, m)]
    BY <1>5 DEF PushMessage, ProduceFirst
  <2>2. [out EXCEPT !.producer = Produced(P, m)] = [lists |-> L, producer |-> Produced(P, m)]
    BY <1>1
  <2>3. low[m.topic] <= m.n /\ m.n <= top
    BY <1>1, <1>2 DEF QueueOK
  <2>4. \A i \in 1..Len(P) : P[i].n <= m.n
    BY <1>1 DEF QueueOK
  <2>5. \A j \in 1..Len(L[m.topic]) : m.n <= L[m.topic][j].n
    BY <1>5
  <2>6. QueueOK(L, Produced(P, m), low, top)
    BY <1>1, <2>3, <2>4, <2>5, ProducedOK
  <2> QED
    BY <2>1, <2>2, <2>6 DEF OutOK
<1> QED
  BY <1>4, <1>5

\* The head of a list goes to the end of the queue.
LEMMA HeadProducedOK ==
    ASSUME NEW L, NEW P, NEW low, NEW top, QueueOK(L, P, low, top), NEW t \in Topic, L[t] # <<>>
    PROVE  /\ QueueOK([L EXCEPT ![t] = Tail(L[t])], Produced(P, Head(L[t])), low, top)
           /\ Len(Tail(L[t])) = Len(L[t]) - 1
<1> DEFINE m == Head(L[t])
           l == Tail(L[t])
           M == [L EXCEPT ![t] = l]
<1>1. /\ top \in Nat /\ low \in [Topic -> 0..top] /\ L \in [Topic -> Seq(Msg)] /\ P \in Seq(Msg)
  BY DEF QueueOK
<1>2. /\ m = L[t][1] /\ 1 \in 1..Len(L[t]) /\ Len(L[t]) \in Nat
      /\ l \in Seq(Msg) /\ Len(l) = Len(L[t]) - 1 /\ \A i \in 1..Len(l) : l[i] = L[t][i + 1]
  <2>1. L[t] \in Seq(Msg)
    BY <1>1
  <2> QED
    BY <2>1, HeadTailProperties, EmptySeq
<1>3. M \in [Topic -> Seq(Msg)] /\ M[t] = l /\ \A u \in Topic \ {t} : M[u] = L[u]
  BY <1>1, <1>2
<1>4. m \in Msg /\ m.topic = t /\ low[t] <= m.n /\ m.n <= top /\ m.n \in Nat
  <2>1. L[t][1] \in Msg /\ L[t][1].n \in Nat
    BY <1>2, QueueHas
  <2> QED
    BY <1>2, <2>1 DEF QueueOK
<1> HIDE DEF m, l, M
<1>5. \A i \in 1..Len(l) : i + 1 \in 1..Len(L[t]) /\ 1 < i + 1
  BY <1>2
<1>6. \A j \in 1..Len(l) : m.n <= l[j].n
  <2>1. Rising(L[t])
    BY DEF QueueOK
  <2> QED
    BY <1>2, <1>5, <2>1 DEF Rising
<1>7. Rising(l)
  <2> SUFFICES ASSUME NEW i \in 1..Len(l), NEW j \in 1..Len(l), i < j PROVE l[i].n <= l[j].n
    BY DEF Rising
  <2>1. Rising(L[t])
    BY DEF QueueOK
  <2>2. i + 1 < j + 1
    BY <1>2
  <2> QED
    BY <1>2, <1>5, <2>1, <2>2 DEF Rising
<1>8. QueueOK(M, P, low, top)
  <2>1. \A u \in Topic : Rising(M[u])
    BY <1>3, <1>7 DEF QueueOK
  <2>2. ASSUME NEW u \in Topic, NEW i \in 1..Len(M[u])
        PROVE  M[u][i].topic = u /\ low[u] <= M[u][i].n /\ M[u][i].n <= top
    <3>1. CASE u = t
      <4>1. M[u][i] = L[t][i + 1] /\ i + 1 \in 1..Len(L[t])
        BY <1>2, <1>3, <1>5, <2>2, <3>1
      <4>2. L[t][i + 1].topic = t /\ low[t] <= L[t][i + 1].n /\ L[t][i + 1].n <= top
        BY <4>1 DEF QueueOK
      <4> QED
        BY <3>1, <4>1, <4>2
    <3>2. CASE u # t
      BY <1>3, <2>2, <3>2 DEF QueueOK
    <3> QED
      BY <3>1, <3>2
  <2>3. ASSUME NEW i \in 1..Len(P), NEW j \in 1..Len(M[P[i].topic]) PROVE P[i].n <= M[P[i].topic][j].n
    <3>1. P[i].topic \in Topic
      BY QueueHas
    <3>2. CASE P[i].topic = t
      <4>1. M[P[i].topic][j] = L[t][j + 1] /\ j + 1 \in 1..Len(L[t])
        BY <1>2, <1>3, <1>5, <2>3, <3>2
      <4>2. P[i].n <= L[P[i].topic][j + 1].n
        BY <3>2, <4>1 DEF QueueOK
      <4> QED
        BY <3>2, <4>1, <4>2
    <3>3. CASE P[i].topic # t
      BY <1>3, <2>3, <3>1, <3>3 DEF QueueOK
    <3> QED
      BY <3>2, <3>3
  <2> QED
    BY <1>1, <1>3, <2>1, <2>2, <2>3 DEF QueueOK
<1>9. \A i \in 1..Len(P) : P[i].topic = m.topic => P[i].n <= m.n
  BY <1>2, <1>4 DEF QueueOK
<1>10. \A j \in 1..Len(M[m.topic]) : m.n <= M[m.topic][j].n
  BY <1>3, <1>4, <1>6
<1>11. low[m.topic] <= m.n
  BY <1>4
<1>12. QueueOK(M, Produced(P, m), low, top)
  BY <1>4, <1>8, <1>9, <1>10, <1>11, ProducedOK
<1> QED
  BY <1>2, <1>12 DEF m, l, M

-----------------------------------------------------------------------------
(* The loops over messages, lists and topics *)

\* The loops as functions of the steps they have done, with the state before the first step
PushLoop(f, out, msgs, n) ==
    f = [i \in 0..n |-> IF i = 0 THEN out ELSE PushMessage(f[i - 1], msgs[i])]
\* A step of produce_list
ProduceOne(before, topic) ==
    IF IsFull(before.producer) THEN before
    ELSE [lists |-> [before.lists EXCEPT ![topic] = Tail(@)],
          producer |-> Produced(before.producer, Head(before.lists[topic]))]
ProduceLoop(f, out, topic, n) ==
    f = [i \in 0..n |-> IF i = 0 THEN out ELSE ProduceOne(f[i - 1], topic)]
TimerLoop(f, out, n) ==
    f = [i \in 0..n |-> IF i = 0 THEN out ELSE ProduceList(f[i - 1], Topics[i])]

LEMMA PushLoopRuns ==
    ASSUME NEW out, NEW msgs, NEW n \in Nat
    PROVE  \E f : PushLoop(f, out, msgs, n)
<1> DEFINE T == {m \in Nat : \E f : PushLoop(f, out, msgs, m)}
<1>1. 0 \in T
  <2>1. PushLoop([i \in 0..0 |-> out], out, msgs, 0)
    BY DEF PushLoop
  <2> QED
    BY <2>1
<1>2. ASSUME NEW m \in Nat, m \in T PROVE m + 1 \in T
  <2>1. PICK f : PushLoop(f, out, msgs, m)
    BY <1>2
  <2> DEFINE g == [i \in 0..(m + 1) |-> IF i <= m THEN f[i] ELSE PushMessage(f[m], msgs[m + 1])]
  <2>2. \A i \in 0..m : f[i] = IF i = 0 THEN out ELSE PushMessage(f[i - 1], msgs[i])
    BY <2>1 DEF PushLoop
  <2>3. ASSUME NEW i \in 0..(m + 1) PROVE g[i] = IF i = 0 THEN out ELSE PushMessage(g[i - 1], msgs[i])
    <3>1. CASE i <= m
      <4>1. g[i] = f[i] /\ (i # 0 => g[i - 1] = f[i - 1]) /\ i \in 0..m
        BY <3>1
      <4> HIDE DEF g
      <4> QED
        BY <2>2, <4>1
    <3>2. CASE i = m + 1
      <4>1. g[i] = PushMessage(f[m], msgs[m + 1]) /\ g[m] = f[m] /\ i - 1 = m /\ i # 0
        BY <3>2
      <4> HIDE DEF g
      <4> QED
        BY <3>2, <4>1
    <3> QED
      BY <3>1, <3>2
  <2>4. g = [i \in 0..(m + 1) |-> g[i]]
    OBVIOUS
  <2> HIDE DEF g
  <2>5. PushLoop(g, out, msgs, m + 1)
    BY <2>3, <2>4 DEF PushLoop
  <2> QED
    BY <2>5
<1> HIDE DEF T
<1>3. n \in T
  BY <1>1, <1>2, SetInduction
<1> QED
  BY <1>3 DEF T

LEMMA ProduceLoopRuns ==
    ASSUME NEW out, NEW topic, NEW n \in Nat
    PROVE  \E f : ProduceLoop(f, out, topic, n)
<1> DEFINE T == {m \in Nat : \E f : ProduceLoop(f, out, topic, m)}
<1>1. 0 \in T
  <2>1. ProduceLoop([i \in 0..0 |-> out], out, topic, 0)
    BY DEF ProduceLoop
  <2> QED
    BY <2>1
<1>2. ASSUME NEW m \in Nat, m \in T PROVE m + 1 \in T
  <2>1. PICK f : ProduceLoop(f, out, topic, m)
    BY <1>2
  <2> DEFINE g == [i \in 0..(m + 1) |-> IF i <= m THEN f[i] ELSE ProduceOne(f[m], topic)]
  <2>2. \A i \in 0..m : f[i] = IF i = 0 THEN out ELSE ProduceOne(f[i - 1], topic)
    BY <2>1 DEF ProduceLoop
  <2>3. ASSUME NEW i \in 0..(m + 1) PROVE g[i] = IF i = 0 THEN out ELSE ProduceOne(g[i - 1], topic)
    <3>1. CASE i <= m
      <4>1. g[i] = f[i] /\ (i # 0 => g[i - 1] = f[i - 1]) /\ i \in 0..m
        BY <3>1
      <4> HIDE DEF g
      <4> QED
        BY <2>2, <4>1
    <3>2. CASE i = m + 1
      <4>1. g[i] = ProduceOne(f[m], topic) /\ g[m] = f[m] /\ i - 1 = m /\ i # 0
        BY <3>2
      <4> HIDE DEF g
      <4> QED
        BY <3>2, <4>1
    <3> QED
      BY <3>1, <3>2
  <2>4. g = [i \in 0..(m + 1) |-> g[i]]
    OBVIOUS
  <2> HIDE DEF g
  <2>5. ProduceLoop(g, out, topic, m + 1)
    BY <2>3, <2>4 DEF ProduceLoop
  <2> QED
    BY <2>5
<1> HIDE DEF T
<1>3. n \in T
  BY <1>1, <1>2, SetInduction
<1> QED
  BY <1>3 DEF T

LEMMA TimerLoopRuns == ASSUME NEW out PROVE \E f : TimerLoop(f, out, Len(Topics))
<1> DEFINE a == ProduceList(out, Topics[1])
           b == ProduceList(a, Topics[2])
           c == ProduceList(b, Topics[3])
           g == [i \in 0..3 |-> IF i = 0 THEN out ELSE IF i = 1 THEN a ELSE IF i = 2 THEN b ELSE c]
<1>1. g[0] = out /\ g[1] = a /\ g[2] = b /\ g[3] = c
  OBVIOUS
<1>2. g = [i \in 0..3 |-> g[i]]
  OBVIOUS
<1> HIDE DEF g
<1>3. \A i \in 0..3 : g[i] = IF i = 0 THEN out ELSE ProduceList(g[i - 1], Topics[i])
  <2> TAKE i \in 0..3
  <2>1. i = 0 \/ i = 1 \/ i = 2 \/ i = 3
    OBVIOUS
  <2> QED
    BY <1>1, <2>1
<1>4. Len(Topics) = 3
  BY DEF Topics
<1> HIDE DEF a, b, c
<1>5. TimerLoop(g, out, 3)
  BY <1>2, <1>3 DEF TimerLoop
<1> QED
  BY <1>4, <1>5

\* produce_list, from the head of a list until the queue is full
LEMMA ProduceListOK ==
    ASSUME NEW out, NEW low, NEW top, OutOK(out, low, top), NEW t \in Topic
    PROVE  OutOK(ProduceList(out, t), low, top)
<1> DEFINE N == Len(out.lists[t])
<1>1. N \in Nat
  <2>1. QueueOK(out.lists, out.producer, low, top)
    BY DEF OutOK
  <2> QED
    BY <2>1, QueueHas
<1>2. \E f : ProduceLoop(f, out, t, N)
  BY <1>1, ProduceLoopRuns
<1>3. \E f : ProduceLoop(f, out, t, N) /\ ProduceList(out, t) = f[N]
  BY <1>2, Zenon DEF ProduceList, ProduceLoop, ProduceOne
<1>4. PICK f : ProduceLoop(f, out, t, N) /\ ProduceList(out, t) = f[N]
  BY <1>3
<1>5. \A i \in 0..N : f[i] = IF i = 0 THEN out ELSE ProduceOne(f[i - 1], t)
  BY <1>4 DEF ProduceLoop
<1> DEFINE OK(n) == OutOK(f[n], low, top) /\ Len(f[n].lists[t]) >= N - n
           T == {n \in Nat : n <= N => OK(n)}
<1>6. 0 \in T
  <2>1. f[0] = out
    BY <1>1, <1>5
  <2>2. Len(f[0].lists[t]) >= N - 0
    <3>1. Len(f[0].lists[t]) = N
      BY <2>1
    <3> HIDE DEF N
    <3> QED
      BY <1>1, <3>1
  <2>3. OK(0)
    BY <2>1, <2>2
  <2> QED
    BY <2>3
<1>7. ASSUME NEW n \in Nat, n \in T PROVE n + 1 \in T
  <2> SUFFICES ASSUME n + 1 <= N PROVE OK(n + 1)
    OBVIOUS
  <2>1. f[n + 1] = ProduceOne(f[n], t)
    <3>1. n + 1 \in 0..N /\ n + 1 # 0 /\ (n + 1) - 1 = n
      BY <1>1
    <3> QED
      BY <1>5, <3>1
  <2>2. OutOK(f[n], low, top) /\ Len(f[n].lists[t]) >= N - n
    BY <1>1, <1>7
  <2>3. PICK L, P : L = f[n].lists /\ P = f[n].producer
    OBVIOUS
  <2>4. f[n] = [lists |-> L, producer |-> P] /\ QueueOK(L, P, low, top)
    BY <2>2, <2>3 DEF OutOK
  <2>5. Len(L[t]) \in Nat /\ Len(L[t]) >= N - n
    BY <2>2, <2>3, <2>4, QueueHas
  <2>6. CASE IsFull(P)
    <3>1. f[n + 1] = f[n]
      BY <2>1, <2>3, <2>6 DEF ProduceOne
    <3>2. Len(L[t]) >= N - (n + 1)
      BY <1>1, <2>5
    <3> QED
      BY <2>2, <2>3, <3>1, <3>2
  <2>7. CASE ~IsFull(P)
    <3>1. f[n + 1] = [lists |-> [L EXCEPT ![t] = Tail(L[t])], producer |-> Produced(P, Head(L[t]))]
      BY <2>1, <2>3, <2>7 DEF ProduceOne
    <3>2. L[t] # <<>>
      BY <1>1, <2>5
    <3>3. /\ QueueOK([L EXCEPT ![t] = Tail(L[t])], Produced(P, Head(L[t])), low, top)
          /\ Len(Tail(L[t])) = Len(L[t]) - 1
      BY <2>4, <3>2, HeadProducedOK
    <3>4. OutOK(f[n + 1], low, top)
      BY <3>1, <3>3 DEF OutOK
    <3>5. f[n + 1].lists[t] = Tail(L[t])
      <4>1. L \in [Topic -> Seq(Msg)]
        BY <2>4 DEF QueueOK
      <4> QED
        BY <3>1, <4>1
    <3>6. Len(f[n + 1].lists[t]) >= N - (n + 1)
      BY <1>1, <2>5, <3>3, <3>5
    <3> QED
      BY <3>4, <3>6
  <2> QED
    BY <2>6, <2>7
<1>8. OK(N)
  <2>1. Nat \subseteq T
    <3> HIDE DEF T
    <3> QED
      BY <1>6, <1>7, SetInduction
  <2> HIDE DEF N
  <2> QED
    BY <1>1, <2>1
<1> QED
  BY <1>4, <1>8

\* The messages of an operation, which are the youngest, one after the other
LEMMA PushesOK ==
    ASSUME NEW msgs \in Seq(Msg), NEW low, NEW top, QueueOK(lists, producer, low, top),
           \A i \in 1..Len(msgs) : msgs[i].n = top, PushMessages(msgs)
    PROVE  QueueOK(lists', producer', low, top)
<1> DEFINE out == [lists |-> lists, producer |-> producer]
           N == Len(msgs)
<1>1. N \in Nat /\ \A i \in 1..N : msgs[i] \in Msg
  BY ElementOfSeq
<1>2. \E f : PushLoop(f, out, msgs, N)
  BY <1>1, PushLoopRuns
<1>3. \E f : PushLoop(f, out, msgs, N) /\ lists' = f[N].lists /\ producer' = f[N].producer
  BY <1>2, Zenon DEF PushMessages, PushLoop
<1>4. PICK f : PushLoop(f, out, msgs, N) /\ lists' = f[N].lists /\ producer' = f[N].producer
  BY <1>3
<1>5. \A i \in 0..N : f[i] = IF i = 0 THEN out ELSE PushMessage(f[i - 1], msgs[i])
  BY <1>4 DEF PushLoop
<1> DEFINE T == {n \in Nat : n <= N => OutOK(f[n], low, top)}
<1>6. 0 \in T
  <2>1. f[0] = out
    BY <1>1, <1>5
  <2>2. OutOK(out, low, top)
    BY DEF OutOK
  <2> QED
    BY <2>1, <2>2
<1>7. ASSUME NEW n \in Nat, n \in T PROVE n + 1 \in T
  <2> SUFFICES ASSUME n + 1 <= N PROVE OutOK(f[n + 1], low, top)
    OBVIOUS
  <2>1. n + 1 \in 0..N /\ n + 1 \in 1..N /\ n + 1 # 0 /\ (n + 1) - 1 = n /\ n <= N
    BY <1>1
  <2>2. f[n + 1] = PushMessage(f[n], msgs[n + 1])
    BY <1>5, <2>1
  <2>3. OutOK(f[n], low, top)
    BY <1>7, <2>1
  <2>4. msgs[n + 1] \in Msg /\ msgs[n + 1].n = top
    BY <1>1, <2>1
  <2>5. OutOK(PushMessage(f[n], msgs[n + 1]), low, top)
    BY <2>3, <2>4, PushOK
  <2> QED
    BY <2>2, <2>5
<1>8. OutOK(f[N], low, top)
  <2>1. Nat \subseteq T
    <3> HIDE DEF T
    <3> QED
      BY <1>6, <1>7, SetInduction
  <2> QED
    BY <1>1, <2>1
<1> QED
  BY <1>4, <1>8 DEF OutOK

\* on_timer, which goes through the lists of the topics
LEMMA TimerOK ==
    ASSUME NEW low, NEW top, QueueOK(lists, producer, low, top), MessageTimer
    PROVE  QueueOK(lists', producer', low, top)
<1> DEFINE out == [lists |-> lists, producer |-> producer]
<1>1. \E f : TimerLoop(f, out, Len(Topics))
  BY TimerLoopRuns
<1>2. \E f : /\ TimerLoop(f, out, Len(Topics))
             /\ lists' = f[Len(Topics)].lists /\ producer' = f[Len(Topics)].producer
  BY <1>1, Zenon DEF MessageTimer, TimerLoop
<1>3. PICK f : /\ TimerLoop(f, out, Len(Topics))
               /\ lists' = f[Len(Topics)].lists /\ producer' = f[Len(Topics)].producer
  BY <1>2
<1>4. Len(Topics) = 3 /\ \A i \in 1..3 : Topics[i] \in Topic
  BY DEF Topic, Topics
<1>5. \A i \in 0..3 : f[i] = IF i = 0 THEN out ELSE ProduceList(f[i - 1], Topics[i])
  BY <1>3, <1>4 DEF TimerLoop
<1>6. OutOK(f[0], low, top)
  <2>1. f[0] = out
    BY <1>5
  <2>2. OutOK(out, low, top)
    BY DEF OutOK
  <2> QED
    BY <2>1, <2>2
<1>7. ASSUME NEW i \in 1..3, OutOK(f[i - 1], low, top) PROVE OutOK(f[i], low, top)
  <2>1. f[i] = ProduceList(f[i - 1], Topics[i])
    BY <1>5
  <2>2. OutOK(ProduceList(f[i - 1], Topics[i]), low, top)
    BY <1>4, <1>7, ProduceListOK
  <2> QED
    BY <2>1, <2>2
<1>8. OutOK(f[3], low, top)
  <2>1. OutOK(f[1], low, top)
    BY <1>6, <1>7
  <2>2. OutOK(f[2], low, top)
    BY <1>7, <2>1
  <2> QED
    BY <1>7, <2>2
<1> QED
  BY <1>3, <1>4, <1>8 DEF OutOK

-----------------------------------------------------------------------------
(* What the broker has, and the consumers *)

\* The first message of the queue leaves it: it is at least as old as all that its topic
\* has in the queue and in its list.
LEMMA SentOK ==
    ASSUME NEW L, NEW P, NEW low, NEW top, QueueOK(L, P, low, top), P # <<>>
    PROVE  /\ Head(P) \in Msg /\ low[Head(P).topic] <= Head(P).n
           /\ QueueOK(L, Tail(P), low, top)
           /\ QueueOK(L, Tail(P), [low EXCEPT ![Head(P).topic] = Head(P).n], top)
<1> DEFINE m == Head(P)
           Q == Tail(P)
           new == [low EXCEPT ![m.topic] = m.n]
<1>1. top \in Nat /\ low \in [Topic -> 0..top] /\ L \in [Topic -> Seq(Msg)] /\ P \in Seq(Msg)
  BY DEF QueueOK
<1>2. /\ m = P[1] /\ 1 \in 1..Len(P) /\ Len(P) \in Nat
      /\ Q \in Seq(Msg) /\ Len(Q) = Len(P) - 1 /\ \A i \in 1..Len(Q) : Q[i] = P[i + 1]
  BY <1>1, HeadTailProperties, EmptySeq
<1>3. \A i \in 1..Len(Q) : i + 1 \in 1..Len(P) /\ 1 < i + 1
  BY <1>2
<1>4. m \in Msg /\ m.topic \in Topic /\ m.n \in Nat
  BY <1>2, QueueHas
<1>5. low[m.topic] <= m.n /\ m.n <= top
  BY <1>2 DEF QueueOK
<1>6. new \in [Topic -> 0..top] /\ new[m.topic] = m.n /\ \A u \in Topic \ {m.topic} : new[u] = low[u]
  BY <1>1, <1>4, <1>5
<1> HIDE DEF m, Q, new
<1>7. \A i, j \in 1..Len(Q) : i < j /\ Q[i].topic = Q[j].topic => Q[i].n <= Q[j].n
  <2> SUFFICES ASSUME NEW i \in 1..Len(Q), NEW j \in 1..Len(Q), i < j, Q[i].topic = Q[j].topic
               PROVE  Q[i].n <= Q[j].n
    OBVIOUS
  <2>1. i + 1 < j + 1 /\ i + 1 \in 1..Len(P) /\ j + 1 \in 1..Len(P)
    BY <1>2, <1>3
  <2>2. Q[i] = P[i + 1] /\ Q[j] = P[j + 1]
    BY <1>2
  <2>3. \A h, k \in 1..Len(P) : h < k /\ P[h].topic = P[k].topic => P[h].n <= P[k].n
    BY DEF QueueOK
  <2> QED
    BY <2>1, <2>2, <2>3
<1>8. \A i \in 1..Len(Q) : \A j \in 1..Len(L[Q[i].topic]) : Q[i].n <= L[Q[i].topic][j].n
  <2> TAKE i \in 1..Len(Q)
  <2>1. Q[i] = P[i + 1] /\ i + 1 \in 1..Len(P)
    BY <1>2, <1>3
  <2>2. \A j \in 1..Len(L[P[i + 1].topic]) : P[i + 1].n <= L[P[i + 1].topic][j].n
    BY <2>1 DEF QueueOK
  <2> QED
    BY <2>1, <2>2
<1>9. QueueOK(L, Q, low, top)
  <2>1. \A i \in 1..Len(Q) : low[Q[i].topic] <= Q[i].n /\ Q[i].n <= top
    BY <1>2, <1>3 DEF QueueOK
  <2> QED
    BY <1>1, <1>2, <1>7, <1>8, <2>1 DEF QueueOK
<1>10. QueueOK(L, Q, new, top)
  <2>1. ASSUME NEW i \in 1..Len(Q) PROVE new[Q[i].topic] <= Q[i].n /\ Q[i].n <= top
    <3>1. Q[i] = P[i + 1] /\ i + 1 \in 1..Len(P) /\ 1 < i + 1
      BY <1>2, <1>3
    <3>2. P[i + 1].topic \in Topic
      BY <3>1, QueueHas
    <3>3. CASE P[i + 1].topic = m.topic
      BY <1>2, <1>6, <3>1, <3>3 DEF QueueOK
    <3>4. CASE P[i + 1].topic # m.topic
      BY <1>6, <3>1, <3>2, <3>4 DEF QueueOK
    <3> QED
      BY <3>3, <3>4
  <2>2. ASSUME NEW t \in Topic, NEW i \in 1..Len(L[t])
        PROVE  L[t][i].topic = t /\ new[t] <= L[t][i].n /\ L[t][i].n <= top
    <3>1. CASE t = m.topic
      BY <1>2, <1>6, <2>2, <3>1 DEF QueueOK
    <3>2. CASE t # m.topic
      BY <1>6, <2>2, <3>2 DEF QueueOK
    <3> QED
      BY <3>1, <3>2
  <2>3. \A t \in Topic : Rising(L[t])
    BY DEF QueueOK
  <2> QED
    BY <1>1, <1>2, <1>6, <1>7, <1>8, <2>1, <2>2, <2>3 DEF QueueOK
<1> QED
  BY <1>4, <1>5, <1>9, <1>10 DEF m, Q, new

\* The log of each topic holds its messages in their order, none younger than low.
LogOK(logs, low) ==
    /\ logs \in [Topic -> Seq(Msg)]
    /\ \A t \in Topic : Rising(logs[t]) /\ \A i \in 1..Len(logs[t]) : logs[t][i].n <= low[t]

LEMMA LoggedOK ==
    ASSUME NEW logs, NEW low, LogOK(logs, low), low \in [Topic -> Nat], NEW m \in Msg, low[m.topic] <= m.n
    PROVE  LogOK([logs EXCEPT ![m.topic] = Append(logs[m.topic], m)], [low EXCEPT ![m.topic] = m.n])
<1> DEFINE t == m.topic
           l == Append(logs[t], m)
           new == [logs EXCEPT ![t] = l]
           high == [low EXCEPT ![t] = m.n]
<1>1. t \in Topic /\ m.n \in Nat /\ logs \in [Topic -> Seq(Msg)]
  BY DEF LogOK, Msg
<1>2. /\ l \in Seq(Msg) /\ Len(l) = Len(logs[t]) + 1 /\ Len(logs[t]) \in Nat
      /\ \A i \in 1..(Len(logs[t]) + 1) : l[i] = IF i <= Len(logs[t]) THEN logs[t][i] ELSE m
  BY <1>1, AppendProperties
<1>3. /\ new \in [Topic -> Seq(Msg)] /\ new[t] = l /\ high[t] = m.n
      /\ \A u \in Topic \ {t} : new[u] = logs[u] /\ high[u] = low[u]
  BY <1>1, <1>2
<1>4. \A i \in 1..Len(logs[t]) : logs[t][i].n <= m.n /\ logs[t][i].n \in Nat
  <2>1. \A i \in 1..Len(logs[t]) : logs[t][i] \in Msg
    BY <1>1, ElementOfSeq
  <2>2. \A i \in 1..Len(logs[t]) : logs[t][i].n \in Nat
    BY <2>1 DEF Msg
  <2> QED
    BY <1>1, <2>2 DEF LogOK
<1> HIDE DEF t, l, new, high
<1>5. \A i \in 1..Len(l) : l[i].n <= m.n
  BY <1>1, <1>2, <1>4
<1>6. Rising(l)
  <2> SUFFICES ASSUME NEW i \in 1..Len(l), NEW j \in 1..Len(l), i < j PROVE l[i].n <= l[j].n
    BY DEF Rising
  <2>1. i \in 1..Len(logs[t]) /\ l[i] = logs[t][i]
    BY <1>2
  <2>2. CASE j <= Len(logs[t])
    <3>1. l[j] = logs[t][j] /\ j \in 1..Len(logs[t])
      BY <1>2, <2>2
    <3>2. Rising(logs[t])
      BY <1>1 DEF LogOK
    <3> QED
      BY <2>1, <3>1, <3>2 DEF Rising
  <2>3. CASE ~(j <= Len(logs[t]))
    BY <1>2, <1>4, <2>1, <2>3
  <2> QED
    BY <2>2, <2>3
<1>7. LogOK(new, high)
  <2>1. ASSUME NEW u \in Topic PROVE Rising(new[u]) /\ \A i \in 1..Len(new[u]) : new[u][i].n <= high[u]
    <3>1. CASE u = t
      BY <1>3, <1>5, <1>6, <3>1
    <3>2. CASE u # t
      BY <1>3, <3>2 DEF LogOK
    <3> QED
      BY <3>1, <3>2
  <2> QED
    BY <1>3, <2>1 DEF LogOK
<1> QED
  BY <1>7 DEF t, l, new, high

\* A consumer has handled the first messages of its topic, h; those that are fetched and not
\* handled, f, are the next ones up to its offset, the youngest at the head of the list.
ConsumerOK(h, f, o, l) ==
    /\ h \in Seq(Msg) /\ f \in Seq(Msg) /\ o \in Nat /\ l \in Seq(Msg)
    /\ Len(h) + Len(f) = o /\ o <= Len(l)
    /\ \A i \in 1..Len(h) : h[i] = l[i]
    /\ \A i \in 1..Len(f) : f[i] = l[o + 1 - i]

\* The broker only adds to a topic.
LEMMA LongerLogOK ==
    ASSUME NEW h, NEW f, NEW o, NEW l, ConsumerOK(h, f, o, l), NEW m \in Msg
    PROVE  ConsumerOK(h, f, o, Append(l, m))
<1>1. /\ h \in Seq(Msg) /\ f \in Seq(Msg) /\ o \in Nat /\ l \in Seq(Msg)
      /\ Len(h) \in Nat /\ Len(f) \in Nat /\ Len(l) \in Nat /\ Len(h) + Len(f) = o /\ o <= Len(l)
  BY DEF ConsumerOK
<1>2. PICK k \in Seq(Msg) : /\ k = Append(l, m) /\ Len(k) = Len(l) + 1
                            /\ \A i \in 1..Len(l) : k[i] = l[i]
  <2>1. /\ Append(l, m) \in Seq(Msg) /\ Len(Append(l, m)) = Len(l) + 1
        /\ \A i \in 1..(Len(l) + 1) : Append(l, m)[i] = IF i <= Len(l) THEN l[i] ELSE m
    BY <1>1, AppendProperties
  <2>2. \A i \in 1..Len(l) : i \in 1..(Len(l) + 1) /\ i <= Len(l)
    BY <1>1
  <2>3. PICK k : k = Append(l, m)
    OBVIOUS
  <2>4. \A i \in 1..Len(l) : k[i] = l[i]
    BY <2>1, <2>2, <2>3
  <2> QED
    BY <2>1, <2>3, <2>4
<1>3. \A i \in 1..Len(h) : i \in 1..Len(l)
  BY <1>1
<1>4. \A i \in 1..Len(f) : o + 1 - i \in 1..Len(l)
  BY <1>1
<1>5. o <= Len(k)
  BY <1>1, <1>2
<1>6. ConsumerOK(h, f, o, k)
  BY <1>1, <1>2, <1>3, <1>4, <1>5 DEF ConsumerOK
<1> QED
  BY <1>2, <1>6

\* thread_routine adds the next message to the head of the list.
LEMMA FetchedOK ==
    ASSUME NEW h, NEW f, NEW o, NEW l, ConsumerOK(h, f, o, l), o < Len(l)
    PROVE  ConsumerOK(h, <<l[o + 1]>> \o f, o + 1, l)
<1>1. /\ h \in Seq(Msg) /\ f \in Seq(Msg) /\ o \in Nat /\ l \in Seq(Msg)
      /\ Len(h) \in Nat /\ Len(f) \in Nat /\ Len(l) \in Nat /\ Len(h) + Len(f) = o /\ o <= Len(l)
  BY DEF ConsumerOK
<1>2. PICK m \in Msg : m = l[o + 1]
  <2>1. o + 1 \in 1..Len(l)
    BY <1>1
  <2> QED
    BY <1>1, <2>1, ElementOfSeq
<1>3. PICK one \in Seq(Msg) : one = <<m>> /\ Len(one) = 1 /\ one[1] = m
  <2>1. <<m>> \in Seq(Msg) /\ Len(<<m>>) = 1 /\ <<m>>[1] = m
    OBVIOUS
  <2> QED
    BY <2>1
<1>4. PICK s \in Seq(Msg) :
         /\ s = one \o f /\ Len(s) = 1 + Len(f)
         /\ \A i \in 1..(1 + Len(f)) : s[i] = IF i <= 1 THEN one[i] ELSE f[i - 1]
  <2>1. /\ one \o f \in Seq(Msg) /\ Len(one \o f) = 1 + Len(f)
        /\ \A i \in 1..(1 + Len(f)) : (one \o f)[i] = IF i <= 1 THEN one[i] ELSE f[i - 1]
    BY <1>1, <1>3, ConcatProperties
  <2> QED
    BY <2>1
<1>5. ASSUME NEW i \in 1..Len(s) PROVE s[i] = l[o + 1 + 1 - i]
  <2>1. CASE i = 1
    <3>1. o + 1 + 1 - i = o + 1
      BY <1>1, <2>1
    <3>2. s[i] = m
      BY <1>1, <1>3, <1>4, <2>1
    <3> QED
      BY <1>2, <3>1, <3>2
  <2>2. CASE i # 1
    <3>1. i - 1 \in 1..Len(f) /\ o + 1 - (i - 1) = o + 1 + 1 - i /\ ~(i <= 1) /\ i \in 1..(1 + Len(f))
      BY <1>1, <1>4, <2>2
    <3>2. f[i - 1] = l[o + 1 - (i - 1)]
      BY <3>1 DEF ConsumerOK
    <3>3. s[i] = f[i - 1]
      BY <1>4, <3>1
    <3> QED
      BY <3>1, <3>2, <3>3
  <2> QED
    BY <2>1, <2>2
<1>6. /\ Len(h) + Len(s) = o + 1 /\ o + 1 <= Len(l) /\ o + 1 \in Nat
  <2>1. Len(s) = 1 + Len(f)
    BY <1>4
  <2>2. o < Len(l)
    OBVIOUS
  <2> QED
    BY ONLY <1>1, <2>1, <2>2
<1>7. \A i \in 1..Len(h) : h[i] = l[i]
  BY DEF ConsumerOK
<1>8. ConsumerOK(h, s, o + 1, l)
  BY <1>1, <1>5, <1>6, <1>7 DEF ConsumerOK
<1> QED
  BY <1>2, <1>3, <1>4, <1>8

\* The callback is given the message at the tail, which is the oldest.
LEMMA HandledOK ==
    ASSUME NEW h, NEW f, NEW o, NEW l, ConsumerOK(h, f, o, l), f # <<>>
    PROVE  ConsumerOK(Append(h, f[Len(f)]), SubSeq(f, 1, Len(f) - 1), o, l)
<1>1. /\ h \in Seq(Msg) /\ f \in Seq(Msg) /\ o \in Nat /\ l \in Seq(Msg)
      /\ Len(h) \in Nat /\ Len(f) \in Nat /\ Len(l) \in Nat /\ Len(h) + Len(f) = o /\ o <= Len(l)
  BY DEF ConsumerOK
<1>2. Len(f) \in Nat \ {0}
  BY <1>1, EmptySeq
<1>3. PICK m \in Msg : m = f[Len(f)] /\ m = l[Len(h) + 1]
  <2>1. Len(f) \in 1..Len(f) /\ o + 1 - Len(f) = Len(h) + 1
    BY <1>1, <1>2
  <2>2. f[Len(f)] = l[o + 1 - Len(f)]
    BY <2>1 DEF ConsumerOK
  <2>3. f[Len(f)] \in Msg
    BY <1>1, <2>1, ElementOfSeq
  <2> QED
    BY <2>1, <2>2, <2>3
<1>4. PICK n \in Nat : n = Len(f) - 1
  BY <1>2
<1>5. PICK g \in Seq(Msg) : /\ g = SubSeq(f, 1, n) /\ Len(g) = n
                            /\ \A i \in 1..n : g[i] = f[i]
  <2>1. \A i \in 1..n : f[i] \in Msg
    <3>1. \A i \in 1..n : i \in 1..Len(f)
      BY <1>2, <1>4
    <3> QED
      BY <1>1, <3>1, ElementOfSeq
  <2>2. /\ SubSeq(f, 1, n) \in Seq(Msg)
        /\ Len(SubSeq(f, 1, n)) = IF 1 <= n THEN n - 1 + 1 ELSE 0
        /\ \A i \in 1..(n - 1 + 1) : SubSeq(f, 1, n)[i] = f[1 + i - 1]
    BY <2>1, SubSeqProperties
  <2>3. PICK g : g = SubSeq(f, 1, n)
    OBVIOUS
  <2>4. /\ g \in Seq(Msg) /\ Len(g) = IF 1 <= n THEN n - 1 + 1 ELSE 0
        /\ \A i \in 1..(n - 1 + 1) : g[i] = f[1 + i - 1]
    BY <2>2, <2>3
  <2>5. Len(g) = n
    BY <2>4
  <2>6. \A i \in 1..n : i \in 1..(n - 1 + 1) /\ 1 + i - 1 = i
    OBVIOUS
  <2>7. \A i \in 1..n : g[i] = f[i]
    BY <2>4, <2>6
  <2> QED
    BY <2>3, <2>4, <2>5, <2>7
<1>6. PICK k \in Seq(Msg) : /\ k = Append(h, m) /\ Len(k) = Len(h) + 1
                            /\ \A i \in 1..(Len(h) + 1) : k[i] = IF i <= Len(h) THEN h[i] ELSE m
  <2>1. /\ Append(h, m) \in Seq(Msg) /\ Len(Append(h, m)) = Len(h) + 1
        /\ \A i \in 1..(Len(h) + 1) : Append(h, m)[i] = IF i <= Len(h) THEN h[i] ELSE m
    BY <1>1, AppendProperties
  <2> QED
    BY <2>1
<1>7. Len(k) + Len(g) = o
  <2>1. Len(k) = Len(h) + 1 /\ Len(g) = n /\ n = Len(f) - 1
    BY <1>4, <1>5, <1>6
  <2>2. \A a, b, c \in Nat : a + b = c => (a + 1) + (b - 1) = c
    OBVIOUS
  <2>3. (Len(h) + 1) + (Len(f) - 1) = o
    BY ONLY <1>1, <2>2
  <2> QED
    BY ONLY <2>1, <2>3
<1>8. ASSUME NEW i \in 1..Len(k) PROVE k[i] = l[i]
  <2>1. CASE i <= Len(h)
    <3>1. i \in 1..Len(h) /\ i \in 1..(Len(h) + 1)
      BY <1>1, <2>1
    <3>2. h[i] = l[i]
      BY <3>1 DEF ConsumerOK
    <3> QED
      BY <1>6, <2>1, <3>1, <3>2
  <2>2. CASE ~(i <= Len(h))
    <3>1. i = Len(h) + 1
      BY <1>1, <1>6, <2>2
    <3>2. k[i] = m
      BY <1>6, <2>2
    <3> QED
      BY <1>3, <3>1, <3>2
  <2> QED
    BY <2>1, <2>2
<1>9. ASSUME NEW i \in 1..Len(g) PROVE g[i] = l[o + 1 - i]
  <2>1. i \in 1..Len(f) /\ i \in 1..n
    BY <1>2, <1>4, <1>5
  <2>2. f[i] = l[o + 1 - i]
    BY <2>1 DEF ConsumerOK
  <2> QED
    BY <1>5, <2>1, <2>2
<1>10. ConsumerOK(k, g, o, l)
  BY <1>1, <1>7, <1>8, <1>9 DEF ConsumerOK
<1> QED
  BY <1>3, <1>4, <1>5, <1>6, <1>10

-----------------------------------------------------------------------------
(* The invariant *)

IsSequence(s) == \E S : s \in Seq(S)
PlanOK ==
    /\ IsSequence(made) /\ IsSequence(plan)
    /\ \A i \in 1..Len(plan) : plan[i].do \in {"update", "put", "cancel", "trade"}

KafkaOK ==
    /\ DOMAIN fetched = Consumer /\ DOMAIN handled = Consumer /\ DOMAIN offset = Consumer
    /\ \A c \in Consumer : ConsumerOK(handled[c], fetched[c], offset[c], log[c])

WaysOK(low) == QueueOK(lists, producer, low, Len(made)) /\ LogOK(log, low)
OrderInv == PlanOK /\ KafkaOK /\ \E low : WaysOK(low)

\* An operation makes messages that bear its number.
LEMMA MessagesAre ==
    ASSUME NEW n \in Nat, NEW op, op.do \in {"update", "put", "cancel", "trade"}
    PROVE  Messages(n, op) \in Seq(Msg) /\ \A i \in 1..Len(Messages(n, op)) : Messages(n, op)[i].n = n
<1>1. "balances" \in Topic /\ "orders" \in Topic /\ "deals" \in Topic
  <2>1. Topics[1] \in Topic /\ Topics[2] \in Topic /\ Topics[3] \in Topic
    BY DEF Topic, Topics
  <2> QED
    BY <2>1 DEF Topics
<1>2. PICK b \in Msg : b = PushBalanceMessage(n) /\ b.n = n
  <2>1. [topic |-> "balances", n |-> n] \in Msg
    BY <1>1 DEF Msg
  <2>2. PushBalanceMessage(n) = [topic |-> "balances", n |-> n]
    BY DEF PushBalanceMessage, Message
  <2> QED
    BY <2>1, <2>2
<1>3. PICK o \in Msg : o = PushOrderMessage(n) /\ o.n = n
  <2>1. [topic |-> "orders", n |-> n] \in Msg
    BY <1>1 DEF Msg
  <2>2. PushOrderMessage(n) = [topic |-> "orders", n |-> n]
    BY DEF PushOrderMessage, Message
  <2> QED
    BY <2>1, <2>2
<1>4. PICK d \in Msg : d = PushDealMessage(n) /\ d.n = n
  <2>1. [topic |-> "deals", n |-> n] \in Msg
    BY <1>1 DEF Msg
  <2>2. PushDealMessage(n) = [topic |-> "deals", n |-> n]
    BY DEF PushDealMessage, Message
  <2> QED
    BY <2>1, <2>2
<1>5. Messages(n, op) = <<b>> \/ Messages(n, op) = <<o>> \/ Messages(n, op) = <<d, o, o>>
  BY <1>2, <1>3, <1>4 DEF Messages, Makes, UpdateMakes, PutMakes, CancelMakes, TradeMakes
<1>6. CASE Messages(n, op) = <<b>>
  BY <1>2, <1>6
<1>7. CASE Messages(n, op) = <<o>>
  BY <1>3, <1>7
<1>8. CASE Messages(n, op) = <<d, o, o>>
  BY <1>3, <1>4, <1>8
<1> QED
  BY <1>5, <1>6, <1>7, <1>8

\* A new operation is at least as young as all that is on its way.
LEMMA NextOK ==
    ASSUME NEW L, NEW P, NEW low, NEW top, QueueOK(L, P, low, top)
    PROVE  QueueOK(L, P, low, top + 1)
<1>1. /\ top \in Nat /\ low \in [Topic -> 0..top]
  BY DEF QueueOK
<1>2. top + 1 \in Nat /\ low \in [Topic -> 0..(top + 1)]
  BY <1>1
<1>3. \A t \in Topic : \A i \in 1..Len(L[t]) : L[t][i].n <= top + 1
  <2>1. \A t \in Topic : \A i \in 1..Len(L[t]) : L[t][i].n \in Nat /\ L[t][i].n <= top
    <3>1. \A t \in Topic : \A i \in 1..Len(L[t]) : L[t][i].n \in Nat
      BY QueueHas
    <3> QED
      BY <3>1 DEF QueueOK
  <2> QED
    BY <1>1, <2>1
<1>4. \A i \in 1..Len(P) : P[i].n <= top + 1
  <2>1. \A i \in 1..Len(P) : P[i].n \in Nat /\ P[i].n <= top
    <3>1. \A i \in 1..Len(P) : P[i].n \in Nat
      BY QueueHas
    <3> QED
      BY <3>1 DEF QueueOK
  <2> QED
    BY <1>1, <2>1
<1> QED
  BY <1>2, <1>3, <1>4 DEF QueueOK

\* What is known of the youngest message of each topic with the broker
LEMMA LowIsNat ==
    ASSUME NEW L, NEW P, NEW low, NEW top, QueueOK(L, P, low, top)
    PROVE  low \in [Topic -> Nat]
<1>1. /\ top \in Nat /\ low \in [Topic -> 0..top]
  BY DEF QueueOK
<1> QED
  BY <1>1

-----------------------------------------------------------------------------
(* The steps *)

LEMMA OperateOK ==
    ASSUME OrderInv, Operate PROVE OrderInv'
<1> DEFINE n == Len(made) + 1
<1>1. PICK low : WaysOK(low)
  BY DEF OrderInv
<1>2. PICK S : made \in Seq(S)
  BY DEF OrderInv, PlanOK, IsSequence
<1>3. PICK R : plan \in Seq(R)
  BY DEF OrderInv, PlanOK, IsSequence
<1>4. plan # <<>> /\ made' = Append(made, Head(plan)) /\ plan' = Tail(plan)
  BY DEF Operate
<1>5. /\ Head(plan) = plan[1] /\ 1 \in 1..Len(plan) /\ Len(plan) \in Nat /\ plan' \in Seq(R)
      /\ Len(plan') = Len(plan) - 1 /\ \A i \in 1..Len(plan') : plan'[i] = plan[i + 1]
  BY <1>3, <1>4, HeadTailProperties, EmptySeq
<1>6. Len(made) \in Nat /\ made' \in Seq(S \cup {Head(plan)}) /\ Len(made') = n
  <2>1. made \in Seq(S \cup {Head(plan)}) /\ Head(plan) \in S \cup {Head(plan)}
    BY <1>2
  <2> QED
    BY <1>2, <1>4, <2>1, AppendProperties
<1>7. Head(plan).do \in {"update", "put", "cancel", "trade"}
  BY <1>5 DEF OrderInv, PlanOK
<1>8. PlanOK'
  <2>1. \A i \in 1..Len(plan') : plan'[i].do \in {"update", "put", "cancel", "trade"}
    <3>1. \A i \in 1..Len(plan') : i + 1 \in 1..Len(plan)
      BY <1>5
    <3> QED
      BY <1>5, <3>1 DEF OrderInv, PlanOK
  <2>2. IsSequence(made') /\ IsSequence(plan')
    BY <1>5, <1>6 DEF IsSequence
  <2> QED
    BY <2>1, <2>2 DEF PlanOK
<1>9. KafkaOK'
  <2>1. UNCHANGED <<fetched, handled, offset, log>>
    BY DEF Operate, PushMessages, kafkaVars
  <2>2. KafkaOK
    BY DEF OrderInv
  <2> QED
    BY <2>1, <2>2 DEF KafkaOK
<1>10. QueueOK(lists, producer, low, n)
  <2>1. QueueOK(lists, producer, low, Len(made))
    BY <1>1 DEF WaysOK
  <2> QED
    BY <2>1, NextOK
<1>11. PushMessages(Messages(n, Head(plan)))
  BY DEF Operate
<1>12. /\ Messages(n, Head(plan)) \in Seq(Msg)
       /\ \A i \in 1..Len(Messages(n, Head(plan))) : Messages(n, Head(plan))[i].n = n
  <2>1. n \in Nat
    BY <1>6
  <2> HIDE DEF n
  <2> QED
    BY <1>7, <2>1, MessagesAre
<1>13. QueueOK(lists', producer', low, n)
  <2> HIDE DEF n
  <2> QED
    BY <1>10, <1>11, <1>12, PushesOK
<1>14. WaysOK(low)'
  <2>1. LogOK(log', low)
    <3>1. log' = log
      BY <1>11 DEF PushMessages
    <3> QED
      BY <1>1, <3>1 DEF WaysOK
  <2> QED
    BY <1>6, <1>13, <2>1 DEF WaysOK
<1> QED
  BY <1>8, <1>9, <1>14 DEF OrderInv

\* The engine's part: what was asked for and done
LEMMA PlanSame ==
    ASSUME PlanOK, UNCHANGED <<plan, made>> PROVE PlanOK'
BY DEF PlanOK

LEMMA TimerStep ==
    ASSUME OrderInv, MessageTimer, UNCHANGED <<kafkaVars, plan, made>> PROVE OrderInv'
<1>1. PICK low : WaysOK(low)
  BY DEF OrderInv
<1>2. QueueOK(lists', producer', low, Len(made))
  BY <1>1, TimerOK DEF WaysOK
<1>3. log' = log
  BY DEF MessageTimer
<1>4. WaysOK(low)'
  BY <1>1, <1>2, <1>3 DEF WaysOK
<1>5. KafkaOK'
  BY <1>3 DEF OrderInv, KafkaOK, kafkaVars
<1>6. PlanOK'
  BY PlanSame DEF OrderInv
<1> QED
  BY <1>4, <1>5, <1>6 DEF OrderInv

LEMMA DeliveredStep ==
    ASSUME OrderInv, Delivered, UNCHANGED <<kafkaVars, plan, made>> PROVE OrderInv'
<1> DEFINE m == Head(producer)
<1>1. PICK low : WaysOK(low)
  BY DEF OrderInv
<1>2. QueueOK(lists, producer, low, Len(made)) /\ LogOK(log, low)
  BY <1>1 DEF WaysOK
<1>3. /\ producer # <<>> /\ producer' = Tail(producer) /\ lists' = lists
      /\ log' = [log EXCEPT ![m.topic] = Append(log[m.topic], m)]
  BY DEF Delivered
<1>4. /\ m \in Msg /\ low[m.topic] <= m.n
      /\ QueueOK(lists, Tail(producer), [low EXCEPT ![m.topic] = m.n], Len(made))
  BY <1>2, <1>3, SentOK
<1>5. low \in [Topic -> Nat]
  BY <1>2, LowIsNat
<1> HIDE DEF m
<1>6. LogOK(log', [low EXCEPT ![m.topic] = m.n])
  BY <1>2, <1>3, <1>4, <1>5, LoggedOK
<1>7. \E new : WaysOK(new)'
  <2>1. PICK new : new = [low EXCEPT ![m.topic] = m.n]
    OBVIOUS
  <2>2. WaysOK(new)'
    BY <1>3, <1>4, <1>6, <2>1 DEF WaysOK
  <2> QED
    BY <2>2
<1>8. KafkaOK'
  <2>1. KafkaOK
    BY DEF OrderInv
  <2>2. UNCHANGED <<fetched, handled, offset>>
    BY DEF kafkaVars
  <2>3. ASSUME NEW c \in Consumer PROVE ConsumerOK(handled[c], fetched[c], offset[c], log'[c])
    <3>1. ConsumerOK(handled[c], fetched[c], offset[c], log[c])
      BY <2>1 DEF KafkaOK
    <3>2. CASE c = m.topic
      <4>1. c \in Topic /\ log \in [Topic -> Seq(Msg)]
        BY <1>2, OutputAssumption DEF LogOK
      <4>2. log'[c] = Append(log[c], m)
        BY <1>3, <3>2, <4>1
      <4>3. ConsumerOK(handled[c], fetched[c], offset[c], Append(log[c], m))
        BY <1>4, <3>1, LongerLogOK
      <4> QED
        BY <4>2, <4>3
    <3>3. CASE c # m.topic
      <4>1. log'[c] = log[c]
        <5>1. c \in Topic /\ log \in [Topic -> Seq(Msg)]
          BY <1>2, OutputAssumption DEF LogOK
        <5> QED
          BY <1>3, <3>3, <5>1
      <4> QED
        BY <3>1, <4>1
    <3> QED
      BY <3>2, <3>3
  <2> QED
    BY <2>1, <2>2, <2>3 DEF KafkaOK
<1>9. PlanOK'
  BY PlanSame DEF OrderInv
<1> QED
  BY <1>7, <1>8, <1>9 DEF OrderInv

LEMMA FailsStep ==
    ASSUME OrderInv, DeliveryFails, UNCHANGED <<kafkaVars, plan, made>> PROVE OrderInv'
<1>1. PICK low : WaysOK(low)
  BY DEF OrderInv
<1>2. producer # <<>> /\ producer' = Tail(producer) /\ lists' = lists /\ log' = log
  BY DEF DeliveryFails
<1>3. QueueOK(lists, Tail(producer), low, Len(made))
  BY <1>1, <1>2, SentOK DEF WaysOK
<1>4. WaysOK(low)'
  BY <1>1, <1>2, <1>3 DEF WaysOK
<1>5. KafkaOK'
  BY <1>2 DEF OrderInv, KafkaOK, kafkaVars
<1>6. PlanOK'
  BY PlanSame DEF OrderInv
<1> QED
  BY <1>4, <1>5, <1>6 DEF OrderInv

\* A step that leaves the messages alone keeps the ways.
LEMMA WaysSame ==
    ASSUME OrderInv, UNCHANGED <<messageVars, plan, made>>
    PROVE  PlanOK' /\ \E low : WaysOK(low)'
<1>1. PICK low : WaysOK(low)
  BY DEF OrderInv
<1>2. WaysOK(low)'
  BY <1>1 DEF WaysOK, messageVars
<1>3. PlanOK'
  BY PlanSame DEF OrderInv
<1> QED
  BY <1>2, <1>3

LEMMA FetchStep ==
    ASSUME OrderInv, NEW c \in Consumer, ThreadRoutine(c, log[c]), UNCHANGED <<messageVars, plan, made>>
    PROVE  OrderInv'
<1>1. KafkaOK /\ UNCHANGED <<log, handled>>
  BY DEF OrderInv, ThreadRoutine, messageVars
<1>2. /\ fetched' = [fetched EXCEPT ![c] = <<log[c][offset[c] + 1]>> \o fetched[c]]
      /\ offset' = [offset EXCEPT ![c] = offset[c] + 1] /\ offset[c] < Len(log[c])
  BY DEF ThreadRoutine
<1>3. ConsumerOK(handled[c], fetched[c], offset[c], log[c])
  BY <1>1 DEF KafkaOK
<1>4. ConsumerOK(handled[c], <<log[c][offset[c] + 1]>> \o fetched[c], offset[c] + 1, log[c])
  BY <1>2, <1>3, FetchedOK
<1>5. /\ DOMAIN fetched' = Consumer /\ DOMAIN offset' = Consumer
      /\ fetched'[c] = <<log[c][offset[c] + 1]>> \o fetched[c] /\ offset'[c] = offset[c] + 1
      /\ \A d \in Consumer \ {c} : fetched'[d] = fetched[d] /\ offset'[d] = offset[d]
  BY <1>1, <1>2 DEF KafkaOK
<1>6. ASSUME NEW d \in Consumer PROVE ConsumerOK(handled[d], fetched'[d], offset'[d], log[d])
  <2>1. CASE d = c
    BY <1>4, <1>5, <2>1
  <2>2. CASE d # c
    <3>1. ConsumerOK(handled[d], fetched[d], offset[d], log[d])
      BY <1>1 DEF KafkaOK
    <3> QED
      BY <1>5, <2>2, <3>1
  <2> QED
    BY <2>1, <2>2
<1>7. KafkaOK'
  BY <1>1, <1>5, <1>6 DEF KafkaOK
<1> QED
  BY <1>7, WaysSame DEF OrderInv

LEMMA CallbackStep ==
    ASSUME OrderInv, NEW c \in Consumer, Callback(c), UNCHANGED <<messageVars, plan, made>>
    PROVE  OrderInv'
<1> DEFINE f == fetched[c]
           g == SubSeq(f, 1, Len(f) - 1)
           h == Append(handled[c], f[Len(f)])
<1>1. KafkaOK /\ UNCHANGED <<log, offset>>
  BY DEF OrderInv, Callback, messageVars
<1>2. fetched' = [fetched EXCEPT ![c] = g] /\ handled' = [handled EXCEPT ![c] = h] /\ f # <<>>
  BY DEF Callback
<1>3. ConsumerOK(handled[c], f, offset[c], log[c])
  BY <1>1 DEF KafkaOK
<1>4. ConsumerOK(h, g, offset[c], log[c])
  BY <1>2, <1>3, HandledOK
<1> HIDE DEF f, g, h
<1>5. /\ DOMAIN fetched' = Consumer /\ DOMAIN handled' = Consumer
      /\ fetched'[c] = g /\ handled'[c] = h
      /\ \A d \in Consumer \ {c} : fetched'[d] = fetched[d] /\ handled'[d] = handled[d]
  BY <1>1, <1>2 DEF KafkaOK
<1>6. ASSUME NEW d \in Consumer PROVE ConsumerOK(handled'[d], fetched'[d], offset[d], log[d])
  <2>1. CASE d = c
    BY <1>4, <1>5, <2>1
  <2>2. CASE d # c
    <3>1. ConsumerOK(handled[d], fetched[d], offset[d], log[d])
      BY <1>1 DEF KafkaOK
    <3> QED
      BY <1>5, <2>2, <3>1
  <2> QED
    BY <2>1, <2>2
<1>7. KafkaOK'
  BY <1>1, <1>5, <1>6 DEF KafkaOK
<1> QED
  BY <1>7, WaysSame DEF OrderInv

\* The steps of the histories, of the pipe and of the end of a list change nothing of it.
LEMMA RestStep ==
    ASSUME OrderInv, UNCHANGED <<messageVars, plan, made, fetched, offset, handled>>
    PROVE  OrderInv'
<1>1. KafkaOK'
  BY DEF OrderInv, KafkaOK, messageVars
<1> QED
  BY <1>1, WaysSame DEF OrderInv

LEMMA NextKeepsOrder ==
    ASSUME OrderInv, [Next]_vars PROVE OrderInv'
<1>1. CASE Operate
  BY <1>1, OperateOK
<1>2. CASE History
  BY <1>2, RestStep DEF History, kafkaVars
<1>3. CASE Stop
  BY <1>3, RestStep DEF Stop, kafkaVars
<1>4. CASE Producer
  <2>1. UNCHANGED <<kafkaVars, plan, made>> /\ (MessageTimer \/ Delivered \/ DeliveryFails)
    BY <1>4 DEF Producer
  <2> QED
    BY <2>1, TimerStep, DeliveredStep, FailsStep
<1>5. CASE Consumers
  <2>1. UNCHANGED <<messageVars, plan, made>>
    BY <1>5 DEF Consumers
  <2>2. PICK c \in Consumer : ThreadRoutine(c, log[c]) \/ OnCanRead(c) \/ Callback(c) \/ ListEmpty(c)
    BY <1>5 DEF Consumers
  <2>3. CASE ThreadRoutine(c, log[c])
    BY <2>1, <2>3, FetchStep
  <2>4. CASE OnCanRead(c) \/ ListEmpty(c)
    BY <2>1, <2>4, RestStep DEF OnCanRead, ListEmpty
  <2>5. CASE Callback(c)
    BY <2>1, <2>5, CallbackStep
  <2> QED
    BY <2>2, <2>3, <2>4, <2>5
<1>6. CASE UNCHANGED vars
  BY <1>6, RestStep DEF vars, kafkaVars
<1> QED
  BY <1>1, <1>2, <1>3, <1>4, <1>5, <1>6 DEF Next

LEMMA OrderInvInit ==
    Init => OrderInv
<1> SUFFICES ASSUME Init PROVE OrderInv
  OBVIOUS
<1>1. PlanOK
  <2>1. made = <<>> /\ plan \in Plans
    BY DEF Init
  <2>2. /\ plan \in Seq({plan[i] : i \in DOMAIN plan})
        /\ \A i \in DOMAIN plan : plan[i].do \in {"update", "put", "cancel", "trade"}
    BY <2>1, OutputAssumption
  <2>3. DOMAIN plan = 1..Len(plan)
    BY <2>2, LenProperties
  <2>4. IsSequence(plan)
    BY <2>2 DEF IsSequence
  <2>5. IsSequence(made)
    <3>1. <<>> \in Seq({})
      OBVIOUS
    <3> QED
      BY <2>1, <3>1 DEF IsSequence
  <2> QED
    BY <2>2, <2>3, <2>4, <2>5 DEF PlanOK
<1>2. /\ lists = [t \in Topic |-> <<>>] /\ producer = <<>> /\ log = [t \in Topic |-> <<>>]
  BY DEF Init, InitMessage
<1>3. Len(made) = 0
  BY DEF Init
<1>4. <<>> \in Seq(Msg) /\ Len(<<>>) = 0
  OBVIOUS
<1> DEFINE low == [t \in Topic |-> 0]
<1>5. QueueOK(lists, producer, low, Len(made))
  <2>1. \A t \in Topic : lists[t] = <<>> /\ low[t] = 0
    BY <1>2
  <2>2. low \in [Topic -> 0..0] /\ lists \in [Topic -> Seq(Msg)]
    BY <1>2, <1>4
  <2> HIDE DEF low
  <2>3. \A t \in Topic : 1..Len(lists[t]) = {}
    BY <1>4, <2>1
  <2>4. 1..Len(producer) = {}
    BY <1>2, <1>4
  <2> QED
    BY <1>2, <1>3, <1>4, <2>2, <2>3, <2>4 DEF QueueOK, Rising
<1>6. LogOK(log, low)
  <2>1. log \in [Topic -> Seq(Msg)]
    BY <1>2, <1>4
  <2>2. \A t \in Topic : 1..Len(log[t]) = {}
    BY <1>2, <1>4
  <2> HIDE DEF low
  <2> QED
    BY <2>1, <2>2 DEF LogOK, Rising
<1>7. KafkaOK
  <2>1. /\ fetched = [c \in Consumer |-> <<>>] /\ offset = [c \in Consumer |-> 0]
        /\ handled = [c \in Consumer |-> <<>>]
    BY DEF Init, KafkaConsumerCreate
  <2>2. ASSUME NEW c \in Consumer PROVE ConsumerOK(handled[c], fetched[c], offset[c], log[c])
    <3>1. handled[c] = <<>> /\ fetched[c] = <<>> /\ offset[c] = 0
      BY <2>1
    <3>2. log[c] = <<>>
      BY <1>2, OutputAssumption
    <3>3. ConsumerOK(<<>>, <<>>, 0, <<>>)
      BY <1>4 DEF ConsumerOK
    <3> QED
      BY <3>1, <3>2, <3>3
  <2> QED
    BY <2>1, <2>2 DEF KafkaOK
<1> HIDE DEF low
<1> QED
  BY <1>1, <1>5, <1>6, <1>7 DEF OrderInv, WaysOK

\* What was handled is the beginning of what the broker has, which is in order.
LEMMA OrderInvImplies ==
    OrderInv => ConsumedInOrder
<1> SUFFICES ASSUME OrderInv, NEW c \in Consumer, NEW i \in DOMAIN handled[c], NEW j \in DOMAIN handled[c],
                    i < j
             PROVE  handled[c][i].n <= handled[c][j].n
  BY DEF ConsumedInOrder
<1>1. ConsumerOK(handled[c], fetched[c], offset[c], log[c])
  BY DEF OrderInv, KafkaOK
<1>2. /\ Len(handled[c]) \in Nat /\ Len(fetched[c]) \in Nat /\ Len(log[c]) \in Nat
      /\ DOMAIN handled[c] = 1..Len(handled[c]) /\ Len(handled[c]) <= Len(log[c])
  <2>1. /\ handled[c] \in Seq(Msg) /\ fetched[c] \in Seq(Msg) /\ log[c] \in Seq(Msg)
        /\ Len(handled[c]) + Len(fetched[c]) <= Len(log[c])
    BY <1>1 DEF ConsumerOK
  <2>2. Len(handled[c]) \in Nat /\ Len(fetched[c]) \in Nat /\ Len(log[c]) \in Nat
    BY <2>1
  <2>3. \A a, b, d \in Nat : a + b <= d => a <= d
    OBVIOUS
  <2>4. Len(handled[c]) <= Len(log[c])
    BY ONLY <2>1, <2>2, <2>3
  <2> QED
    BY <2>1, <2>2, <2>4, LenProperties
<1>3. handled[c][i] = log[c][i] /\ handled[c][j] = log[c][j]
  BY <1>1, <1>2 DEF ConsumerOK
<1>4. i \in 1..Len(log[c]) /\ j \in 1..Len(log[c])
  BY <1>2
<1>5. Rising(log[c])
  BY OutputAssumption DEF OrderInv, WaysOK, LogOK
<1> QED
  BY <1>3, <1>4, <1>5 DEF Rising

\* A consumer is given the messages of its topic in the order the engine made them, however
\* often the queue of the producer was full and whatever it gave up (push_message, produce_list,
\* on_timer, ut_kafka.c).
THEOREM MessagesKeepOrder == Spec => []ConsumedInOrder
<1>1. OrderInv /\ [Next]_vars => OrderInv'
  BY NextKeepsOrder
<1> QED
  BY <1>1, OrderInvInit, OrderInvImplies, PTL DEF Spec

-----------------------------------------------------------------------------
(* Sums over finite sets *)

\* A sum of w as a function of the set that is summed over, which takes its elements one by one.
AnyOf(s) == CHOOSE x \in s : TRUE
Counted(f, w, s) == IF s = {} THEN 0 ELSE w[AnyOf(s)] + f[s \ {AnyOf(s)}]
SumLoop(f, w, S) == f = [s \in SUBSET S |-> Counted(f, w, s)]

SumOf(w, S) == SumFunctionOnSet(w, S)

\* Without one of its elements a set is smaller by one.
LEMMA OneLess ==
    ASSUME NEW S, IsFiniteSet(S), NEW s \in SUBSET S, NEW x \in s
    PROVE  /\ s \ {x} \in SUBSET S
           /\ Cardinality(s) \in Nat /\ Cardinality(s \ {x}) \in Nat
           /\ Cardinality(s \ {x}) + 1 = Cardinality(s)
<1>1. IsFiniteSet(s)
  BY FS_Subset
<1>2. /\ IsFiniteSet(s \ {x}) /\ Cardinality(s) \in Nat
      /\ Cardinality(s \ {x}) = Cardinality(s) - 1
  BY <1>1, FS_RemoveElement, FS_CardinalityType
<1>3. Cardinality(s \ {x}) \in Nat
  BY <1>2, FS_CardinalityType
<1> QED
  BY <1>2, <1>3

\* A family of sets that has {}, and a set if it has what is left without some element of it, has
\* every finite set.
LEMMA FiniteInduction ==
    ASSUME NEW S, IsFiniteSet(S), NEW F, {} \in F,
           \A s \in SUBSET S : s # {} /\ (\A x \in s : s \ {x} \in F) => s \in F
    PROVE  \A s \in SUBSET S : s \in F
<1> DEFINE T == {n \in Nat : \A s \in SUBSET S : Cardinality(s) = n => s \in F}
<1>1. 0 \in T
  <2>1. \A s \in SUBSET S : Cardinality(s) = 0 => s = {}
    BY FS_Subset, FS_EmptySet
  <2> QED
    BY <2>1
<1>2. ASSUME NEW n \in Nat, n \in T PROVE n + 1 \in T
  <2> SUFFICES ASSUME NEW s \in SUBSET S, Cardinality(s) = n + 1 PROVE s \in F
    OBVIOUS
  <2>1. ASSUME NEW x \in s PROVE s \ {x} \in F
    <3>1. /\ s \ {x} \in SUBSET S /\ Cardinality(s \ {x}) \in Nat
          /\ Cardinality(s \ {x}) + 1 = Cardinality(s)
      BY OneLess
    <3>2. Cardinality(s \ {x}) = n
      BY <3>1
    <3> QED
      BY <1>2, <3>1, <3>2
  <2>2. s # {}
    <3>1. Cardinality({}) = 0 /\ n + 1 # 0
      BY FS_EmptySet
    <3> QED
      BY <3>1
  <2> QED
    BY <2>1, <2>2
<1>3. Nat \subseteq T
  <2> HIDE DEF T
  <2> QED
    BY <1>1, <1>2, SetInduction
<1> SUFFICES ASSUME NEW s \in SUBSET S PROVE s \in F
  OBVIOUS
<1>4. Cardinality(s) \in Nat
  BY FS_Subset, FS_CardinalityType
<1> QED
  BY <1>3, <1>4

\* The loop has a value for every finite set.
LEMMA SumLoopRuns ==
    ASSUME NEW S, IsFiniteSet(S), NEW w
    PROVE  \E f : SumLoop(f, w, S)
<1> DEFINE D(n) == {s \in SUBSET S : Cardinality(s) <= n}
           Partial(f, n) == f = [s \in D(n) |-> Counted(f, w, s)]
           T == {n \in Nat : \E f : Partial(f, n)}
<1>0. ASSUME NEW s \in SUBSET S, s # {}
      PROVE  /\ s \ {AnyOf(s)} \in SUBSET S /\ Cardinality(s) \in Nat /\ Cardinality(s \ {AnyOf(s)}) \in Nat
             /\ Cardinality(s \ {AnyOf(s)}) + 1 = Cardinality(s)
  <2>1. AnyOf(s) \in s
    BY <1>0 DEF AnyOf
  <2> QED
    BY <2>1, OneLess
<1>1. 0 \in T
  <2>1. \A s \in D(0) : s = {}
    <3> SUFFICES ASSUME NEW s \in SUBSET S, Cardinality(s) <= 0, s # {} PROVE FALSE
      OBVIOUS
    <3>1. /\ Cardinality(s) \in Nat /\ Cardinality(s \ {AnyOf(s)}) \in Nat
          /\ Cardinality(s \ {AnyOf(s)}) + 1 = Cardinality(s)
      BY <1>0
    <3> QED
      BY <3>1
  <2> DEFINE f == [s \in D(0) |-> 0]
  <2>2. Partial(f, 0)
    BY <2>1 DEF Counted
  <2> QED
    BY <2>2
<1>2. ASSUME NEW n \in Nat, n \in T PROVE n + 1 \in T
  <2>1. PICK f : Partial(f, n)
    BY <1>2
  <2> DEFINE g == [s \in D(n + 1) |-> Counted(f, w, s)]
  <2>2. ASSUME NEW s \in D(n) PROVE g[s] = f[s]
    <3>1. s \in SUBSET S /\ Cardinality(s) <= n
      OBVIOUS
    <3>2. s \in D(n + 1)
      <4>1. Cardinality(s) \in Nat
        BY <3>1, FS_Subset, FS_CardinalityType
      <4> QED
        BY <3>1, <4>1
    <3> QED
      BY <2>1, <3>2
  <2>3. ASSUME NEW s \in D(n + 1) PROVE g[s] = Counted(g, w, s)
    <3>1. g[s] = Counted(f, w, s)
      OBVIOUS
    <3>2. CASE s = {}
      BY <3>1, <3>2 DEF Counted
    <3>3. CASE s # {}
      <4>1. s \ {AnyOf(s)} \in D(n)
        <5>1. s \in SUBSET S /\ Cardinality(s) <= n + 1
          OBVIOUS
        <5>2. /\ s \ {AnyOf(s)} \in SUBSET S /\ Cardinality(s) \in Nat /\ Cardinality(s \ {AnyOf(s)}) \in Nat
              /\ Cardinality(s \ {AnyOf(s)}) + 1 = Cardinality(s)
          BY <1>0, <3>3, <5>1
        <5>3. Cardinality(s \ {AnyOf(s)}) <= n
          BY <5>1, <5>2
        <5> QED
          BY <5>2, <5>3
      <4>2. g[s \ {AnyOf(s)}] = f[s \ {AnyOf(s)}]
        <5> HIDE DEF g, D
        <5> QED
          BY <2>2, <4>1
      <4> HIDE DEF g, D
      <4> QED
        BY <3>1, <3>3, <4>2 DEF Counted
    <3> QED
      BY <3>2, <3>3
  <2>4. g = [s \in D(n + 1) |-> g[s]]
    OBVIOUS
  <2>5. Partial(g, n + 1)
    <3> HIDE DEF g, D
    <3> QED
      BY <2>3, <2>4
  <2>6. \E h : Partial(h, n + 1)
    <3> HIDE DEF g, Partial
    <3> QED
      BY <2>5
  <2> HIDE DEF Partial
  <2> QED
    BY <2>6
<1>3. Cardinality(S) \in T
  <2>1. Cardinality(S) \in Nat
    BY FS_CardinalityType
  <2> HIDE DEF T
  <2> QED
    BY <1>1, <1>2, <2>1, SetInduction
<1>4. D(Cardinality(S)) = SUBSET S
  BY FS_Subset
<1>5. PICK f : Partial(f, Cardinality(S))
  BY <1>3
<1> HIDE DEF D
<1> QED
  BY <1>4, <1>5 DEF SumLoop

\* Loops over the same numbers agree, whatever the sets they were started with.
LEMMA LoopsAgree ==
    ASSUME NEW S, IsFiniteSet(S), NEW f, NEW g, NEW w, NEW v, NEW U, NEW V, S \subseteq U, S \subseteq V,
           SumLoop(f, w, U), SumLoop(g, v, V), \A x \in S : w[x] = v[x]
    PROVE  f[S] = g[S]
<1> DEFINE F == {s \in SUBSET S : f[s] = g[s]}
<1>1. \A s \in SUBSET S : f[s] = Counted(f, w, s) /\ g[s] = Counted(g, v, s)
  BY DEF SumLoop
<1>2. {} \in F
  <2>1. {} \in SUBSET S
    OBVIOUS
  <2> QED
    BY <1>1, <2>1 DEF Counted
<1>3. ASSUME NEW s \in SUBSET S, s # {}, \A x \in s : s \ {x} \in F
      PROVE  s \in F
  <2>1. AnyOf(s) \in s
    BY <1>3 DEF AnyOf
  <2>2. f[s \ {AnyOf(s)}] = g[s \ {AnyOf(s)}] /\ w[AnyOf(s)] = v[AnyOf(s)]
    BY <1>3, <2>1
  <2> QED
    BY <1>1, <1>3, <2>2 DEF Counted
<1>4. S \in F
  <2>1. \A s \in SUBSET S : s # {} /\ (\A x \in s : s \ {x} \in F) => s \in F
    BY <1>3
  <2> HIDE DEF F
  <2>2. \A s \in SUBSET S : s \in F
    BY <1>2, <2>1, FiniteInduction
  <2> QED
    BY <2>2
<1> QED
  BY <1>4

\* SumFunctionOnSet is what the loop makes.
LEMMA SumIs ==
    ASSUME NEW S, IsFiniteSet(S), NEW w
    PROVE  \E f : SumLoop(f, w, S) /\ SumOf(w, S) = f[S]
<1>1. \E f : SumLoop(f, w, S)
  BY SumLoopRuns
<1> QED
  BY ONLY <1>1, Zenon DEF SumOf, SumFunctionOnSet, FoldFunctionOnSet, MapThenFoldSet, SumLoop, Counted, AnyOf

\* Numbers that are the same have the same sum.
LEMMA SumSame ==
    ASSUME NEW S, IsFiniteSet(S), NEW w, NEW v, \A x \in S : w[x] = v[x]
    PROVE  SumOf(w, S) = SumOf(v, S)
<1>2. PICK f : SumLoop(f, w, S) /\ SumOf(w, S) = f[S]
  BY SumIs
<1>3. PICK g : SumLoop(g, v, S) /\ SumOf(v, S) = g[S]
  BY SumIs
<1>4. f[S] = g[S]
  BY <1>2, <1>3, LoopsAgree
<1> QED
  BY <1>2, <1>3, <1>4

\* The sum of nothing, and of a set without the element that is taken first.
LEMMA SumStep ==
    ASSUME NEW S, IsFiniteSet(S), NEW w
    PROVE  /\ S = {} => SumOf(w, S) = 0
           /\ S # {} => SumOf(w, S) = w[AnyOf(S)] + SumOf(w, S \ {AnyOf(S)})
<1>1. PICK f : SumLoop(f, w, S) /\ SumOf(w, S) = f[S]
  BY SumIs
<1>2. f[S] = Counted(f, w, S)
  BY <1>1 DEF SumLoop
<1>3. CASE S # {}
  <2>1. AnyOf(S) \in S
    BY <1>3 DEF AnyOf
  <2>2. IsFiniteSet(S \ {AnyOf(S)})
    BY FS_Subset
  <2>3. PICK g : SumLoop(g, w, S \ {AnyOf(S)}) /\ SumOf(w, S \ {AnyOf(S)}) = g[S \ {AnyOf(S)}]
    BY <2>2, SumIs
  <2>4. f[S \ {AnyOf(S)}] = g[S \ {AnyOf(S)}]
    BY <1>1, <2>2, <2>3, LoopsAgree
  <2> QED
    BY <1>1, <1>2, <1>3, <2>3, <2>4 DEF Counted
<1> QED
  BY <1>1, <1>2, <1>3 DEF Counted

\* A sum of natural numbers is one.
LEMMA SumNat ==
    ASSUME NEW S, IsFiniteSet(S), NEW w, \A x \in S : w[x] \in Nat
    PROVE  SumOf(w, S) \in Nat
<1> DEFINE F == {s \in SUBSET S : SumOf(w, s) \in Nat}
<1>1. {} \in F
  <2>1. SumOf(w, {}) = 0
    BY FS_EmptySet, SumStep
  <2> QED
    BY <2>1
<1>2. ASSUME NEW s \in SUBSET S, s # {}, \A x \in s : s \ {x} \in F
      PROVE  s \in F
  <2>1. AnyOf(s) \in s /\ IsFiniteSet(s)
    BY <1>2, FS_Subset DEF AnyOf
  <2>2. SumOf(w, s) = w[AnyOf(s)] + SumOf(w, s \ {AnyOf(s)})
    BY <1>2, <2>1, SumStep
  <2>3. SumOf(w, s \ {AnyOf(s)}) \in Nat /\ w[AnyOf(s)] \in Nat
    BY <1>2, <2>1
  <2> QED
    BY <2>2, <2>3
<1>3. \A s \in SUBSET S : s \in F
  <2>1. \A s \in SUBSET S : s # {} /\ (\A x \in s : s \ {x} \in F) => s \in F
    BY <1>2
  <2> HIDE DEF F
  <2> QED
    BY <1>1, <2>1, FiniteInduction
<1> QED
  BY <1>3

\* Any element may be taken out of a sum.
LEMMA SumWithout ==
    ASSUME NEW S, IsFiniteSet(S), NEW w, \A x \in S : w[x] \in Nat
    PROVE  \A x \in S : /\ SumOf(w, S) = SumOf(w, S \ {x}) + w[x]
                        /\ SumOf(w, S \ {x}) \in Nat /\ SumOf(w, S) \in Nat
<1> DEFINE F == {s \in SUBSET S : \A x \in s : SumOf(w, s) = SumOf(w, s \ {x}) + w[x]}
<1>0. \A s \in SUBSET S : IsFiniteSet(s) /\ SumOf(w, s) \in Nat
  BY FS_Subset, SumNat
<1>1. {} \in F
  OBVIOUS
<1>2. ASSUME NEW s \in SUBSET S, s # {}, \A y \in s : s \ {y} \in F
      PROVE  s \in F
  <2> SUFFICES ASSUME NEW x \in s PROVE SumOf(w, s) = SumOf(w, s \ {x}) + w[x]
    OBVIOUS
  <2> DEFINE y == AnyOf(s)
  <2>1. y \in s /\ IsFiniteSet(s)
    BY <1>0, <1>2 DEF AnyOf
  <2>2. SumOf(w, s) = SumOf(w, s \ {y}) + w[y]
    <3>1. SumOf(w, s) = w[y] + SumOf(w, s \ {y})
      BY <1>2, <2>1, SumStep
    <3>2. w[y] \in Nat /\ s \ {y} \in SUBSET S
      BY <2>1
    <3>3. SumOf(w, s \ {y}) \in Nat
      BY <1>0, <3>2
    <3> HIDE DEF y
    <3> QED
      BY <3>1, <3>2, <3>3
  <2> HIDE DEF y
  <2>3. CASE y = x
    BY <2>2, <2>3
  <2>4. CASE y # x
    <3>1. SumOf(w, s \ {y}) = SumOf(w, (s \ {y}) \ {x}) + w[x]
      <4>1. x \in s \ {y} /\ s \ {y} \in F
        BY <1>2, <2>1, <2>4
      <4> QED
        BY <4>1
    <3>2. SumOf(w, s \ {x}) = SumOf(w, (s \ {x}) \ {y}) + w[y]
      <4>1. y \in s \ {x} /\ s \ {x} \in F
        BY <1>2, <2>1, <2>4
      <4> QED
        BY <4>1
    <3>3. (s \ {x}) \ {y} = (s \ {y}) \ {x}
      OBVIOUS
    <3>4. PICK n \in Nat : n = SumOf(w, (s \ {y}) \ {x})
      <4>1. (s \ {y}) \ {x} \in SUBSET S
        OBVIOUS
      <4> QED
        BY <1>0, <4>1
    <3>5. w[x] \in Nat /\ w[y] \in Nat
      BY <2>1
    <3>6. SumOf(w, s) = (n + w[x]) + w[y] /\ SumOf(w, s \ {x}) = n + w[y]
      BY <2>2, <3>1, <3>2, <3>3, <3>4
    <3> QED
      BY <3>4, <3>5, <3>6
  <2> QED
    BY <2>3, <2>4
<1>3. S \in F
  <2>1. \A s \in SUBSET S : s # {} /\ (\A y \in s : s \ {y} \in F) => s \in F
    BY <1>2
  <2> HIDE DEF F
  <2>2. \A s \in SUBSET S : s \in F
    BY <1>1, <2>1, FiniteInduction
  <2> QED
    BY <2>2
<1> QED
  BY <1>0, <1>3

\* A new element adds its number.
LEMMA SumWith ==
    ASSUME NEW S, IsFiniteSet(S), NEW w, NEW x, x \notin S, \A y \in S \cup {x} : w[y] \in Nat
    PROVE  /\ IsFiniteSet(S \cup {x})
           /\ SumOf(w, S) \in Nat /\ SumOf(w, S \cup {x}) = SumOf(w, S) + w[x]
<1> DEFINE T == S \cup {x}
<1>1. IsFiniteSet(T) /\ T \ {x} = S /\ x \in T
  BY FS_AddElement
<1>2. \A y \in T : w[y] \in Nat
  OBVIOUS
<1> HIDE DEF T
<1>3. SumOf(w, T) = SumOf(w, T \ {x}) + w[x] /\ SumOf(w, T \ {x}) \in Nat
  BY <1>1, <1>2, SumWithout
<1> QED
  BY <1>1, <1>3 DEF T

-----------------------------------------------------------------------------
(* The largest and the smallest number of a set *)

\* Max is the number that no other exceeds, and Min the one that exceeds no other.
LEMMA MaxIs ==
    ASSUME NEW S \in SUBSET Int, NEW x \in S
    PROVE  /\ (\A y \in S : y <= x) => Max(S) = x
           /\ (\A y \in S : x <= y) => Min(S) = x
<1>1. ASSUME \A y \in S : y <= x PROVE Max(S) = x
  <2>1. \A z \in S : (\A y \in S : z >= y) => z = x
    BY <1>1
  <2> QED
    BY <1>1, <2>1 DEF Max
<1>2. ASSUME \A y \in S : x <= y PROVE Min(S) = x
  <2>1. \A z \in S : (\A y \in S : z =< y) => z = x
    BY <1>2
  <2> QED
    BY <1>2, <2>1 DEF Min
<1> QED
  BY <1>1, <1>2

\* Of two numbers.
LEMMA MaxOfTwo ==
    ASSUME NEW a \in Int, NEW b \in Int
    PROVE  /\ Max({a, b}) = IF a >= b THEN a ELSE b
           /\ Min({a, b}) = IF a <= b THEN a ELSE b
<1>1. {a, b} \in SUBSET Int
  OBVIOUS
<1>2. CASE a >= b
  <2>1. Max({a, b}) = a /\ Min({a, b}) = b
    BY <1>1, <1>2, MaxIs
  <2> QED
    BY <1>2, <2>1
<1>3. CASE ~(a >= b)
  <2>1. Max({a, b}) = b /\ Min({a, b}) = a
    BY <1>1, <1>3, MaxIs
  <2> QED
    BY <1>3, <2>1
<1> QED
  BY <1>2, <1>3

\* A finite set that is not empty has both.
LEMMA HasMax ==
    ASSUME NEW S \in SUBSET Int, IsFiniteSet(S), S # {}
    PROVE  /\ Max(S) \in S /\ \A y \in S : y <= Max(S)
           /\ Min(S) \in S /\ \A y \in S : Min(S) <= y
<1> DEFINE Has(s) == (\E x \in s : \A y \in s : y <= x) /\ (\E x \in s : \A y \in s : x <= y)
           F == {s \in SUBSET S : s # {} => Has(s)}
<1>1. {} \in F
  OBVIOUS
<1>2. ASSUME NEW s \in SUBSET S, s # {}, \A x \in s : s \ {x} \in F
      PROVE  s \in F
  <2>1. PICK a \in s : TRUE
    BY <1>2
  <2>2. CASE s \ {a} = {}
    <3>1. \A y \in s : y = a
      BY <2>2
    <3> QED
      BY <2>1, <3>1
  <2>3. CASE s \ {a} # {}
    <3>1. Has(s \ {a})
      BY <1>2, <2>1, <2>3
    <3>2. PICK x \in s \ {a} : \A y \in s \ {a} : y <= x
      BY <3>1
    <3>3. PICK z \in s \ {a} : \A y \in s \ {a} : z <= y
      BY <3>1
    <3>4. a \in Int /\ x \in Int /\ z \in Int /\ s \subseteq Int
      BY <2>1
    <3>5. \E b \in s : \A y \in s : y <= b
      <4>1. CASE a <= x
        BY <3>2, <3>4, <4>1
      <4>2. CASE ~(a <= x)
        <5>1. \A y \in s : y <= a
          BY <3>2, <3>4, <4>2
        <5> QED
          BY <5>1
      <4> QED
        BY <4>1, <4>2
    <3>6. \E b \in s : \A y \in s : b <= y
      <4>1. CASE z <= a
        BY <3>3, <3>4, <4>1
      <4>2. CASE ~(z <= a)
        <5>1. \A y \in s : a <= y
          BY <3>3, <3>4, <4>2
        <5> QED
          BY <5>1
      <4> QED
        BY <4>1, <4>2
    <3> QED
      BY <3>5, <3>6
  <2> QED
    BY <2>2, <2>3
<1>3. S \in F
  <2>1. \A s \in SUBSET S : s # {} /\ (\A x \in s : s \ {x} \in F) => s \in F
    BY <1>2
  <2> HIDE DEF F
  <2>2. \A s \in SUBSET S : s \in F
    BY <1>1, <2>1, FiniteInduction
  <2> QED
    BY <2>2
<1>4. PICK x \in S : \A y \in S : y <= x
  BY <1>3
<1>5. PICK z \in S : \A y \in S : z <= y
  BY <1>3
<1>6. Max(S) = x /\ Min(S) = z
  BY <1>4, <1>5, MaxIs
<1> QED
  BY <1>4, <1>5, <1>6

\* What one more number makes of them.
LEMMA MaxWith ==
    ASSUME NEW S \in SUBSET Int, IsFiniteSet(S), S # {}, NEW x \in Int
    PROVE  /\ Max(S \cup {x}) = Max({Max(S), x})
           /\ Min(S \cup {x}) = Min({Min(S), x})
<1> DEFINE a == Max(S)
           b == Min(S)
           T == S \cup {x}
<1>1. /\ a \in S /\ \A y \in S : y <= a
      /\ b \in S /\ \A y \in S : b <= y
  BY HasMax
<1>2. T \in SUBSET Int /\ a \in T /\ b \in T /\ x \in T /\ a \in Int /\ b \in Int
  BY <1>1
<1> HIDE DEF a, b
<1>3. Max(T) = Max({a, x})
  <2>1. CASE a >= x
    <3>1. \A y \in T : y <= a
      BY <1>1, <2>1
    <3>2. Max(T) = a
      BY <1>2, <3>1, MaxIs
    <3> QED
      BY <1>2, <2>1, <3>2, MaxOfTwo
  <2>2. CASE ~(a >= x)
    <3>1. \A y \in T : y <= x
      BY <1>1, <1>2, <2>2
    <3>2. Max(T) = x
      BY <1>2, <3>1, MaxIs
    <3> QED
      BY <1>2, <2>2, <3>2, MaxOfTwo
  <2> QED
    BY <2>1, <2>2
<1>4. Min(T) = Min({b, x})
  <2>1. CASE b <= x
    <3>1. \A y \in T : b <= y
      BY <1>1, <2>1
    <3>2. Min(T) = b
      BY <1>2, <3>1, MaxIs
    <3> QED
      BY <1>2, <2>1, <3>2, MaxOfTwo
  <2>2. CASE ~(b <= x)
    <3>1. \A y \in T : x <= y
      BY <1>1, <1>2, <2>2
    <3>2. Min(T) = x
      BY <1>2, <3>1, MaxIs
    <3> QED
      BY <1>2, <2>2, <3>2, MaxOfTwo
  <2> QED
    BY <2>1, <2>2
<1> QED
  BY <1>3, <1>4 DEF a, b

-----------------------------------------------------------------------------
(* Klines *)

Deal == [market : Markets, time : Nat, price : Nat \ {0}, amount : Nat \ {0}]
Kline == [open : Nat \ {0}, close : Nat, high : Nat, low : Nat, volume : Nat, deal : Nat]

\* DealAt, and KlineOf for deals that are all in its interval, of any topic f
At(f, o) == f[o - FirstOffset + 1]
KlineOfAll(f, D) ==
    IF D = {} THEN NoKline ELSE
    [open |-> At(f, Min(D)).price, close |-> At(f, Max(D)).price,
     high |-> Max({At(f, o).price : o \in D}), low |-> Min({At(f, o).price : o \in D}),
     volume |-> SumFunction([o \in D |-> At(f, o).amount]),
     deal |-> SumFunction([o \in D |-> At(f, o).price * At(f, o).amount])]

\* A sum of a function, with one more argument and of none.
LEMMA FunctionSumWith ==
    ASSUME NEW S, IsFiniteSet(S), NEW x, x \notin S, NEW w \in [S \cup {x} -> Nat],
           NEW v \in [S -> Nat], \A y \in S : v[y] = w[y]
    PROVE  /\ SumFunction(v) \in Nat /\ SumFunction(w) = SumFunction(v) + w[x]
           /\ S = {} => SumFunction(v) = 0
<1>1. SumFunction(v) = SumOf(v, S) /\ SumFunction(w) = SumOf(w, S \cup {x})
  BY DEF SumFunction, SumOf
<1>2. SumOf(v, S) = SumOf(w, S)
  BY SumSame
<1>3. SumOf(w, S) \in Nat /\ SumOf(w, S \cup {x}) = SumOf(w, S) + w[x]
  BY SumWith
<1>4. S = {} => SumOf(w, S) = 0
  BY SumStep
<1> QED
  BY <1>1, <1>2, <1>3, <1>4

\* The fields kline_info_update leaves and those it changes.
LEMMA UpdateIs ==
    ASSUME NEW o, NEW c, NEW h, NEW l, NEW v, NEW d, NEW p, NEW a
    PROVE  Update([open |-> o, close |-> c, high |-> h, low |-> l, volume |-> v, deal |-> d], p, a) =
             [open |-> o, close |-> p, high |-> Max({h, p}), low |-> Min({l, p}),
              volume |-> v + a, deal |-> d + p * a]
<1> DEFINE k == [open |-> o, close |-> c, high |-> h, low |-> l, volume |-> v, deal |-> d]
           r == Update(k, p, a)
<1>1. /\ k.open = o /\ k.high = h /\ k.low = l /\ k.volume = v /\ k.deal = d
      /\ DOMAIN k = {"open", "close", "high", "low", "volume", "deal"}
  OBVIOUS
<1> HIDE DEF k
<1>2. r = [k EXCEPT !.close = p, !.volume = v + a, !.deal = d + p * a,
                    !.high = Max({h, p}), !.low = Min({l, p})]
  BY <1>1 DEF Update
<1> HIDE DEF r
<1>3. DOMAIN r = DOMAIN k /\ r = [x \in DOMAIN r |-> r[x]]
  BY <1>2
<1>4. r.open = o /\ r.close = p /\ r.high = Max({h, p})
  BY <1>1, <1>2
<1>5. r.low = Min({l, p}) /\ r.volume = v + a /\ r.deal = d + p * a
  BY <1>1, <1>2
<1> QED
  BY ONLY <1>1, <1>3, <1>4, <1>5 DEF k, r

\* kline_info_update enters a deal that is newer than all of a kline.
LEMMA KlineGrows ==
    ASSUME NEW f, NEW D \in SUBSET Int, IsFiniteSet(D), NEW x \in Int, \A o \in D : o < x,
           \A o \in D \cup {x} : At(f, o) \in Deal
    PROVE  /\ D # {} => KlineOfAll(f, D) \in Kline
           /\ KlineOfAll(f, D \cup {x}) =
                Update(IF D = {} THEN NewKline(At(f, x).price) ELSE KlineOfAll(f, D), At(f, x).price, At(f, x).amount)
<1> DEFINE E == D \cup {x}
           p == At(f, x).price
           a == At(f, x).amount
           prices(S) == {At(f, o).price : o \in S}
           volume(S) == SumFunction([o \in S |-> At(f, o).amount])
           worth(S) == SumFunction([o \in S |-> At(f, o).price * At(f, o).amount])
<1>1. \A o \in E : /\ At(f, o).price \in Nat \ {0} /\ At(f, o).amount \in Nat
                   /\ At(f, o).price * At(f, o).amount \in Nat
  <2> SUFFICES ASSUME NEW o \in E
               PROVE  /\ At(f, o).price \in Nat \ {0} /\ At(f, o).amount \in Nat
                      /\ At(f, o).price * At(f, o).amount \in Nat
    OBVIOUS
  <2>1. At(f, o).price \in Nat \ {0} /\ At(f, o).amount \in Nat
    BY DEF Deal
  <2> QED
    BY <2>1
<1>2. p \in Nat \ {0} /\ a \in Nat /\ p * a \in Nat /\ x \notin D
  BY <1>1
<1>3. volume(D) \in Nat /\ volume(E) = volume(D) + a /\ (D = {} => volume(D) = 0)
  <2> DEFINE w == [o \in E |-> At(f, o).amount]
             v == [o \in D |-> At(f, o).amount]
  <2>1. w \in [D \cup {x} -> Nat] /\ w[x] = a /\ v \in [D -> Nat] /\ \A y \in D : v[y] = w[y]
    BY <1>1
  <2> HIDE DEF w, v
  <2>2. /\ SumFunction(v) \in Nat /\ SumFunction(w) = SumFunction(v) + w[x]
        /\ D = {} => SumFunction(v) = 0
    BY <1>2, <2>1, FunctionSumWith
  <2> QED
    BY <2>1, <2>2 DEF w, v
<1>4. worth(D) \in Nat /\ worth(E) = worth(D) + p * a /\ (D = {} => worth(D) = 0)
  <2> DEFINE w == [o \in E |-> At(f, o).price * At(f, o).amount]
             v == [o \in D |-> At(f, o).price * At(f, o).amount]
  <2>1. w \in [D \cup {x} -> Nat] /\ w[x] = p * a /\ v \in [D -> Nat] /\ \A y \in D : v[y] = w[y]
    BY <1>1
  <2> HIDE DEF w, v
  <2>2. /\ SumFunction(v) \in Nat /\ SumFunction(w) = SumFunction(v) + w[x]
        /\ D = {} => SumFunction(v) = 0
    BY <1>2, <2>1, FunctionSumWith
  <2> QED
    BY <2>1, <2>2 DEF w, v
<1>5. Max(E) = x
  <2>1. E \in SUBSET Int /\ x \in E /\ \A y \in E : y <= x
    OBVIOUS
  <2> QED
    BY <2>1, MaxIs
<1>6. prices(E) = prices(D) \cup {p}
  OBVIOUS
<1>7. KlineOfAll(f, E) = [open |-> At(f, Min(E)).price, close |-> p,
                          high |-> Max(prices(D) \cup {p}), low |-> Min(prices(D) \cup {p}),
                          volume |-> volume(D) + a, deal |-> worth(D) + p * a]
  <2>1. KlineOfAll(f, E) = [open |-> At(f, Min(E)).price, close |-> At(f, Max(E)).price,
                            high |-> Max(prices(E)), low |-> Min(prices(E)),
                            volume |-> volume(E), deal |-> worth(E)]
    BY DEF KlineOfAll
  <2> HIDE DEF E, prices, volume, worth, a
  <2> QED
    BY <1>3, <1>4, <1>5, <1>6, <2>1
<1>8. CASE D = {}
  <2>1. E = {x} /\ E \in SUBSET Int /\ x \in E /\ \A y \in E : x <= y
    BY <1>8
  <2>2. Min(E) = x
    BY <2>1, MaxIs
  <2>3. prices(D) \cup {p} = {p, p}
    BY <1>8
  <2>4. Max({p, p}) = p /\ Min({p, p}) = p
    <3> HIDE DEF p
    <3> QED
      BY <1>2, MaxOfTwo
  <2>5. KlineOfAll(f, E) = [open |-> p, close |-> p, high |-> Max({p, p}), low |-> Min({p, p}),
                            volume |-> 0 + a, deal |-> 0 + p * a]
    <3> HIDE DEF E, prices, volume, worth, a, p
    <3> QED
      BY <1>3, <1>4, <1>7, <1>8, <2>2, <2>3 DEF p
  <2>6. Update(NewKline(p), p, a) = [open |-> p, close |-> p, high |-> Max({p, p}), low |-> Min({p, p}),
                                     volume |-> 0 + a, deal |-> 0 + p * a]
    <3> HIDE DEF a, p
    <3> QED
      BY UpdateIs DEF NewKline
  <2> QED
    BY <1>8, <2>5, <2>6
<1>9. CASE D # {}
  <2> DEFINE k == KlineOfAll(f, D)
             P == prices(D)
  <2>1. /\ Max(D) \in D /\ Min(D) \in D /\ \A y \in D : Min(D) <= y
    BY <1>9, HasMax
  <2>2. Min(E) = Min(D)
    <3>0. Min(D) < x /\ Min(D) \in Int
      BY <2>1
    <3>1. E \in SUBSET Int /\ Min(D) \in E /\ \A y \in E : Min(D) <= y
      BY <2>1, <3>0
    <3> QED
      BY <3>1, MaxIs
  <2>3. P \in SUBSET Int /\ IsFiniteSet(P) /\ P # {} /\ P \subseteq Nat
    <3> DEFINE w == [o \in D |-> At(f, o).price]
    <3>2. IsFiniteSet(P)
      <4>1. w \in Surjection(D, P)
        BY DEF Surjection
      <4> HIDE DEF w, P
      <4> QED
        BY <4>1, FS_Surjection
    <3>3. P \subseteq Nat
      BY <1>1
    <3>4. P # {}
      BY <2>1
    <3> HIDE DEF P, w
    <3> QED
      BY <3>2, <3>3, <3>4
  <2>4. Max(P) \in Nat /\ Min(P) \in Nat
    <3> HIDE DEF P
    <3> QED
      BY <2>3, HasMax
  <2>5. Max(P \cup {p}) = Max({Max(P), p}) /\ Min(P \cup {p}) = Min({Min(P), p})
    <3>1. p \in Int
      BY <1>2
    <3> HIDE DEF P, p
    <3> QED
      BY <2>3, <3>1, MaxWith
  <2>6. k = [open |-> At(f, Min(D)).price, close |-> At(f, Max(D)).price, high |-> Max(P), low |-> Min(P),
             volume |-> volume(D), deal |-> worth(D)]
    BY <1>9 DEF KlineOfAll
  <2>7. k \in Kline
    <3>1. At(f, Min(D)).price \in Nat \ {0} /\ At(f, Max(D)).price \in Nat
      BY <1>1, <2>1
    <3> HIDE DEF k, P, volume, worth
    <3> QED
      BY <1>3, <1>4, <2>4, <2>6, <3>1 DEF Kline
  <2>8. Update(k, p, a) = [open |-> At(f, Min(D)).price, close |-> p, high |-> Max({Max(P), p}), low |-> Min({Min(P), p}),
                           volume |-> volume(D) + a, deal |-> worth(D) + p * a]
    <3> HIDE DEF k, P, volume, worth, p, a
    <3> QED
      BY <2>6, UpdateIs
  <2>9. KlineOfAll(f, E) = Update(k, p, a)
    <3> HIDE DEF k, volume, worth, p, a, E
    <3>1. Max(P \cup {p}) = Max(prices(D) \cup {p}) /\ Min(P \cup {p}) = Min(prices(D) \cup {p})
      OBVIOUS
    <3> HIDE DEF P, prices
    <3> QED
      BY <1>7, <2>2, <2>5, <2>8, <3>1
  <2> QED
    BY <1>9, <2>7, <2>9
<1> QED
  BY <1>8, <1>9

-----------------------------------------------------------------------------
(* The klines of a market, one for each interval *)

Dicts == UNION {[S -> Kline] : S \in SUBSET Nat}

\* The deals of a market, those of an interval, and Explained, of any topic f and time n
DealsIn(f, m, o) == {x \in FirstOffset .. o : At(f, x).market = m}
Inside(f, D, start, end) == {x \in D : start <= At(f, x).time /\ At(f, x).time < end}
ExplainedIn(f, K, m, o, n) ==
    \A u \in Units : \A t \in Oldest(u, n) .. n :
        t % Length(u) = 0 =>
            KlineOfAll(f, Inside(f, DealsIn(f, m, o), t, t + Length(u))) =
                IF t \in DOMAIN K[u] THEN K[u][t] ELSE NoKline

\* The lengths of the intervals.
LEMMA LengthNat ==
    ASSUME NEW u \in Units
    PROVE  Length(u) \in Nat \ {0}
BY UnitsAssumption DEF Units, Length

\* Multiples of a number are at least that number apart.
LEMMA MultiplesApart ==
    ASSUME NEW n \in Nat \ {0}, NEW j \in Int, NEW k \in Int, j < k
    PROVE  n * j + n <= n * k
<1>1. k - j - 1 \in Nat /\ n \in Nat
  OBVIOUS
<1>2. n * (k - j - 1) \in Nat
  BY <1>1
<1>3. n * (k - j - 1) = n * k - n * j - n
  OBVIOUS
<1>4. n * k \in Int /\ n * j \in Int
  OBVIOUS
<1> QED
  BY <1>2, <1>3, <1>4

\* A number is between the multiple that division gives and the next.
LEMMA Division ==
    ASSUME NEW x \in Int, NEW n \in Nat \ {0}
    PROVE  /\ x \div n \in Int /\ x % n \in Int
           /\ n * (x \div n) <= x /\ x < n * (x \div n) + n
           /\ (x % n = 0) => x = n * (x \div n)
OBVIOUS

\* A time is in one interval of each length, the one that begins at its KlineTime.
LEMMA IntervalOf ==
    ASSUME NEW u \in Units, NEW t \in Int, t % Length(u) = 0, NEW x \in Nat
    PROVE  (t <= x /\ x < t + Length(u)) <=> t = KlineTime(u, x)
<1> DEFINE n == Length(u)
           j == t \div n
           k == x \div n
<1>1. n \in Nat \ {0}
  BY LengthNat
<1> HIDE DEF n
<1>2. j \in Int /\ t = n * j
  BY <1>1, Division DEF n
<1>3. k \in Int /\ n * k <= x /\ x < n * k + n
  BY <1>1, Division
<1>4. KlineTime(u, x) = n * k
  BY <1>1, <1>3 DEF KlineTime, n
<1> HIDE DEF j, k
<1>5. n * j \in Int /\ n * k \in Int
  BY <1>1, <1>2, <1>3
<1>6. CASE j = k
  BY <1>2, <1>3, <1>4, <1>6 DEF n
<1>7. CASE j < k
  <2>1. n * j + n <= n * k
    BY <1>1, <1>2, <1>3, <1>7, MultiplesApart
  <2> QED
    BY <1>1, <1>2, <1>3, <1>4, <1>5, <2>1 DEF n
<1>8. CASE k < j
  <2>1. n * k + n <= n * j
    BY <1>1, <1>2, <1>3, <1>8, MultiplesApart
  <2> QED
    BY <1>1, <1>2, <1>3, <1>4, <1>5, <2>1 DEF n
<1> QED
  BY <1>2, <1>3, <1>6, <1>7, <1>8

\* The deals up to an offset are a finite set of deals of the topic.
LEMMA DealsInFacts ==
    ASSUME NEW f \in Seq(Deal), NEW m, NEW o \in Int, o < FirstOffset + Len(f)
    PROVE  /\ DealsIn(f, m, o) \in SUBSET Int /\ IsFiniteSet(DealsIn(f, m, o))
           /\ \A x \in DealsIn(f, m, o) :
                x <= o /\ At(f, x) \in Deal /\ x - FirstOffset + 1 \in 1 .. Len(f)
<1>1. FirstOffset \in Int
  BY SettingsAssumption
<1>2. IsFiniteSet(FirstOffset .. o)
  BY <1>1, FS_Interval
<1>3. IsFiniteSet(DealsIn(f, m, o))
  BY <1>2, FS_Subset DEF DealsIn
<1>4. ASSUME NEW x \in DealsIn(f, m, o) PROVE x <= o /\ At(f, x) \in Deal /\ x - FirstOffset + 1 \in 1 .. Len(f)
  <2>1. x \in Int /\ FirstOffset <= x /\ x <= o
    BY <1>1 DEF DealsIn
  <2>2. x - FirstOffset + 1 \in 1 .. Len(f)
    BY <1>1, <2>1
  <2>3. f[x - FirstOffset + 1] \in Deal
    BY <2>2
  <2> QED
    BY <2>1, <2>2, <2>3 DEF At
<1> QED
  BY <1>1, <1>3, <1>4 DEF DealsIn

\* The next deal is one of its market's, and of no other.
LEMMA NextDeal ==
    ASSUME NEW f \in Seq(Deal), NEW o \in Int, FirstOffset - 1 <= o, o + 1 < FirstOffset + Len(f), NEW m
    PROVE  /\ At(f, o + 1) \in Deal
           /\ At(f, o + 1).market = m => DealsIn(f, m, o + 1) = DealsIn(f, m, o) \cup {o + 1}
           /\ At(f, o + 1).market # m => DealsIn(f, m, o + 1) = DealsIn(f, m, o)
<1>1. FirstOffset \in Int
  BY SettingsAssumption
<1>2. (o + 1) - FirstOffset + 1 \in 1 .. Len(f)
  BY <1>1
<1>3. f[(o + 1) - FirstOffset + 1] \in Deal
  BY <1>2
<1>4. FirstOffset .. (o + 1) = (FirstOffset .. o) \cup {o + 1}
  BY <1>1
<1> QED
  BY <1>3, <1>4 DEF At, DealsIn

\* What the dictionaries hold.
LEMMA DictFacts ==
    ASSUME NEW d \in Dicts
    PROVE  DOMAIN d \in SUBSET Nat /\ d \in [DOMAIN d -> Kline] /\ \A t \in DOMAIN d : d[t] \in Kline
<1>1. PICK S \in SUBSET Nat : d \in [S -> Kline]
  BY DEF Dicts
<1> QED
  BY <1>1

\* No kline of a dictionary is the empty one.
LEMMA NoKlineIs == NoKline \notin Kline
BY DEF NoKline, NewKline, Kline

\* on_deals_message: a market's klines are right again when its deal is entered.
LEMMA ExplainedDeal ==
    ASSUME NEW f \in Seq(Deal), NEW o \in Int, FirstOffset - 1 <= o, o + 1 < FirstOffset + Len(f),
           NEW n \in Nat, NEW m, NEW K \in [Units -> Dicts], ExplainedIn(f, K, m, o, n), At(f, o + 1).market = m,
           NEW J, J = [u \in Units |-> Entered(K[u], KlineTime(u, At(f, o + 1).time), At(f, o + 1))]
    PROVE  ExplainedIn(f, J, m, o + 1, n)
<1> DEFINE x == o + 1
           d == At(f, x)
<1>1. d \in Deal /\ DealsIn(f, m, x) = DealsIn(f, m, o) \cup {x} /\ d.time \in Nat
  BY NextDeal DEF Deal
<1> SUFFICES ASSUME NEW u \in Units, NEW t \in Oldest(u, n) .. n, t % Length(u) = 0
             PROVE  KlineOfAll(f, Inside(f, DealsIn(f, m, x), t, t + Length(u))) =
                        IF t \in DOMAIN J[u] THEN J[u][t] ELSE NoKline
  BY DEF ExplainedIn
<1> DEFINE D == Inside(f, DealsIn(f, m, o), t, t + Length(u))
           E == Inside(f, DealsIn(f, m, x), t, t + Length(u))
           k == IF t \in DOMAIN K[u] THEN K[u][t] ELSE NoKline
           s == KlineTime(u, d.time)
<1>2. t \in Int /\ KlineOfAll(f, D) = k /\ K[u] \in Dicts
  BY DEF ExplainedIn
<1>3. /\ D \in SUBSET Int /\ IsFiniteSet(D) /\ x \in Int
      /\ \A y \in D : y < x
      /\ \A y \in D \cup {x} : At(f, y) \in Deal
  <2>1. o < FirstOffset + Len(f)
    BY SettingsAssumption
  <2>2. /\ DealsIn(f, m, o) \in SUBSET Int /\ IsFiniteSet(DealsIn(f, m, o))
        /\ \A y \in DealsIn(f, m, o) : y <= o /\ At(f, y) \in Deal
    BY <2>1, DealsInFacts
  <2>3. D \subseteq DealsIn(f, m, o)
    BY DEF Inside
  <2>4. IsFiniteSet(D)
    BY <2>2, <2>3, FS_Subset
  <2>5. ASSUME NEW y \in D PROVE y \in Int /\ y < x /\ At(f, y) \in Deal
    BY <2>2, <2>3
  <2> HIDE DEF D
  <2> QED
    BY <1>1, <2>4, <2>5
<1>4. (t <= d.time /\ d.time < t + Length(u)) <=> t = s
  BY <1>1, <1>2, IntervalOf
<1>5. J[u] = Put(K[u], s, Update(IF s \in DOMAIN K[u] THEN K[u][s] ELSE NewKline(d.price), d.price, d.amount))
  BY DEF Entered
<1>6. CASE t = s
  <2>1. E = D \cup {x}
    BY <1>1, <1>4, <1>6 DEF Inside
  <2>2. /\ D # {} => KlineOfAll(f, D) \in Kline
        /\ KlineOfAll(f, D \cup {x}) =
             Update(IF D = {} THEN NewKline(d.price) ELSE KlineOfAll(f, D), d.price, d.amount)
    <3> HIDE DEF D
    <3> QED
      BY <1>3, KlineGrows
  <2>3. D = {} => KlineOfAll(f, D) = NoKline
    BY DEF KlineOfAll
  <2>4. t \in DOMAIN K[u] <=> D # {}
    <3>1. t \in DOMAIN K[u] => k \in Kline
      BY <1>2, DictFacts
    <3> HIDE DEF D
    <3> QED
      BY <1>2, <2>2, <2>3, <3>1, NoKlineIs
  <2>5. t \in DOMAIN J[u] /\ J[u][t] = Update(IF t \in DOMAIN K[u] THEN K[u][t] ELSE NewKline(d.price), d.price, d.amount)
    <3> HIDE DEF d, s
    <3> QED
      BY <1>5, <1>6 DEF Put
  <2> HIDE DEF D, E, d
  <2> QED
    BY <1>2, <2>1, <2>2, <2>4, <2>5 DEF E
<1>7. CASE t # s
  <2>1. E = D
    BY <1>1, <1>4, <1>7 DEF Inside
  <2>2. (t \in DOMAIN J[u] <=> t \in DOMAIN K[u]) /\ (t \in DOMAIN K[u] => J[u][t] = K[u][t])
    <3> HIDE DEF d, s
    <3> QED
      BY <1>5, <1>7 DEF Put
  <2> HIDE DEF D, E
  <2> QED
    BY <1>2, <2>1, <2>2 DEF E
<1> QED
  BY <1>6, <1>7

\* The oldest time that is kept.
LEMMA OldestGrows ==
    ASSUME NEW u \in Units, NEW n \in Nat, NEW later \in Nat, n <= later
    PROVE  Oldest(u, n) \in Int /\ Oldest(u, later) \in Int /\ Oldest(u, n) <= Oldest(u, later)
<1>1. ASSUME NEW k \in Nat \ {0} PROVE (n \div k) * k \in Int /\ (n \div k) * k <= (later \div k) * k
  <2> DEFINE i == n \div k
             j == later \div k
  <2>1. i \in Int /\ k * i <= n /\ j \in Int /\ later < k * j + k
    BY Division
  <2> HIDE DEF i, j
  <2>2. k * i \in Int /\ k * j \in Int
    BY <2>1
  <2>3. ~(j < i)
    <3> SUFFICES ASSUME j < i PROVE FALSE
      OBVIOUS
    <3>1. k * j + k <= k * i
      BY <2>1, MultiplesApart
    <3> QED
      BY <2>1, <2>2, <3>1
  <2>4. CASE i = j
    BY <2>1, <2>2, <2>4 DEF i, j
  <2>5. CASE i < j
    <3>1. k * i + k <= k * j
      BY <2>1, <2>5, MultiplesApart
    <3>2. i * k = k * i /\ j * k = k * j
      BY <2>1
    <3> QED
      BY <2>2, <3>1, <3>2 DEF i, j
  <2> QED
    BY <2>1, <2>3, <2>4, <2>5
<1>2. /\ Minute \in Nat \ {0} /\ Hour \in Nat \ {0} /\ Day \in Nat \ {0}
      /\ SecMax \in Nat /\ MinMax \in Nat /\ HourMax \in Nat
  BY UnitsAssumption, SettingsAssumption
<1>3. CASE u = "sec"
  BY <1>2, <1>3 DEF Oldest
<1>4. CASE u = "min"
  <2>1. Oldest(u, n) = (n \div Minute) * Minute - MinMax /\ Oldest(u, later) = (later \div Minute) * Minute - MinMax
    BY <1>4 DEF Oldest
  <2>2. /\ (n \div Minute) * Minute \in Int /\ (later \div Minute) * Minute \in Int
        /\ (n \div Minute) * Minute <= (later \div Minute) * Minute
    BY <1>1, <1>2, Division
  <2> QED
    BY <1>2, <2>1, <2>2
<1>5. CASE u = "hour"
  <2>1. Oldest(u, n) = (n \div Hour) * Hour - HourMax /\ Oldest(u, later) = (later \div Hour) * Hour - HourMax
    BY <1>5 DEF Oldest
  <2>2. /\ (n \div Hour) * Hour \in Int /\ (later \div Hour) * Hour \in Int
        /\ (n \div Hour) * Hour <= (later \div Hour) * Hour
    BY <1>1, <1>2, Division
  <2> QED
    BY <1>2, <2>1, <2>2
<1>6. CASE u = "day"
  BY <1>6 DEF Oldest
<1> QED
  BY <1>3, <1>4, <1>5, <1>6 DEF Units

\* Two dictionaries have the same kline at a time, or none.
SameAt(t, a, b) == (t \in DOMAIN a <=> t \in DOMAIN b) /\ (t \in DOMAIN a => a[t] = b[t])

\* Only the klines that are not too old count.
LEMMA ExplainedSame ==
    ASSUME NEW f, NEW K, NEW J, NEW m, NEW o, NEW n \in Nat, ExplainedIn(f, K, m, o, n),
           \A u \in Units, t \in Int : t >= Oldest(u, n) => SameAt(t, K[u], J[u])
    PROVE  ExplainedIn(f, J, m, o, n)
<1> SUFFICES ASSUME NEW u \in Units, NEW t \in Oldest(u, n) .. n, t % Length(u) = 0
             PROVE  KlineOfAll(f, Inside(f, DealsIn(f, m, o), t, t + Length(u))) =
                        IF t \in DOMAIN J[u] THEN J[u][t] ELSE NoKline
  BY DEF ExplainedIn
<1>1. t \in Int /\ t >= Oldest(u, n)
  <2>1. n <= n
    OBVIOUS
  <2> QED
    BY <2>1, OldestGrows
<1>2. SameAt(t, K[u], J[u])
  BY <1>1
<1> QED
  BY <1>2 DEF ExplainedIn, SameAt

\* clear_dict leaves the klines that are not too old.
LEMMA KeptSame ==
    ASSUME NEW K \in [Units -> Dicts], NEW n \in Nat
    PROVE  /\ Kept(K, n) \in [Units -> Dicts]
           /\ \A u \in Units : DOMAIN Kept(K, n)[u] \subseteq DOMAIN K[u]
           /\ \A u \in Units, t \in Int : t >= Oldest(u, n) => SameAt(t, K[u], Kept(K, n)[u])
<1>1. ASSUME NEW u \in Units
      PROVE  /\ Kept(K, n)[u] \in Dicts /\ DOMAIN Kept(K, n)[u] \subseteq DOMAIN K[u]
             /\ \A t \in Int : t >= Oldest(u, n) => SameAt(t, K[u], Kept(K, n)[u])
  <2> DEFINE S == {t \in DOMAIN K[u] : u = "day" \/ t >= Oldest(u, n)}
  <2>1. Kept(K, n)[u] = [t \in S |-> K[u][t]]
    BY DEF Kept
  <2>2. DOMAIN K[u] \in SUBSET Nat /\ \A t \in DOMAIN K[u] : K[u][t] \in Kline
    BY DictFacts
  <2>3. S \subseteq DOMAIN K[u] /\ \A t \in Int : t >= Oldest(u, n) => (t \in S <=> t \in DOMAIN K[u])
    OBVIOUS
  <2> HIDE DEF S
  <2>4. [t \in S |-> K[u][t]] \in [S -> Kline] /\ S \in SUBSET Nat
    BY <2>2, <2>3
  <2>5. Kept(K, n)[u] \in Dicts
    BY <2>1, <2>4 DEF Dicts
  <2> QED
    BY <2>1, <2>3, <2>5 DEF SameAt
<1>2. Kept(K, n) \in [Units -> Dicts]
  BY <1>1 DEF Kept
<1> QED
  BY <1>1, <1>2

\* As time passes there are new intervals without a deal, and older ones are given up.
LEMMA ExplainedLater ==
    ASSUME NEW f \in Seq(Deal), NEW o \in Int, o < FirstOffset + Len(f), NEW n \in Nat, NEW later \in Nat, n <= later,
           \A i \in 1 .. Len(f) : f[i].time <= n,
           NEW m, NEW K, ExplainedIn(f, K, m, o, n), \A u \in Units : \A t \in DOMAIN K[u] : t <= n
    PROVE  ExplainedIn(f, K, m, o, later)
<1> SUFFICES ASSUME NEW u \in Units, NEW t \in Oldest(u, later) .. later, t % Length(u) = 0
             PROVE  KlineOfAll(f, Inside(f, DealsIn(f, m, o), t, t + Length(u))) =
                        IF t \in DOMAIN K[u] THEN K[u][t] ELSE NoKline
  BY DEF ExplainedIn
<1>1. Oldest(u, n) \in Int /\ Oldest(u, later) \in Int /\ Oldest(u, n) <= Oldest(u, later) /\ t \in Int
  BY OldestGrows
<1>2. CASE t <= n
  <2>1. t \in Oldest(u, n) .. n
    BY <1>1, <1>2
  <2> QED
    BY <2>1 DEF ExplainedIn
<1>3. CASE ~(t <= n)
  <2>1. t \notin DOMAIN K[u]
    BY <1>3
  <2>2. ASSUME NEW x \in DealsIn(f, m, o) PROVE ~(t <= At(f, x).time)
    <3>1. x - FirstOffset + 1 \in 1 .. Len(f) /\ At(f, x) \in Deal
      BY DealsInFacts
    <3>2. At(f, x).time <= n /\ At(f, x).time \in Nat
      BY <3>1 DEF At, Deal
    <3> QED
      BY <1>1, <1>3, <3>2
  <2>3. Inside(f, DealsIn(f, m, o), t, t + Length(u)) = {}
    BY <2>2 DEF Inside
  <2> QED
    BY <2>1, <2>3 DEF KlineOfAll
<1> QED
  BY <1>2, <1>3

\* A topic with one more deal, that is not counted, has the same deals.
LEMMA DealsInLonger ==
    ASSUME NEW f \in Seq(Deal), NEW d, NEW o \in Int, o < FirstOffset + Len(f), NEW m
    PROVE  /\ DealsIn(Append(f, d), m, o) = DealsIn(f, m, o)
           /\ \A x \in DealsIn(f, m, o) : At(Append(f, d), x) = At(f, x)
<1>1. FirstOffset \in Int
  BY SettingsAssumption
<1>2. ASSUME NEW x \in FirstOffset .. o PROVE At(Append(f, d), x) = At(f, x)
  <2>1. x - FirstOffset + 1 \in 1 .. Len(f)
    BY <1>1
  <2> QED
    BY <2>1 DEF At
<1> QED
  BY <1>2 DEF DealsIn

\* A kline is made of its deals.
LEMMA KlineSame ==
    ASSUME NEW f, NEW g, NEW D \in SUBSET Int, IsFiniteSet(D), \A x \in D : At(f, x) = At(g, x)
    PROVE  KlineOfAll(f, D) = KlineOfAll(g, D)
<1>1. CASE D = {}
  BY <1>1 DEF KlineOfAll
<1>2. CASE D # {}
  <2>1. Min(D) \in D /\ Max(D) \in D
    BY <1>2, HasMax
  <2>2. {At(f, o).price : o \in D} = {At(g, o).price : o \in D}
    OBVIOUS
  <2>3. [o \in D |-> At(f, o).amount] = [o \in D |-> At(g, o).amount]
    OBVIOUS
  <2>4. [o \in D |-> At(f, o).price * At(f, o).amount] = [o \in D |-> At(g, o).price * At(g, o).amount]
    OBVIOUS
  <2> QED
    BY <1>2, <2>1, <2>2, <2>3, <2>4 DEF KlineOfAll
<1> QED
  BY <1>1, <1>2

\* A deal that is not yet read changes nothing.
LEMMA ExplainedLonger ==
    ASSUME NEW f \in Seq(Deal), NEW d, NEW o \in Int, o < FirstOffset + Len(f), NEW n \in Nat,
           NEW m, NEW K, ExplainedIn(f, K, m, o, n)
    PROVE  ExplainedIn(Append(f, d), K, m, o, n)
<1> DEFINE g == Append(f, d)
<1> SUFFICES ASSUME NEW u \in Units, NEW t \in Oldest(u, n) .. n, t % Length(u) = 0
             PROVE  KlineOfAll(g, Inside(g, DealsIn(g, m, o), t, t + Length(u))) =
                        IF t \in DOMAIN K[u] THEN K[u][t] ELSE NoKline
  BY DEF ExplainedIn
<1>1. DealsIn(g, m, o) = DealsIn(f, m, o) /\ \A x \in DealsIn(f, m, o) : At(g, x) = At(f, x)
  BY DealsInLonger
<1> HIDE DEF g
<1> DEFINE D == Inside(f, DealsIn(f, m, o), t, t + Length(u))
<1>2. Inside(g, DealsIn(g, m, o), t, t + Length(u)) = D
  BY <1>1 DEF Inside
<1>3. D \in SUBSET Int /\ IsFiniteSet(D) /\ \A x \in D : At(f, x) = At(g, x)
  <2>1. D \subseteq DealsIn(f, m, o)
    BY DEF Inside
  <2>2. DealsIn(f, m, o) \in SUBSET Int /\ IsFiniteSet(DealsIn(f, m, o))
    BY DealsInFacts
  <2> HIDE DEF D
  <2> QED
    BY <1>1, <2>1, <2>2, FS_Subset
<1>4. KlineOfAll(f, D) = IF t \in DOMAIN K[u] THEN K[u][t] ELSE NoKline
  BY DEF ExplainedIn
<1> HIDE DEF D
<1> QED
  BY <1>2, <1>3, <1>4, KlineSame

-----------------------------------------------------------------------------
(* The list of the newest deals, and the last price *)

LastIn(f, m, o) ==
    LET D == DealsIn(f, m, o) IN IF D = {} THEN 0 ELSE At(f, Max(D)).price

\* LTRIM and the trimming of deals_json.
LEMMA NewestFacts ==
    ASSUME NEW S, NEW s \in Seq(S), NEW n \in Nat
    PROVE  /\ Newest(n, s) \in Seq(S)
           /\ Len(Newest(n, s)) = IF Len(s) < n THEN Len(s) ELSE n
           /\ \A i \in 1 .. Len(Newest(n, s)) : Newest(n, s)[i] = s[i]
<1> DEFINE k == IF Len(s) < n THEN Len(s) ELSE n
<1>1. Len(s) \in Nat /\ k \in Nat /\ k <= Len(s)
  BY LenProperties
<1>2. \A i \in 1 .. k : s[i] \in S
  BY <1>1, ElementOfSeq
<1> HIDE DEF k
<1>3. /\ SubSeq(s, 1, k) \in Seq(S)
      /\ Len(SubSeq(s, 1, k)) = IF 1 <= k THEN k - 1 + 1 ELSE 0
      /\ \A i \in 1 .. k - 1 + 1 : SubSeq(s, 1, k)[i] = s[1 + i - 1]
  BY <1>1, <1>2, SubSeqProperties
<1>4. Len(SubSeq(s, 1, k)) = k /\ \A i \in 1 .. k : SubSeq(s, 1, k)[i] = s[i]
  BY <1>1, <1>3
<1>5. Newest(n, s) = SubSeq(s, 1, k)
  BY DEF Newest, k
<1> QED
  BY <1>3, <1>4, <1>5 DEF k

\* A list that is not too long is left as it is.
LEMMA NewestAll ==
    ASSUME NEW S, NEW s \in Seq(S), NEW n \in Nat, Len(s) <= n
    PROVE  Newest(n, s) = s
<1>1. Len(s) \in Nat
  BY LenProperties
<1>2. Newest(n, s) \in Seq(S) /\ Len(Newest(n, s)) = Len(s)
  BY <1>1, NewestFacts
<1>3. \A i \in 1 .. Len(s) : Newest(n, s)[i] = s[i]
  BY <1>2, NewestFacts
<1> QED
  BY <1>2, <1>3, SeqEqual

\* One element before a list.
LEMMA PutFirst ==
    ASSUME NEW S, NEW s \in Seq(S), NEW x \in S
    PROVE  /\ <<x>> \o s \in Seq(S) /\ Len(<<x>> \o s) = Len(s) + 1
           /\ (<<x>> \o s)[1] = x
           /\ \A i \in 2 .. Len(s) + 1 : (<<x>> \o s)[i] = s[i - 1]
<1>1. <<x>> \in Seq(S) /\ Len(<<x>>) = 1 /\ <<x>>[1] = x
  OBVIOUS
<1>2. Len(s) \in Nat
  BY LenProperties
<1>3. /\ <<x>> \o s \in Seq(S)
      /\ Len(<<x>> \o s) = Len(<<x>>) + Len(s)
      /\ \A i \in 1 .. Len(<<x>>) + Len(s) :
            (<<x>> \o s)[i] = IF i <= Len(<<x>>) THEN <<x>>[i] ELSE s[i - Len(<<x>>)]
  BY <1>1, ConcatProperties
<1> HIDE DEF Newest
<1>4. 1 \in 1 .. 1 + Len(s) /\ \A i \in 2 .. Len(s) + 1 : i \in 1 .. 1 + Len(s) /\ ~(i <= 1)
  BY <1>2
<1> QED
  BY <1>1, <1>2, <1>3, <1>4

\* A list may be trimmed before an element is put in front of it and it is trimmed again.
LEMMA NewestPut ==
    ASSUME NEW S, NEW s \in Seq(S), NEW x \in S, NEW n \in Nat
    PROVE  Newest(n, <<x>> \o Newest(n, s)) = Newest(n, <<x>> \o s)
<1> DEFINE a == <<x>> \o Newest(n, s)
           b == <<x>> \o s
<1>1. /\ Newest(n, s) \in Seq(S) /\ Len(s) \in Nat
      /\ Len(Newest(n, s)) = IF Len(s) < n THEN Len(s) ELSE n
      /\ \A i \in 1 .. Len(Newest(n, s)) : Newest(n, s)[i] = s[i]
  BY NewestFacts, LenProperties
<1>2. /\ a \in Seq(S) /\ Len(a) = Len(Newest(n, s)) + 1 /\ a[1] = x
      /\ \A i \in 2 .. Len(Newest(n, s)) + 1 : a[i] = Newest(n, s)[i - 1]
  BY <1>1, PutFirst
<1>3. b \in Seq(S) /\ Len(b) = Len(s) + 1 /\ b[1] = x /\ \A i \in 2 .. Len(s) + 1 : b[i] = s[i - 1]
  BY PutFirst
<1> HIDE DEF a, b
<1>4. /\ Newest(n, a) \in Seq(S) /\ Len(Newest(n, a)) = IF Len(a) < n THEN Len(a) ELSE n
      /\ \A i \in 1 .. Len(Newest(n, a)) : Newest(n, a)[i] = a[i]
  BY <1>2, NewestFacts
<1>5. /\ Newest(n, b) \in Seq(S) /\ Len(Newest(n, b)) = IF Len(b) < n THEN Len(b) ELSE n
      /\ \A i \in 1 .. Len(Newest(n, b)) : Newest(n, b)[i] = b[i]
  BY <1>3, NewestFacts
<1>6. Len(Newest(n, a)) = Len(Newest(n, b))
  BY <1>1, <1>2, <1>3, <1>4, <1>5
<1>7. ASSUME NEW i \in 1 .. Len(Newest(n, a)) PROVE Newest(n, a)[i] = Newest(n, b)[i]
  <2>1. Newest(n, a)[i] = a[i] /\ Newest(n, b)[i] = b[i]
    BY <1>4, <1>5, <1>6
  <2>2. CASE i = 1
    BY <1>2, <1>3, <2>1, <2>2
  <2>3. CASE i # 1
    <3>1. Len(a) \in Nat /\ i \in Int /\ i >= 2 /\ i <= Len(a) /\ i <= n
      BY <1>1, <1>2, <1>4, <2>3
    <3>2. i \in 2 .. Len(Newest(n, s)) + 1 /\ i - 1 \in 1 .. Len(Newest(n, s)) /\ i \in 2 .. Len(s) + 1
      BY <1>1, <1>2, <3>1
    <3>3. a[i] = Newest(n, s)[i - 1] /\ Newest(n, s)[i - 1] = s[i - 1] /\ b[i] = s[i - 1]
      BY <1>1, <1>2, <1>3, <3>2
    <3> QED
      BY <2>1, <3>3
  <2> QED
    BY <2>2, <2>3
<1>8. Newest(n, a) = Newest(n, b)
  BY <1>4, <1>5, <1>6, <1>7, SeqEqual
<1> QED
  BY <1>8 DEF a, b

\* The last element is the first of the reversed list.
LEMMA ReverseAppend ==
    ASSUME NEW S, NEW s \in Seq(S), NEW x \in S
    PROVE  Reverse(s) \in Seq(S) /\ Reverse(Append(s, x)) = <<x>> \o Reverse(s)
<1> DEFINE r == Reverse(s)
           q == Reverse(Append(s, x))
           p == <<x>> \o r
<1>1. Len(s) \in Nat /\ \A i \in 1 .. Len(s) : s[i] \in S
  BY LenProperties, ElementOfSeq
<1>2. r \in Seq(S) /\ Len(r) = Len(s) /\ \A i \in 1 .. Len(s) : r[i] = s[(Len(s) - i) + 1]
  BY <1>1 DEF Reverse
<1>3. /\ Append(s, x) \in Seq(S) /\ Len(Append(s, x)) = Len(s) + 1
      /\ Append(s, x)[Len(s) + 1] = x /\ \A i \in 1 .. Len(s) : Append(s, x)[i] = s[i]
  BY <1>1
<1>4. /\ q \in Seq(S) /\ Len(q) = Len(s) + 1
      /\ \A i \in 1 .. Len(s) + 1 : q[i] = Append(s, x)[((Len(s) + 1) - i) + 1]
  <2> DEFINE a == Append(s, x)
  <2>1. a \in Seq(S) /\ Len(a) = Len(s) + 1 /\ \A i \in 1 .. Len(s) + 1 : a[i] \in S
    BY <1>3, ElementOfSeq
  <2>2. q = Reverse(a)
    OBVIOUS
  <2> HIDE DEF a, q
  <2>3. q = [i \in 1 .. Len(s) + 1 |-> a[((Len(s) + 1) - i) + 1]]
    BY <2>1, <2>2 DEF Reverse
  <2>4. \A i \in 1 .. Len(s) + 1 : ((Len(s) + 1) - i) + 1 \in 1 .. Len(s) + 1
    BY <1>1
  <2> QED
    BY <1>1, <2>1, <2>3, <2>4 DEF a
<1> HIDE DEF r, q
<1>5. p \in Seq(S) /\ Len(p) = Len(r) + 1 /\ p[1] = x /\ \A i \in 2 .. Len(r) + 1 : p[i] = r[i - 1]
  BY <1>2, PutFirst
<1> HIDE DEF p
<1>6. ASSUME NEW i \in 1 .. Len(q) PROVE q[i] = p[i]
  <2>1. CASE i = 1
    <3>1. ((Len(s) + 1) - 1) + 1 = Len(s) + 1 /\ 1 \in 1 .. Len(s) + 1
      BY <1>1
    <3> QED
      BY <1>3, <1>4, <1>5, <2>1, <3>1
  <2>2. CASE i # 1
    <3>1. i \in 2 .. Len(s) + 1 /\ i - 1 \in 1 .. Len(s) /\ i \in 1 .. Len(s) + 1
      BY <1>1, <1>4, <2>2
    <3>2. /\ ((Len(s) + 1) - i) + 1 = (Len(s) - (i - 1)) + 1
          /\ (Len(s) - (i - 1)) + 1 \in 1 .. Len(s)
      BY <1>1, <3>1
    <3>3. q[i] = s[(Len(s) - (i - 1)) + 1]
      BY <1>3, <1>4, <3>1, <3>2
    <3>4. p[i] = r[i - 1] /\ r[i - 1] = s[(Len(s) - (i - 1)) + 1]
      BY <1>2, <1>5, <3>1
    <3> QED
      BY <3>3, <3>4
  <2> QED
    BY <2>1, <2>2
<1>7. q = p
  BY <1>2, <1>4, <1>5, <1>6, SeqEqual
<1> QED
  BY <1>2, <1>7 DEF r, q, p

\* deals_json stays the list of the newest deals when the next is put in front of it.
LEMMA IsNewestPut ==
    ASSUME NEW list \in Seq(Nat), NEW D \in SUBSET Int, IsFiniteSet(D), IsNewest(list, D),
           NEW x \in Nat, \A o \in D : o < x
    PROVE  IsNewest(Newest(DealsMax, <<x>> \o list), D \cup {x})
<1> DEFINE E == D \cup {x}
           a == <<x>> \o list
           l == Newest(DealsMax, a)
           newer(S, y) == {o \in S : o > y}
<1>0. DealsMax \in Nat \ {0} /\ Len(list) \in Nat /\ DOMAIN list = 1 .. Len(list)
  BY SettingsAssumption, LenProperties
<1>1. Cardinality(D) \in Nat /\ Cardinality(E) = Cardinality(D) + 1 /\ x \notin D
  <2>1. x \notin D
    OBVIOUS
  <2>2. Cardinality(D) \in Nat
    BY FS_CardinalityType
  <2>3. Cardinality(E) = Cardinality(D) + 1
    BY <2>1, FS_AddElement
  <2> QED
    BY <2>1, <2>2, <2>3
<1>2. /\ a \in Seq(Nat) /\ Len(a) = Len(list) + 1 /\ a[1] = x
      /\ \A i \in 2 .. Len(list) + 1 : a[i] = list[i - 1]
  BY PutFirst
<1> HIDE DEF a
<1>3. /\ l \in Seq(Nat) /\ Len(l) = IF Len(a) < DealsMax THEN Len(a) ELSE DealsMax
      /\ \A i \in 1 .. Len(l) : l[i] = a[i]
  BY <1>0, <1>2, NewestFacts
<1> HIDE DEF l
<1>4. DOMAIN l = 1 .. Len(l)
  BY <1>3, LenProperties
<1>5. Len(l) = Min({DealsMax, Cardinality(E)})
  <2>1. Len(list) = Min({DealsMax, Cardinality(D)})
    BY DEF IsNewest
  <2> HIDE DEF E
  <2>0. DealsMax \in Int /\ Cardinality(D) \in Int /\ Cardinality(E) \in Int
    BY <1>0, <1>1
  <2>2. Min({DealsMax, Cardinality(D)}) = IF DealsMax <= Cardinality(D) THEN DealsMax ELSE Cardinality(D)
    BY <2>0, MaxOfTwo
  <2>3. Min({DealsMax, Cardinality(E)}) = IF DealsMax <= Cardinality(E) THEN DealsMax ELSE Cardinality(E)
    BY <2>0, MaxOfTwo
  <2> QED
    BY <1>0, <1>1, <1>2, <1>3, <2>1, <2>2, <2>3
<1>6. ASSUME NEW i \in DOMAIN l PROVE l[i] \in E /\ Cardinality(newer(E, l[i])) = i - 1
  <2>1. i \in 1 .. Len(l) /\ l[i] = a[i] /\ i \in 1 .. Len(a) /\ Len(a) = Len(list) + 1
    BY <1>0, <1>2, <1>3, <1>4
  <2>2. CASE i = 1
    <3>1. l[i] = x
      BY <1>2, <2>1, <2>2
    <3>2. \A o \in E : ~(o > x)
      OBVIOUS
    <3>3. newer(E, x) = {} /\ x \in E
      BY <3>2
    <3>4. Cardinality({}) = 0 /\ i - 1 = 0
      BY <2>2, FS_EmptySet
    <3> HIDE DEF newer, E
    <3> QED
      BY <3>1, <3>3, <3>4
  <2>3. CASE i # 1
    <3> DEFINE y == list[i - 1]
    <3>1. i \in 2 .. Len(list) + 1 /\ i - 1 \in DOMAIN list
      BY <1>0, <2>1, <2>3
    <3>2. l[i] = y /\ y \in D /\ Cardinality(newer(D, y)) = (i - 1) - 1
      BY <1>2, <2>1, <3>1 DEF IsNewest
    <3> HIDE DEF y
    <3>3. newer(E, y) = newer(D, y) \cup {x}
      BY <3>2
    <3>4. IsFiniteSet(newer(D, y)) /\ x \notin newer(D, y)
      BY <1>1, FS_Subset
    <3>5. Cardinality(newer(D, y) \cup {x}) = Cardinality(newer(D, y)) + 1
      BY <3>4, FS_AddElement
    <3>6. y \in E /\ i \in Int
      BY <2>1, <3>2
    <3>7. Cardinality(newer(E, y)) = i - 1
      <4> HIDE DEF newer, E
      <4> QED
        BY <3>2, <3>3, <3>5, <3>6
    <3> HIDE DEF newer, E
    <3> QED
      BY <3>2, <3>6, <3>7
  <2> QED
    BY <2>2, <2>3
<1> QED
  BY <1>5, <1>6 DEF IsNewest, l, a

\* The price of the next deal is the last price of its market.
LEMMA LastPut ==
    ASSUME NEW f \in Seq(Deal), NEW o \in Int, FirstOffset - 1 <= o, o + 1 < FirstOffset + Len(f), NEW m
    PROVE  LastIn(f, m, o + 1) = IF At(f, o + 1).market = m THEN At(f, o + 1).price ELSE LastIn(f, m, o)
<1> DEFINE D == DealsIn(f, m, o)
<1>1. CASE At(f, o + 1).market = m
  <2>1. DealsIn(f, m, o + 1) = D \cup {o + 1}
    BY <1>1, NextDeal
  <2>2. D \in SUBSET Int /\ \A y \in D : y <= o
    <3>1. o < FirstOffset + Len(f)
      BY SettingsAssumption
    <3> QED
      BY <3>1, DealsInFacts
  <2> DEFINE E == D \cup {o + 1}
  <2>3. E \in SUBSET Int /\ o + 1 \in E /\ \A y \in E : y <= o + 1
    BY <2>2
  <2> HIDE DEF E
  <2>4. Max(E) = o + 1
    BY <2>3, MaxIs
  <2> QED
    BY <1>1, <2>1, <2>3, <2>4 DEF LastIn, E
<1>2. CASE At(f, o + 1).market # m
  BY <1>2, NextDeal DEF LastIn
<1> QED
  BY <1>1, <1>2

\* Deals that are not yet counted are not the last.
LEMMA LastLonger ==
    ASSUME NEW f \in Seq(Deal), NEW d, NEW o \in Int, o < FirstOffset + Len(f), NEW m
    PROVE  LastIn(Append(f, d), m, o) = LastIn(f, m, o)
<1> DEFINE g == Append(f, d)
           D == DealsIn(f, m, o)
<1>1. DealsIn(g, m, o) = D /\ \A x \in D : At(g, x) = At(f, x)
  BY DealsInLonger
<1>2. CASE D # {}
  <2>1. D \in SUBSET Int /\ IsFiniteSet(D)
    BY DealsInFacts
  <2>2. Max(D) \in D
    BY <1>2, <2>1, HasMax
  <2> HIDE DEF g, D
  <2> QED
    BY <1>1, <1>2, <2>2 DEF LastIn, g, D
<1> QED
  BY <1>1, <1>2 DEF LastIn

-----------------------------------------------------------------------------
(* What marketprice keeps in memory and in redis *)

Books == [Markets -> [Units -> Dicts]]
Steps == ({"update", "last", "deals"} \X Markets) \cup {<<"offset">>}

PriceTypeOK ==
    /\ span \in Spans /\ now \in Nat /\ feed \in Seq(Deal) /\ up \in BOOLEAN /\ position \in Nat
    /\ klines \in Books /\ update \in [Markets -> SUBSET (Units \X Nat)] /\ last \in [Markets -> Nat]
    /\ deals \in [Markets -> Seq(Nat)] /\ deals_json \in [Markets -> Seq(Nat)]
    /\ dirty \in [Markets -> BOOLEAN] /\ last_offset \in Nat /\ flushing \in Seq(Steps)
    /\ redis \in [klines : Books, last : [Markets -> Nat], deals : [Markets -> Seq(Nat)], offset : Nat]

\* Nothing is from the future, and no offset is beyond the topic.
InThePast ==
    /\ \A i \in 1 .. Len(feed) : feed[i].time <= now
    /\ redis.offset <= Len(feed) /\ last_offset <= Len(feed)
    /\ \A m \in Markets, u \in Units :
          /\ \A t \in DOMAIN klines[m][u] : t <= now
          /\ \A t \in DOMAIN redis.klines[m][u] : t <= now
    /\ up => position = last_offset + 1

\* The offset is written last; nothing is flushed while the process is down.
FlushOK ==
    /\ ~up => flushing = <<>>
    /\ flushing # <<>> => /\ flushing[Len(flushing)] = <<"offset">>
                          /\ \A i \in 1 .. Len(flushing) : i # Len(flushing) => flushing[i] # <<"offset">>

\* A market has the step of a flush before it.
Pending(step, m) ==
    IF flushing = <<>> THEN dirty[m] ELSE \E i \in 1 .. Len(flushing) : flushing[i] = <<step, m>>

\* What redis lacks of a market's klines is in its update list, and the klines of that list are
\* still there; what it lacks of the deals is in deals.  Without a step of the flush before it
\* the market lacks nothing.
KlinesBehind(m) ==
    \A u \in Units, t \in Int : t >= Oldest(u, now) =>
        IF <<u, t>> \in update[m] THEN t \in DOMAIN klines[m][u]
        ELSE SameAt(t, klines[m][u], redis.klines[m][u])
DealsBehind(m) == Pushed(m) = deals_json[m] /\ Len(redis.deals[m]) <= DealsMax
NothingBehind(m) ==
    /\ ~Pending("update", m) => update[m] = {}
    /\ ~Pending("last", m) => redis.last[m] = last[m]
    /\ ~Pending("deals", m) => deals[m] = <<>>
Behind == \A m \in Markets : KlinesBehind(m) /\ DealsBehind(m) /\ NothingBehind(m)

\* The klines, the last price and the list of a market are those of the deals up to an offset.
RightIn(f, K, price, list, m, o, n) ==
    /\ ExplainedIn(f, K, m, o, n) /\ price = LastIn(f, m, o) /\ IsNewest(list, DealsIn(f, m, o))
MemoryRight == \A m \in Markets : RightIn(feed, klines[m], last[m], deals_json[m], m, Consumed, now)
RedisRight == \A m \in Markets : RightIn(feed, redis.klines[m], redis.last[m], redis.deals[m], m, redis.offset, now)

PriceInv ==
    /\ PriceTypeOK /\ InThePast /\ FlushOK
    /\ up => MemoryRight /\ Behind
    /\ flushing = <<>> => RedisRight

\* DealsExplained says that memory and redis are right.
LEMMA PriceInvImplies ==
    ASSUME PriceInv
    PROVE  DealsExplained
<1>1. ASSUME NEW D, NEW s, NEW e PROVE KlineOf(D, s, e) = KlineOfAll(feed, Inside(feed, D, s, e))
  BY DEF KlineOf, KlineOfAll, Inside, DealAt, At
<1>2. ASSUME NEW m, NEW o PROVE DealsOf(m, o) = DealsIn(feed, m, o)
  BY DEF DealsOf, DealsIn, DealAt, At
<1>3. ASSUME NEW K, NEW m, NEW o, ExplainedIn(feed, K, m, o, now) PROVE Explained(K, m, o)
  BY <1>1, <1>2, <1>3 DEF Explained, ExplainedIn
<1>4. ASSUME NEW m, NEW o PROVE LastPrice(m, o) = LastIn(feed, m, o)
  BY <1>2 DEF LastPrice, LastIn, DealAt, At
<1> QED
  BY <1>2, <1>3, <1>4 DEF PriceInv, MemoryRight, RedisRight, RightIn, DealsExplained

\* The steps of a flush are those of every market in the order, and then the offset.
LEMMA FlushStepsAre ==
    ASSUME NEW S \in SUBSET Markets, NEW order \in SetToSeqs(S)
    PROVE  LET F == FlushSteps(order)
           IN  /\ F \in Seq(Steps) /\ Len(F) \in Nat \ {0} /\ F[Len(F)] = <<"offset">>
               /\ \A i \in 1 .. Len(F) : i # Len(F) => F[i] # <<"offset">>
               /\ \A step \in {"update", "last", "deals"}, m \in S : \E i \in 1 .. Len(F) : F[i] = <<step, m>>
<1> DEFINE n == Cardinality(S)
           step(i) == <<"update", "last", "deals">>[1 + ((i - 1) % 3)]
           market(i) == order[1 + ((i - 1) \div 3)]
           G == [i \in 1 .. 3 * n |-> <<step(i), market(i)>>]
           F == G \o <<<<"offset">>>>
<1>1. IsFiniteSet(S) /\ n \in Nat
  BY DealsAssumption, FS_Subset, FS_CardinalityType
<1>2. order \in [1 .. n -> S] /\ \A i, j \in 1 .. n : i # j => order[i] # order[j]
  BY DEF SetToSeqs
<1>3. \A m \in S : \E k \in 1 .. n : order[k] = m
  <2>1. IsFiniteSet(1 .. n) /\ Cardinality(1 .. n) = n
    BY <1>1, FS_Interval
  <2>2. order \in Injection(1 .. n, S)
    BY <1>2 DEF Injection, IsInjective
  <2>3. order \in Surjection(1 .. n, S)
    BY <1>1, <2>1, <2>2, FS_Injection
  <2> QED
    BY <2>3 DEF Surjection
<1> HIDE DEF n
<1>4. Len(order) = n
  BY <1>1, <1>2
<1>5. ASSUME NEW i \in 1 .. 3 * n
      PROVE  step(i) \in {"update", "last", "deals"} /\ market(i) \in S
  <2>1. (i - 1) % 3 \in 0 .. 2 /\ (i - 1) \div 3 \in 0 .. n - 1
    BY <1>1
  <2>2. 1 + ((i - 1) % 3) \in 1 .. 3 /\ 1 + ((i - 1) \div 3) \in 1 .. n
    BY <1>1, <2>1
  <2> QED
    BY <1>2, <2>2
<1>6. ASSUME NEW s \in {"update", "last", "deals"}, NEW m \in S
      PROVE  \E i \in 1 .. 3 * n : step(i) = s /\ market(i) = m
  <2>1. PICK k \in 1 .. n : order[k] = m
    BY <1>3
  <2>2. PICK j \in 1 .. 3 : <<"update", "last", "deals">>[j] = s
    <3>1. /\ <<"update", "last", "deals">>[1] = "update" /\ <<"update", "last", "deals">>[2] = "last"
          /\ <<"update", "last", "deals">>[3] = "deals" /\ {1, 2, 3} \subseteq 1 .. 3
      OBVIOUS
    <3> QED
      BY <3>1
  <2> DEFINE i == 3 * (k - 1) + j
  <2>3. i \in 1 .. 3 * n /\ (i - 1) % 3 = j - 1 /\ (i - 1) \div 3 = k - 1
    BY <1>1
  <2>4. 1 + ((i - 1) % 3) = j /\ 1 + ((i - 1) \div 3) = k
    BY <2>3
  <2> HIDE DEF i
  <2> QED
    BY <2>1, <2>2, <2>3, <2>4
<1>7. FlushSteps(order) = F
  BY <1>4 DEF FlushSteps
<1> HIDE DEF step, market
<1>8. /\ G \in Seq(Steps) /\ Len(G) = 3 * n /\ 3 * n \in Nat
      /\ \A i \in 1 .. 3 * n : G[i] = <<step(i), market(i)>> /\ G[i] \in Steps
  <2>1. \A i \in 1 .. 3 * n : <<step(i), market(i)>> \in Steps
    BY <1>5 DEF Steps
  <2> QED
    BY <1>1, <2>1
<1> HIDE DEF G
<1>9. /\ F \in Seq(Steps) /\ Len(F) = 3 * n + 1 /\ F[3 * n + 1] = <<"offset">>
      /\ \A i \in 1 .. 3 * n : F[i] = G[i]
  <2> DEFINE L == <<<<"offset">>>>
  <2>1. L \in Seq(Steps) /\ Len(L) = 1 /\ L[1] = <<"offset">>
    BY DEF Steps
  <2>2. F = G \o L
    OBVIOUS
  <2> HIDE DEF L, F
  <2>3. /\ F \in Seq(Steps) /\ Len(F) = Len(G) + Len(L)
        /\ \A i \in 1 .. Len(G) + Len(L) : F[i] = IF i <= Len(G) THEN G[i] ELSE L[i - Len(G)]
    BY <1>8, <2>1, <2>2, ConcatProperties
  <2>4. /\ 3 * n + 1 \in 1 .. 3 * n + 1 /\ ~(3 * n + 1 <= 3 * n) /\ (3 * n + 1) - 3 * n = 1
        /\ \A i \in 1 .. 3 * n : i <= 3 * n /\ i \in 1 .. 3 * n + 1
    BY <1>8
  <2> QED
    BY <1>8, <2>1, <2>3, <2>4
<1> HIDE DEF F
<1>10. ASSUME NEW i \in 1 .. Len(F), i # Len(F) PROVE F[i] # <<"offset">>
  <2>1. i \in 1 .. 3 * n
    BY <1>8, <1>9, <1>10
  <2>2. F[i] = <<step(i), market(i)>>
    BY <1>8, <1>9, <2>1
  <2> QED
    BY <2>2
<1>11. ASSUME NEW s \in {"update", "last", "deals"}, NEW m \in S PROVE \E i \in 1 .. Len(F) : F[i] = <<s, m>>
  <2>1. PICK i \in 1 .. 3 * n : step(i) = s /\ market(i) = m
    BY <1>6
  <2>2. i \in 1 .. Len(F) /\ F[i] = <<s, m>>
    BY <1>8, <1>9, <2>1
  <2> QED
    BY <2>2
<1>12. Len(F) \in Nat \ {0} /\ F[Len(F)] = <<"offset">>
  BY <1>8, <1>9
<1> QED
  BY <1>7, <1>9, <1>10, <1>11, <1>12

\* A kline begins not after the deals in it.
LEMMA KlineTimeFacts ==
    ASSUME NEW u \in Units, NEW x \in Nat
    PROVE  KlineTime(u, x) \in Nat /\ KlineTime(u, x) <= x
BY LengthNat DEF KlineTime

\* market_update leaves a dictionary of klines.
LEMMA EnteredFacts ==
    ASSUME NEW dict \in Dicts, NEW t \in Nat, NEW d \in Deal
    PROVE  /\ Entered(dict, t, d) \in Dicts /\ DOMAIN Entered(dict, t, d) = DOMAIN dict \cup {t}
           /\ \A s \in DOMAIN dict : s # t => Entered(dict, t, d)[s] = dict[s]
<1> DEFINE k == IF t \in DOMAIN dict THEN dict[t] ELSE NewKline(d.price)
           j == Update(k, d.price, d.amount)
<1>1. d.price \in Nat \ {0} /\ d.amount \in Nat
  BY DEF Deal
<1>2. k \in Kline
  BY <1>1, DictFacts DEF Kline, NewKline
<1>3. j \in Kline
  <2>1. /\ k = [open |-> k.open, close |-> k.close, high |-> k.high, low |-> k.low, volume |-> k.volume, deal |-> k.deal]
        /\ k.open \in Nat \ {0} /\ k.high \in Nat /\ k.low \in Nat /\ k.volume \in Nat /\ k.deal \in Nat
    BY <1>2 DEF Kline
  <2> HIDE DEF k
  <2>2. j = [open |-> k.open, close |-> d.price, high |-> Max({k.high, d.price}), low |-> Min({k.low, d.price}),
             volume |-> k.volume + d.amount, deal |-> k.deal + d.price * d.amount]
    BY <2>1, UpdateIs
  <2>3. Max({k.high, d.price}) \in Nat /\ Min({k.low, d.price}) \in Nat
    <3>1. k.high \in Int /\ k.low \in Int /\ d.price \in Int
      BY <1>1, <2>1
    <3>2. /\ Max({k.high, d.price}) = IF k.high >= d.price THEN k.high ELSE d.price
          /\ Min({k.low, d.price}) = IF k.low <= d.price THEN k.low ELSE d.price
      BY <3>1, MaxOfTwo
    <3> QED
      BY <1>1, <2>1, <3>2
  <2>4. k.volume + d.amount \in Nat /\ k.deal + d.price * d.amount \in Nat
    BY <1>1, <2>1
  <2> HIDE DEF j
  <2> QED
    BY <1>1, <2>1, <2>2, <2>3, <2>4 DEF Kline
<1>4. Entered(dict, t, d) = [s \in DOMAIN dict \cup {t} |-> IF s = t THEN j ELSE dict[s]]
  BY DEF Entered, Put
<1> HIDE DEF j
<1>5. DOMAIN dict \in SUBSET Nat /\ \A s \in DOMAIN dict : dict[s] \in Kline
  BY DictFacts
<1>6. Entered(dict, t, d) \in [DOMAIN dict \cup {t} -> Kline] /\ DOMAIN dict \cup {t} \in SUBSET Nat
  BY <1>3, <1>4, <1>5
<1> QED
  BY <1>4, <1>6 DEF Dicts

-----------------------------------------------------------------------------
(* Memory and redis stay right *)

\* The deals that are counted are in the topic.
LEMMA CountedFacts ==
    ASSUME PriceInv, FirstOffset = 1
    PROVE  /\ redis.offset \in Int /\ redis.offset < FirstOffset + Len(feed) /\ FirstOffset - 1 <= redis.offset
           /\ up => /\ Consumed = last_offset /\ Consumed \in Int
                    /\ Consumed < FirstOffset + Len(feed) /\ FirstOffset - 1 <= Consumed
<1>1. redis.offset \in Nat /\ last_offset \in Nat /\ Len(feed) \in Nat
  BY DEF PriceInv, PriceTypeOK
<1>2. redis.offset <= Len(feed) /\ last_offset <= Len(feed) /\ (up => position = last_offset + 1)
  BY DEF PriceInv, InThePast
<1> QED
  BY <1>1, <1>2 DEF Consumed

\* What redis holds, one by one.
LEMMA RedisFacts ==
    ASSUME PriceTypeOK
    PROVE  /\ redis.klines \in Books /\ redis.last \in [Markets -> Nat]
           /\ redis.deals \in [Markets -> Seq(Nat)] /\ redis.offset \in Nat
BY DEF PriceTypeOK

\* Nothing is delivered yet.
LEMMA PriceInitInv ==
    ASSUME PriceInit, FirstOffset = 1
    PROVE  PriceInv
<1>1. /\ span \in Spans /\ now = 0 /\ feed = <<>> /\ up = FALSE /\ position = 0 /\ klines = NoKlines
      /\ update = [m \in Markets |-> {}] /\ last = [m \in Markets |-> 0] /\ deals = [m \in Markets |-> <<>>]
      /\ deals_json = deals /\ dirty = [m \in Markets |-> FALSE] /\ last_offset = 0 /\ flushing = <<>>
      /\ redis = Nothing
  BY DEF PriceInit, Nothing
<1>2. /\ redis.klines = NoKlines /\ redis.last = [m \in Markets |-> 0]
      /\ redis.deals = [m \in Markets |-> <<>>] /\ redis.offset = 0
  BY <1>1 DEF Nothing
<1>3. NoKlines \in Books /\ \A m \in Markets, u \in Units : DOMAIN NoKlines[m][u] = {}
  <2>1. [t \in {} |-> NewKline(0)] \in [{} -> Kline] /\ DOMAIN [t \in {} |-> NewKline(0)] = {}
    OBVIOUS
  <2>2. [t \in {} |-> NewKline(0)] \in Dicts
    BY <2>1 DEF Dicts
  <2> QED
    BY <2>1, <2>2 DEF NoKlines, Books
<1>4. PriceTypeOK
  <2>1. redis \in [klines : Books, last : [Markets -> Nat], deals : [Markets -> Seq(Nat)], offset : Nat]
    BY <1>1, <1>3 DEF Nothing
  <2>2. feed \in Seq(Deal) /\ flushing \in Seq(Steps)
    BY <1>1
  <2>3. update \in [Markets -> SUBSET (Units \X Nat)] /\ deals \in [Markets -> Seq(Nat)]
    BY <1>1
  <2> QED
    BY <1>1, <1>3, <2>1, <2>2, <2>3 DEF PriceTypeOK
<1>5. InThePast
  <2>1. Len(feed) = 0
    BY <1>1
  <2> QED
    BY <1>1, <1>2, <1>3, <2>1 DEF InThePast
<1>6. ASSUME NEW m \in Markets
      PROVE  RightIn(feed, redis.klines[m], redis.last[m], redis.deals[m], m, redis.offset, now)
  <2>1. DealsIn(feed, m, 0) = {}
    BY DEF DealsIn
  <2>2. ExplainedIn(feed, redis.klines[m], m, 0, now)
    <3>1. \A s, e : Inside(feed, {}, s, e) = {}
      BY DEF Inside
    <3> QED
      BY <1>2, <1>3, <2>1, <3>1 DEF ExplainedIn, KlineOfAll
  <2>3. LastIn(feed, m, 0) = 0
    BY <2>1 DEF LastIn
  <2>4. IsNewest(redis.deals[m], {})
    <3>1. Cardinality({}) = 0 /\ DealsMax \in Nat
      BY FS_EmptySet, SettingsAssumption
    <3>2. Min({DealsMax, Cardinality({})}) = 0
      BY <3>1, MaxOfTwo
    <3>3. redis.deals[m] = <<>>
      BY <1>2
    <3>4. Len(redis.deals[m]) = 0 /\ DOMAIN redis.deals[m] = {}
      BY <3>3
    <3> QED
      BY <3>2, <3>4 DEF IsNewest
  <2> QED
    BY <1>2, <2>1, <2>2, <2>3, <2>4 DEF RightIn
<1> QED
  BY <1>1, <1>4, <1>5, <1>6 DEF PriceInv, RedisRight, FlushOK

\* As time passes what is right stays right.
LEMMA TickRight ==
    ASSUME PriceInv, FirstOffset = 1, Tick
    PROVE  PriceInv'
<1>0. span \in Spans /\ now \in Nat
  BY DEF PriceInv, PriceTypeOK
<1> PICK later \in Nat : now < later /\ now' = later
  <2>1. span.times \subseteq Nat
    BY <1>0, DealsAssumption
  <2> QED
    BY <2>1 DEF Tick
<1>1. /\ now' = later /\ feed' = feed /\ up' = up /\ position' = position /\ flushing' = flushing
      /\ redis' = redis /\ span' = span
      /\ klines' = klines /\ update' = update /\ last' = last /\ deals' = deals
      /\ deals_json' = deals_json /\ dirty' = dirty /\ last_offset' = last_offset
  BY DEF Tick, memory
<1>2. now \in Nat /\ feed \in Seq(Deal) /\ klines \in Books /\ redis.klines \in Books
  BY RedisFacts DEF PriceInv, PriceTypeOK
<1>3. PriceTypeOK'
  BY <1>1 DEF PriceInv, PriceTypeOK
<1>4. InThePast'
  <2>1. ASSUME NEW i \in 1 .. Len(feed) PROVE feed[i].time <= later
    <3>1. feed[i] \in Deal
      BY <1>2, ElementOfSeq
    <3>2. feed[i].time \in Nat /\ feed[i].time <= now
      BY <3>1 DEF Deal, PriceInv, InThePast
    <3> QED
      BY <1>2, <3>2
  <2>2. ASSUME NEW K \in Books, NEW m \in Markets, NEW u \in Units, NEW t \in DOMAIN K[m][u], t <= now
        PROVE  t <= later
    <3>1. K[m][u] \in Dicts
      BY DEF Books
    <3>2. t \in Nat
      BY <3>1, DictFacts
    <3> QED
      BY <1>2, <2>2, <3>2
  <2> QED
    BY <1>1, <1>2, <2>1, <2>2 DEF PriceInv, InThePast
<1>5. FlushOK'
  BY <1>1 DEF PriceInv, FlushOK
<1>6. ASSUME NEW K \in Books, NEW price, NEW list, NEW o \in Int, o < FirstOffset + Len(feed), NEW m \in Markets,
             \A u \in Units : \A t \in DOMAIN K[m][u] : t <= now, RightIn(feed, K[m], price, list, m, o, now)
      PROVE  RightIn(feed, K[m], price, list, m, o, later)
  <2>1. ExplainedIn(feed, K[m], m, o, now) /\ \A i \in 1 .. Len(feed) : feed[i].time <= now
    BY <1>6 DEF RightIn, PriceInv, InThePast
  <2>2. ExplainedIn(feed, K[m], m, o, later)
    BY <1>2, <1>6, <2>1, ExplainedLater
  <2> QED
    BY <1>6, <2>2 DEF RightIn
<1>7. ASSUME up PROVE MemoryRight' /\ Behind'
  <2>1. MemoryRight'
    <3>1. \A m \in Markets : \A u \in Units : \A t \in DOMAIN klines[m][u] : t <= now
      BY DEF PriceInv, InThePast
    <3>2. \A m \in Markets : RightIn(feed, klines[m], last[m], deals_json[m], m, Consumed, now)
      BY <1>7 DEF PriceInv, MemoryRight
    <3>3. \A m \in Markets : RightIn(feed, klines[m], last[m], deals_json[m], m, Consumed, later)
      BY <1>2, <1>6, <1>7, <3>1, <3>2, CountedFacts
    <3> QED
      BY <1>1, <3>3 DEF MemoryRight, Consumed
  <2>2. Behind'
    <3>1. ASSUME NEW m \in Markets PROVE KlinesBehind(m)'
      <4>1. KlinesBehind(m)
        BY <1>7 DEF PriceInv, Behind
      <4>2. ASSUME NEW u \in Units, NEW t \in Int, t >= Oldest(u, later) PROVE t >= Oldest(u, now)
        <5>1. Oldest(u, now) \in Int /\ Oldest(u, later) \in Int /\ Oldest(u, now) <= Oldest(u, later)
          BY <1>2, OldestGrows
        <5> QED
          BY <4>2, <5>1
      <4> QED
        BY <1>1, <4>1, <4>2 DEF KlinesBehind
    <3>2. ASSUME NEW m \in Markets PROVE DealsBehind(m)' /\ NothingBehind(m)'
      BY <1>1, <1>7 DEF PriceInv, Behind, DealsBehind, NothingBehind, Pushed, Pending
    <3> QED
      BY <3>1, <3>2 DEF Behind
  <2> QED
    BY <2>1, <2>2
<1>8. ASSUME flushing = <<>> PROVE RedisRight'
  <2>1. \A m \in Markets : \A u \in Units : \A t \in DOMAIN redis.klines[m][u] : t <= now
    BY DEF PriceInv, InThePast
  <2>2. \A m \in Markets : RightIn(feed, redis.klines[m], redis.last[m], redis.deals[m], m, redis.offset, now)
    BY <1>8 DEF PriceInv, RedisRight
  <2>3. \A m \in Markets : RightIn(feed, redis.klines[m], redis.last[m], redis.deals[m], m, redis.offset, later)
    BY <1>2, <1>6, <2>1, <2>2, CountedFacts
  <2> QED
    BY <1>1, <2>3 DEF RedisRight
<1>9. up' = up /\ flushing' = flushing
  BY <1>1
<1> QED
  BY <1>3, <1>4, <1>5, <1>7, <1>8, <1>9 DEF PriceInv

\* A deal that is sent is not yet counted.
LEMMA ProduceRight ==
    ASSUME PriceInv, FirstOffset = 1, NEW w \in Markets, Produce(w)
    PROVE  PriceInv'
<1>1. /\ now' = now /\ up' = up /\ position' = position /\ flushing' = flushing /\ redis' = redis /\ span' = span
      /\ klines' = klines /\ update' = update /\ last' = last /\ deals' = deals
      /\ deals_json' = deals_json /\ dirty' = dirty /\ last_offset' = last_offset
  BY DEF Produce, memory
<1>2. PICK p \in Prices, a \in Amounts :
        feed' = Append(feed, [market |-> w, time |-> now, price |-> p, amount |-> a])
  BY DEF Produce
<1> DEFINE d == [market |-> w, time |-> now, price |-> p, amount |-> a]
<1>3. now \in Nat /\ feed \in Seq(Deal) /\ redis.offset \in Nat /\ last_offset \in Nat
  BY RedisFacts DEF PriceInv, PriceTypeOK
<1>4. d \in Deal /\ d.time = now
  BY <1>3, DealsAssumption DEF Deal
<1> HIDE DEF d
<1>5. /\ feed' = Append(feed, d) /\ feed' \in Seq(Deal) /\ Len(feed') = Len(feed) + 1 /\ Len(feed) \in Nat
      /\ feed'[Len(feed) + 1] = d /\ \A i \in 1 .. Len(feed) : feed'[i] = feed[i]
  BY <1>2, <1>3, <1>4 DEF d
<1>6. PriceTypeOK'
  BY <1>1, <1>5 DEF PriceInv, PriceTypeOK
<1>7. InThePast'
  <2>1. ASSUME NEW i \in 1 .. Len(feed') PROVE feed'[i].time <= now
    <3>1. i \in 1 .. Len(feed) \/ i = Len(feed) + 1
      BY <1>5
    <3> QED
      BY <1>3, <1>4, <1>5, <3>1 DEF PriceInv, InThePast
  <2>2. redis.offset <= Len(feed') /\ last_offset <= Len(feed')
    BY <1>3, <1>5 DEF PriceInv, InThePast
  <2> QED
    BY <1>1, <2>1, <2>2 DEF PriceInv, InThePast
<1>8. FlushOK'
  BY <1>1 DEF PriceInv, FlushOK
<1>9. ASSUME NEW K, NEW price, NEW list, NEW m \in Markets, NEW o \in Int, o < FirstOffset + Len(feed),
             RightIn(feed, K, price, list, m, o, now)
      PROVE  RightIn(feed', K, price, list, m, o, now)
  <2>1. ExplainedIn(feed', K, m, o, now)
    BY <1>3, <1>5, <1>9, ExplainedLonger DEF RightIn
  <2>2. LastIn(feed', m, o) = LastIn(feed, m, o) /\ DealsIn(feed', m, o) = DealsIn(feed, m, o)
    BY <1>3, <1>5, <1>9, LastLonger, DealsInLonger
  <2> QED
    BY <1>9, <2>1, <2>2 DEF RightIn
<1>10. ASSUME up PROVE MemoryRight' /\ Behind'
  <2>1. MemoryRight'
    BY <1>1, <1>9, <1>10, CountedFacts DEF PriceInv, MemoryRight, Consumed
  <2>2. Behind'
    BY <1>1, <1>10 DEF PriceInv, Behind, KlinesBehind, DealsBehind, NothingBehind, Pushed, Pending
  <2> QED
    BY <2>1, <2>2
<1>11. ASSUME flushing = <<>> PROVE RedisRight'
  <2>1. RedisRight'
    BY <1>1, <1>9, <1>11, CountedFacts DEF PriceInv, RedisRight
  <2> QED
    BY <2>1
<1>12. up' = up /\ flushing' = flushing
  BY <1>1
<1> QED
  BY <1>6, <1>7, <1>8, <1>10, <1>11, <1>12 DEF PriceInv

\* The klines that are cleared are too old to count.
LEMMA ClearTimerRight ==
    ASSUME PriceInv, FirstOffset = 1, OnClearTimer
    PROVE  PriceInv'
<1>1. /\ now' = now /\ feed' = feed /\ up' = up /\ position' = position /\ flushing' = flushing /\ redis' = redis
      /\ span' = span /\ update' = update /\ last' = last /\ deals' = deals
      /\ deals_json' = deals_json /\ dirty' = dirty /\ last_offset' = last_offset
      /\ klines' = [m \in Markets |-> Kept(klines[m], now)]
  BY DEF OnClearTimer
<1>2. now \in Nat /\ klines \in Books
  BY DEF PriceInv, PriceTypeOK
<1>3. ASSUME NEW m \in Markets
      PROVE  /\ klines'[m] \in [Units -> Dicts]
             /\ \A u \in Units : DOMAIN klines'[m][u] \subseteq DOMAIN klines[m][u]
             /\ \A u \in Units, t \in Int : t >= Oldest(u, now) => SameAt(t, klines[m][u], klines'[m][u])
  <2>1. klines[m] \in [Units -> Dicts] /\ klines'[m] = Kept(klines[m], now)
    BY <1>1, <1>2 DEF Books
  <2> QED
    BY <1>2, <2>1, KeptSame
<1>4. klines' \in Books
  BY <1>1, <1>3 DEF Books
<1>5. PriceTypeOK'
  BY <1>1, <1>4 DEF PriceInv, PriceTypeOK
<1>6. InThePast'
  BY <1>1, <1>3 DEF PriceInv, InThePast
<1>7. FlushOK'
  BY <1>1 DEF PriceInv, FlushOK
<1>8. ASSUME up PROVE MemoryRight' /\ Behind'
  <2>1. ASSUME NEW m \in Markets
        PROVE  RightIn(feed, klines'[m], last[m], deals_json[m], m, Consumed, now)
    <3>1. RightIn(feed, klines[m], last[m], deals_json[m], m, Consumed, now)
      BY <1>8 DEF PriceInv, MemoryRight
    <3>2. ExplainedIn(feed, klines'[m], m, Consumed, now)
      BY <1>2, <1>3, <3>1, ExplainedSame DEF RightIn
    <3> QED
      BY <3>1, <3>2 DEF RightIn
  <2>2. ASSUME NEW m \in Markets PROVE KlinesBehind(m)'
    <3>1. KlinesBehind(m)
      BY <1>8 DEF PriceInv, Behind
    <3> QED
      BY <1>1, <1>3, <3>1 DEF KlinesBehind, SameAt
  <2>3. ASSUME NEW m \in Markets PROVE DealsBehind(m)' /\ NothingBehind(m)'
    BY <1>1, <1>8 DEF PriceInv, Behind, DealsBehind, NothingBehind, Pushed, Pending
  <2> QED
    BY <1>1, <2>1, <2>2, <2>3 DEF MemoryRight, Behind, Consumed
<1>9. RedisRight' = RedisRight /\ up' = up /\ flushing' = flushing
  BY <1>1 DEF RedisRight
<1> QED
  BY <1>5, <1>6, <1>7, <1>8, <1>9 DEF PriceInv

\* The same of the klines of redis, at any time.
LEMMA ClearRedisRight ==
    ASSUME PriceInv, FirstOffset = 1, ClearRedis
    PROVE  PriceInv'
<1>1. /\ now' = now /\ feed' = feed /\ up' = up /\ position' = position /\ flushing' = flushing /\ span' = span
      /\ klines' = klines /\ update' = update /\ last' = last /\ deals' = deals
      /\ deals_json' = deals_json /\ dirty' = dirty /\ last_offset' = last_offset
  BY DEF ClearRedis, memory
<1>2. now \in Nat /\ PriceTypeOK /\ redis.klines \in Books
  BY RedisFacts DEF PriceInv, PriceTypeOK
<1>3. /\ redis'.klines = [m \in Markets |-> Kept(redis.klines[m], now)]
      /\ redis'.last = redis.last /\ redis'.deals = redis.deals /\ redis'.offset = redis.offset
      /\ redis' = [klines |-> redis'.klines, last |-> redis'.last, deals |-> redis'.deals, offset |-> redis'.offset]
  <2>1. redis = [klines |-> redis.klines, last |-> redis.last, deals |-> redis.deals, offset |-> redis.offset]
    BY <1>2 DEF PriceTypeOK
  <2>2. redis' = [redis EXCEPT !.klines = [m \in Markets |-> Kept(redis.klines[m], now)]]
    BY DEF ClearRedis
  <2> QED
    BY <2>1, <2>2
<1>4. ASSUME NEW m \in Markets
      PROVE  /\ redis'.klines[m] \in [Units -> Dicts]
             /\ \A u \in Units : DOMAIN redis'.klines[m][u] \subseteq DOMAIN redis.klines[m][u]
             /\ \A u \in Units, t \in Int : t >= Oldest(u, now) => SameAt(t, redis.klines[m][u], redis'.klines[m][u])
  <2>1. redis.klines[m] \in [Units -> Dicts] /\ redis'.klines[m] = Kept(redis.klines[m], now)
    BY <1>2, <1>3 DEF Books
  <2> QED
    BY <1>2, <2>1, KeptSame
<1>5. PriceTypeOK'
  <2>1. redis'.klines \in Books
    BY <1>3, <1>4 DEF Books
  <2>2. redis' \in [klines : Books, last : [Markets -> Nat], deals : [Markets -> Seq(Nat)], offset : Nat]
    BY <1>2, <1>3, <2>1, RedisFacts
  <2> QED
    BY <1>1, <1>2, <2>2 DEF PriceTypeOK
<1>6. InThePast'
  BY <1>1, <1>3, <1>4 DEF PriceInv, InThePast
<1>7. FlushOK'
  BY <1>1 DEF PriceInv, FlushOK
<1>8. ASSUME up PROVE MemoryRight' /\ Behind'
  <2>1. MemoryRight'
    BY <1>1, <1>8 DEF PriceInv, MemoryRight, Consumed
  <2>2. ASSUME NEW m \in Markets PROVE KlinesBehind(m)'
    <3>1. KlinesBehind(m)
      BY <1>8 DEF PriceInv, Behind
    <3> QED
      BY <1>1, <1>4, <3>1 DEF KlinesBehind, SameAt
  <2>3. ASSUME NEW m \in Markets PROVE DealsBehind(m)' /\ NothingBehind(m)'
    BY <1>1, <1>3, <1>8 DEF PriceInv, Behind, DealsBehind, NothingBehind, Pushed, Pending
  <2> QED
    BY <2>1, <2>2, <2>3 DEF Behind
<1>9. ASSUME flushing = <<>> PROVE RedisRight'
  <2>1. ASSUME NEW m \in Markets
        PROVE  RightIn(feed, redis'.klines[m], redis.last[m], redis.deals[m], m, redis.offset, now)
    <3>1. RightIn(feed, redis.klines[m], redis.last[m], redis.deals[m], m, redis.offset, now)
      BY <1>9 DEF PriceInv, RedisRight
    <3>2. ExplainedIn(feed, redis'.klines[m], m, redis.offset, now)
      BY <1>2, <1>4, <3>1, ExplainedSame DEF RightIn
    <3> QED
      BY <3>1, <3>2 DEF RightIn
  <2> QED
    BY <1>1, <1>3, <2>1 DEF RedisRight
<1>10. up' = up /\ flushing' = flushing
  BY <1>1
<1> QED
  BY <1>5, <1>6, <1>7, <1>8, <1>9, <1>10 DEF PriceInv

\* A crash that does not come in a flush leaves redis right.
LEMMA CrashRight ==
    ASSUME PriceInv, "crash_in_flush" \notin Faults, Crash
    PROVE  PriceInv'
<1>1. /\ now' = now /\ feed' = feed /\ up' = FALSE /\ position' = position /\ flushing = <<>> /\ flushing' = <<>>
      /\ redis' = redis /\ span' = span /\ klines' = klines /\ update' = update /\ last' = last /\ deals' = deals
      /\ deals_json' = deals_json /\ dirty' = dirty /\ last_offset' = last_offset
  BY DEF Crash, memory
<1>2. PriceTypeOK'
  BY <1>1 DEF PriceInv, PriceTypeOK
<1>3. InThePast' /\ FlushOK'
  BY <1>1 DEF PriceInv, InThePast, FlushOK
<1>4. RedisRight'
  BY <1>1 DEF PriceInv, RedisRight
<1> QED
  BY <1>1, <1>2, <1>3, <1>4 DEF PriceInv

\* A list that is right is not longer than it may be.
LEMMA NewestLength ==
    ASSUME NEW list, NEW D, IsFiniteSet(D), IsNewest(list, D)
    PROVE  Len(list) <= DealsMax
<1>1. DealsMax \in Int /\ Cardinality(D) \in Int
  BY SettingsAssumption, FS_CardinalityType
<1>2. Len(list) = IF DealsMax <= Cardinality(D) THEN DealsMax ELSE Cardinality(D)
  BY <1>1, MaxOfTwo DEF IsNewest
<1> QED
  BY <1>1, <1>2

\* Nothing before a list.
LEMMA PushNothing ==
    ASSUME NEW list \in Seq(Nat), Len(list) <= DealsMax
    PROVE  Newest(DealsMax, Reverse(<<>>) \o list) = list
<1>1. Reverse(<<>>) = <<>>
  BY DEF Reverse
<1>2. <<>> \o list = list
  BY ConcatEmptySeq
<1>3. DealsMax \in Nat
  BY SettingsAssumption
<1> QED
  BY <1>1, <1>2, <1>3, NewestAll

\* A start loads what redis holds and goes on from its offset.
LEMMA StartRight ==
    ASSUME PriceInv, FirstOffset = 1, Start
    PROVE  PriceInv'
<1>1. /\ now' = now /\ feed' = feed /\ up = FALSE /\ up' = TRUE /\ flushing' = flushing /\ redis' = redis
      /\ span' = span /\ last_offset' = redis.offset
      /\ position' = IF redis.offset + 1 > End THEN End ELSE redis.offset + 1
  BY DEF Start
<1>2. /\ update' = [m \in Markets |-> {}] /\ deals' = [m \in Markets |-> <<>>] /\ dirty' = [m \in Markets |-> TRUE]
      /\ klines' = [m \in Markets |-> Kept(redis.klines[m], now)]
      /\ last' = [m \in Markets |-> redis.last[m]] /\ deals_json' = [m \in Markets |-> redis.deals[m]]
  BY DEF Start, InitMarket, CreateMarkets, LoadMarkets, MarketList
<1>3. /\ now \in Nat /\ feed \in Seq(Deal) /\ Len(feed) \in Nat /\ PriceTypeOK
      /\ redis.klines \in Books /\ redis.last \in [Markets -> Nat]
      /\ redis.deals \in [Markets -> Seq(Nat)] /\ redis.offset \in Nat
  BY RedisFacts DEF PriceInv, PriceTypeOK
<1>4. /\ position' = redis.offset + 1 /\ Consumed' = redis.offset /\ redis.offset <= Len(feed)
      /\ redis.offset \in Int /\ redis.offset < FirstOffset + Len(feed)
  BY <1>1, <1>3 DEF End, Consumed, PriceInv, InThePast
<1>5. ASSUME NEW m \in Markets
      PROVE  /\ klines'[m] \in [Units -> Dicts]
             /\ \A u \in Units : DOMAIN klines'[m][u] \subseteq DOMAIN redis.klines[m][u]
             /\ \A u \in Units, t \in Int : t >= Oldest(u, now) => SameAt(t, redis.klines[m][u], klines'[m][u])
  <2>1. redis.klines[m] \in [Units -> Dicts] /\ klines'[m] = Kept(redis.klines[m], now)
    BY <1>2, <1>3 DEF Books
  <2> QED
    BY <1>3, <2>1, KeptSame
<1>6. PriceTypeOK'
  <2>1. klines' \in Books
    BY <1>2, <1>5 DEF Books
  <2>2. last' \in [Markets -> Nat] /\ deals_json' \in [Markets -> Seq(Nat)]
    BY <1>2, <1>3
  <2>3. update' \in [Markets -> SUBSET (Units \X Nat)] /\ deals' \in [Markets -> Seq(Nat)] /\ dirty' \in [Markets -> BOOLEAN]
    BY <1>2
  <2>4. position' \in Nat /\ last_offset' \in Nat
    BY <1>1, <1>3, <1>4
  <2> QED
    BY <1>1, <1>3, <2>1, <2>2, <2>3, <2>4 DEF PriceTypeOK
<1>7. InThePast'
  BY <1>1, <1>4, <1>5 DEF PriceInv, InThePast
<1>8. flushing = <<>> /\ FlushOK'
  BY <1>1 DEF PriceInv, FlushOK
<1>9. \A m \in Markets : RightIn(feed, redis.klines[m], redis.last[m], redis.deals[m], m, redis.offset, now)
  BY <1>8 DEF PriceInv, RedisRight
<1>10. MemoryRight'
  <2>1. ASSUME NEW m \in Markets
        PROVE  RightIn(feed, klines'[m], last'[m], deals_json'[m], m, redis.offset, now)
    <3>1. ExplainedIn(feed, klines'[m], m, redis.offset, now)
      BY <1>3, <1>5, <1>9, ExplainedSame DEF RightIn
    <3> QED
      BY <1>2, <1>9, <3>1 DEF RightIn
  <2> QED
    BY <1>1, <1>4, <2>1 DEF MemoryRight
<1>11. Behind'
  <2>1. ASSUME NEW m \in Markets PROVE KlinesBehind(m)'
    <3>1. update'[m] = {}
      BY <1>2
    <3> QED
      BY <1>1, <1>5, <3>1 DEF KlinesBehind, SameAt
  <2>2. ASSUME NEW m \in Markets PROVE DealsBehind(m)'
    <3>1. Len(redis.deals[m]) <= DealsMax
      BY <1>3, <1>4, <1>9, DealsInFacts, NewestLength DEF RightIn
    <3>2. Newest(DealsMax, Reverse(<<>>) \o redis.deals[m]) = redis.deals[m]
      BY <1>3, <3>1, PushNothing
    <3> QED
      BY <1>1, <1>2, <3>1, <3>2 DEF DealsBehind, Pushed
  <2>3. ASSUME NEW m \in Markets PROVE NothingBehind(m)'
    BY <1>1, <1>2 DEF NothingBehind
  <2> QED
    BY <2>1, <2>2, <2>3 DEF Behind
<1>12. RedisRight'
  BY <1>1, <1>9 DEF RedisRight
<1> QED
  BY <1>6, <1>7, <1>8, <1>10, <1>11, <1>12 DEF PriceInv

\* A deal that is read is the next of its market, and of no other.
LEMMA DealsMessageRight ==
    ASSUME PriceInv, FirstOffset = 1, OnDealsMessage
    PROVE  PriceInv'
<1> DEFINE d == DealAt(position)
           w == d.market
<1>1. /\ now' = now /\ feed' = feed /\ up /\ up' = up /\ flushing = <<>> /\ flushing' = flushing /\ redis' = redis
      /\ span' = span /\ last_offset' = position /\ position' = position + 1 /\ position < End
  BY DEF OnDealsMessage
<1>2. /\ klines' = [klines EXCEPT ![w] = [u \in Units |-> Entered(klines[w][u], KlineTime(u, d.time), d)]]
      /\ update' = [update EXCEPT ![w] = update[w] \cup {<<u, KlineTime(u, d.time)>> : u \in Units}]
      /\ last' = [last EXCEPT ![w] = d.price]
      /\ deals' = [deals EXCEPT ![w] = Append(deals[w], position)]
      /\ deals_json' = [deals_json EXCEPT ![w] = Newest(DealsMax, <<position>> \o deals_json[w])]
      /\ dirty' = [dirty EXCEPT ![w] = TRUE]
  BY DEF OnDealsMessage
<1>3. /\ now \in Nat /\ feed \in Seq(Deal) /\ Len(feed) \in Nat /\ position \in Nat /\ klines \in Books
      /\ update \in [Markets -> SUBSET (Units \X Nat)] /\ last \in [Markets -> Nat]
      /\ deals \in [Markets -> Seq(Nat)] /\ deals_json \in [Markets -> Seq(Nat)] /\ dirty \in [Markets -> BOOLEAN]
      /\ redis.deals \in [Markets -> Seq(Nat)] /\ PriceTypeOK
  BY RedisFacts DEF PriceInv, PriceTypeOK
<1>4. /\ Consumed \in Int /\ FirstOffset - 1 <= Consumed /\ Consumed + 1 < FirstOffset + Len(feed)
      /\ position = Consumed + 1 /\ Consumed' = Consumed + 1 /\ position <= Len(feed) /\ Consumed < FirstOffset + Len(feed)
  BY <1>1, <1>3, CountedFacts DEF End, Consumed
<1>5. d = At(feed, Consumed + 1) /\ d \in Deal
  BY <1>3, <1>4, NextDeal DEF DealAt, At
<1>6. w \in Markets /\ d.price \in Nat \ {0} /\ d.time \in Nat /\ d.time <= now
  <2>1. position \in 1 .. Len(feed) /\ d = feed[position]
    BY <1>3, <1>4, CountedFacts, <1>1 DEF DealAt, InThePast, PriceInv
  <2> QED
    BY <1>5, <2>1 DEF Deal, PriceInv, InThePast
<1> HIDE DEF d
<1>7. ASSUME NEW u \in Units
      PROVE  LET s == KlineTime(u, d.time)
                 J == Entered(klines[w][u], s, d)
             IN  /\ s \in Nat /\ s <= now /\ J \in Dicts /\ DOMAIN J = DOMAIN klines[w][u] \cup {s}
                 /\ \A t \in DOMAIN klines[w][u] : t # s => J[t] = klines[w][u][t]
  <2>1. klines[w][u] \in Dicts
    BY <1>3, <1>6 DEF Books
  <2>2. KlineTime(u, d.time) \in Nat /\ KlineTime(u, d.time) <= d.time
    BY <1>6, KlineTimeFacts
  <2>3. KlineTime(u, d.time) <= now
    BY <1>3, <1>6, <2>2
  <2> QED
    BY <1>5, <2>1, <2>2, <2>3, EnteredFacts
<1>8. klines'[w] \in [Units -> Dicts] /\ klines'[w] = [u \in Units |-> Entered(klines[w][u], KlineTime(u, d.time), d)]
  <2>1. klines'[w] = [u \in Units |-> Entered(klines[w][u], KlineTime(u, d.time), d)]
    BY <1>2, <1>3, <1>6 DEF Books
  <2>2. \A u \in Units : Entered(klines[w][u], KlineTime(u, d.time), d) \in Dicts
    BY <1>7
  <2> QED
    BY <2>1, <2>2
<1>9. ASSUME NEW u \in Units
      PROVE  /\ KlineTime(u, d.time) \in Nat /\ KlineTime(u, d.time) <= now
             /\ DOMAIN klines'[w][u] = DOMAIN klines[w][u] \cup {KlineTime(u, d.time)}
             /\ \A t \in DOMAIN klines[w][u] : t # KlineTime(u, d.time) => klines'[w][u][t] = klines[w][u][t]
  <2>1. klines'[w][u] = Entered(klines[w][u], KlineTime(u, d.time), d)
    BY <1>8
  <2> QED
    BY <1>7, <2>1
<1>10. PriceTypeOK'
  <2>1. klines' \in Books
    BY <1>2, <1>3, <1>8 DEF Books
  <2>2. update' \in [Markets -> SUBSET (Units \X Nat)]
    <3> DEFINE U == update[w] \cup {<<u, KlineTime(u, d.time)>> : u \in Units}
    <3>1. U \in SUBSET (Units \X Nat)
      <4>1. update[w] \in SUBSET (Units \X Nat)
        BY <1>3, <1>6
      <4>2. \A u \in Units : <<u, KlineTime(u, d.time)>> \in Units \X Nat
        BY <1>9
      <4> QED
        BY <4>1, <4>2
    <3>2. update' = [update EXCEPT ![w] = U]
      BY <1>2
    <3> HIDE DEF U
    <3> QED
      BY <1>3, <3>1, <3>2
  <2>3. last' \in [Markets -> Nat] /\ dirty' \in [Markets -> BOOLEAN]
    BY <1>2, <1>3, <1>6
  <2>4. deals' \in [Markets -> Seq(Nat)]
    <3>1. Append(deals[w], position) \in Seq(Nat)
      BY <1>3, <1>6
    <3> QED
      BY <1>2, <1>3, <3>1
  <2>5. deals_json' \in [Markets -> Seq(Nat)]
    <3>1. deals_json[w] \in Seq(Nat) /\ DealsMax \in Nat
      BY <1>3, <1>6, SettingsAssumption
    <3>2. Newest(DealsMax, <<position>> \o deals_json[w]) \in Seq(Nat)
      BY <1>3, <3>1, PutFirst, NewestFacts
    <3> QED
      BY <1>2, <1>3, <3>2
  <2>6. position' \in Nat /\ last_offset' \in Nat
    BY <1>1, <1>3
  <2> QED
    BY <1>1, <1>3, <2>1, <2>2, <2>3, <2>4, <2>5, <2>6 DEF PriceTypeOK
<1>11. InThePast'
  <2>1. ASSUME NEW m \in Markets, NEW u \in Units, NEW t \in DOMAIN klines'[m][u] PROVE t <= now
    <3>1. CASE m = w
      <4>1. t \in DOMAIN klines[m][u] \/ t = KlineTime(u, d.time)
        BY <1>9, <3>1
      <4> QED
        BY <1>9, <4>1 DEF PriceInv, InThePast
    <3>2. CASE m # w
      BY <1>2, <1>3, <3>2 DEF PriceInv, InThePast, Books
    <3> QED
      BY <3>1, <3>2
  <2> QED
    BY <1>1, <1>4, <2>1 DEF PriceInv, InThePast
<1>12. FlushOK'
  BY <1>1 DEF PriceInv, FlushOK
<1>13. MemoryRight'
  <2>1. ASSUME NEW m \in Markets
        PROVE  RightIn(feed, klines'[m], last'[m], deals_json'[m], m, Consumed + 1, now)
    <3>1. RightIn(feed, klines[m], last[m], deals_json[m], m, Consumed, now)
      BY <1>1 DEF PriceInv, MemoryRight
    <3>2. CASE m = w
      <4>1. ExplainedIn(feed, klines'[m], m, Consumed + 1, now)
        <5>1. klines[m] \in [Units -> Dicts] /\ ExplainedIn(feed, klines[m], m, Consumed, now)
          BY <1>3, <3>1 DEF Books, RightIn
        <5>2. klines'[m] = [u \in Units |-> Entered(klines[m][u], KlineTime(u, At(feed, Consumed + 1).time),
                                                   At(feed, Consumed + 1))]
          BY <1>5, <1>8, <3>2
        <5>3. At(feed, Consumed + 1).market = m
          BY <1>5, <3>2
        <5> QED
          BY <1>3, <1>4, <5>1, <5>2, <5>3, ExplainedDeal
      <4>2. last'[m] = LastIn(feed, m, Consumed + 1)
        BY <1>2, <1>3, <1>4, <1>5, <3>2, LastPut
      <4>3. IsNewest(deals_json'[m], DealsIn(feed, m, Consumed + 1))
        <5> DEFINE D == DealsIn(feed, m, Consumed)
        <5>1. DealsIn(feed, m, Consumed + 1) = D \cup {position}
          BY <1>3, <1>4, <1>5, <3>2, NextDeal
        <5>2. D \in SUBSET Int /\ IsFiniteSet(D) /\ \A x \in D : x <= Consumed
          BY <1>3, <1>4, DealsInFacts
        <5>3. \A x \in D : x < position
          BY <1>4, <5>2
        <5>4. deals_json[m] \in Seq(Nat) /\ IsNewest(deals_json[m], D)
          BY <1>3, <3>1 DEF RightIn
        <5>5. deals_json'[m] = Newest(DealsMax, <<position>> \o deals_json[m])
          BY <1>2, <1>3, <3>2
        <5> HIDE DEF D
        <5> QED
          BY <1>3, <5>1, <5>2, <5>3, <5>4, <5>5, IsNewestPut
      <4> QED
        BY <4>1, <4>2, <4>3 DEF RightIn
    <3>3. CASE m # w
      <4>1. klines'[m] = klines[m] /\ last'[m] = last[m] /\ deals_json'[m] = deals_json[m]
        BY <1>2, <1>3, <3>3 DEF Books
      <4>2. DealsIn(feed, m, Consumed + 1) = DealsIn(feed, m, Consumed)
        BY <1>3, <1>4, <1>5, <3>3, NextDeal
      <4>3. LastIn(feed, m, Consumed + 1) = LastIn(feed, m, Consumed)
        BY <4>2 DEF LastIn
      <4>4. ExplainedIn(feed, klines[m], m, Consumed + 1, now)
        BY <3>1, <4>2 DEF RightIn, ExplainedIn
      <4> QED
        BY <3>1, <4>1, <4>2, <4>3, <4>4 DEF RightIn
    <3> QED
      BY <3>2, <3>3
  <2> QED
    BY <1>1, <1>4, <2>1 DEF MemoryRight
<1>14. ASSUME NEW m \in Markets PROVE KlinesBehind(m)' /\ DealsBehind(m)' /\ NothingBehind(m)'
  <2>1. KlinesBehind(m) /\ DealsBehind(m) /\ NothingBehind(m)
    BY <1>1 DEF PriceInv, Behind
  <2>2. CASE m # w
    <3>1. /\ klines'[m] = klines[m] /\ last'[m] = last[m] /\ deals_json'[m] = deals_json[m]
          /\ update'[m] = update[m] /\ deals'[m] = deals[m] /\ dirty'[m] = dirty[m]
      BY <1>2, <1>3, <2>2 DEF Books
    <3> QED
      BY <1>1, <2>1, <3>1 DEF KlinesBehind, DealsBehind, NothingBehind, Pushed, Pending
  <2>3. CASE m = w
    <3>1. KlinesBehind(m)'
      <4>1. update'[m] = update[m] \cup {<<u, KlineTime(u, d.time)>> : u \in Units}
        BY <1>2, <1>3, <2>3
      <4>2. ASSUME NEW u \in Units, NEW t \in Int, t >= Oldest(u, now)
            PROVE  IF <<u, t>> \in update'[m] THEN t \in DOMAIN klines'[m][u]
                   ELSE SameAt(t, klines'[m][u], redis.klines[m][u])
        <5>1. IF <<u, t>> \in update[m] THEN t \in DOMAIN klines[m][u]
              ELSE SameAt(t, klines[m][u], redis.klines[m][u])
          BY <2>1, <4>2 DEF KlinesBehind
        <5>2. <<u, t>> \in update'[m] <=> <<u, t>> \in update[m] \/ t = KlineTime(u, d.time)
          BY <4>1
        <5>3. /\ DOMAIN klines'[m][u] = DOMAIN klines[m][u] \cup {KlineTime(u, d.time)}
              /\ \A s \in DOMAIN klines[m][u] : s # KlineTime(u, d.time) => klines'[m][u][s] = klines[m][u][s]
          BY <1>9, <2>3
        <5> QED
          BY <5>1, <5>2, <5>3 DEF SameAt
      <4> QED
        BY <1>1, <4>2 DEF KlinesBehind
    <3>2. DealsBehind(m)'
      <4> DEFINE a == Reverse(deals[m])
                 b == redis.deals[m]
      <4>1. deals[m] \in Seq(Nat) /\ b \in Seq(Nat) /\ DealsMax \in Nat
        BY <1>3, SettingsAssumption
      <4>2. a \in Seq(Nat) /\ Reverse(Append(deals[m], position)) = <<position>> \o a
        BY <1>3, <4>1, ReverseAppend
      <4>3. deals'[m] = Append(deals[m], position) /\ deals_json'[m] = Newest(DealsMax, <<position>> \o deals_json[m])
        BY <1>2, <1>3, <2>3
      <4>4. Newest(DealsMax, a \o b) = deals_json[m] /\ Len(b) <= DealsMax
        BY <2>1 DEF DealsBehind, Pushed
      <4> HIDE DEF a, b
      <4>5. <<position>> \in Seq(Nat) /\ a \o b \in Seq(Nat)
        BY <1>3, <4>1, <4>2, ConcatProperties
      <4>6. (<<position>> \o a) \o b = <<position>> \o (a \o b)
        BY <4>1, <4>2, <4>5, ConcatAssociative
      <4>7. Newest(DealsMax, <<position>> \o Newest(DealsMax, a \o b)) = Newest(DealsMax, <<position>> \o (a \o b))
        BY <1>3, <4>1, <4>5, NewestPut
      <4>8. Newest(DealsMax, Reverse(deals'[m]) \o b) = deals_json'[m]
        BY <4>2, <4>3, <4>4, <4>6, <4>7
      <4> QED
        BY <1>1, <4>4, <4>8 DEF DealsBehind, Pushed, b
    <3>3. NothingBehind(m)'
      <4>1. dirty'[m] = TRUE
        BY <1>2, <1>3, <2>3
      <4> QED
        BY <1>1, <4>1 DEF NothingBehind, Pending
    <3> QED
      BY <3>1, <3>2, <3>3
  <2> QED
    BY <2>2, <2>3
<1>15. RedisRight'
  BY <1>1 DEF PriceInv, RedisRight
<1> QED
  BY <1>10, <1>11, <1>12, <1>13, <1>14, <1>15 DEF PriceInv, Behind

-----------------------------------------------------------------------------
(* A flush *)

\* on_market_timer: the markets that are not flushed have nothing to write.
LEMMA MarketTimerRight ==
    ASSUME PriceInv, FirstOffset = 1, OnMarketTimer
    PROVE  PriceInv'
<1>1. /\ now' = now /\ feed' = feed /\ up /\ up' = up /\ position' = position /\ redis' = redis
      /\ flushing = <<>> /\ span' = span /\ klines' = klines /\ update' = update /\ last' = last /\ deals' = deals
      /\ deals_json' = deals_json /\ dirty' = dirty /\ last_offset' = last_offset
  BY DEF OnMarketTimer, memory
<1> DEFINE S == {m \in Markets : dirty[m]}
<1>2. PICK order \in SetToSeqs(S) : flushing' = FlushSteps(order)
  BY DEF OnMarketTimer
<1>3. /\ flushing' \in Seq(Steps) /\ Len(flushing') \in Nat \ {0} /\ flushing'[Len(flushing')] = <<"offset">>
      /\ \A i \in 1 .. Len(flushing') : i # Len(flushing') => flushing'[i] # <<"offset">>
      /\ \A step \in {"update", "last", "deals"}, m \in S : \E i \in 1 .. Len(flushing') : flushing'[i] = <<step, m>>
  <2>1. S \in SUBSET Markets
    OBVIOUS
  <2> HIDE DEF S
  <2> QED
    BY <1>2, <2>1, FlushStepsAre
<1>4. flushing' # <<>>
  <2>1. Len(<<>>) = 0
    OBVIOUS
  <2> QED
    BY <1>3, <2>1
<1>5. PriceTypeOK'
  BY <1>1, <1>3 DEF PriceInv, PriceTypeOK
<1>6. InThePast' /\ FlushOK'
  BY <1>1, <1>3 DEF PriceInv, InThePast, FlushOK
<1>7. MemoryRight'
  BY <1>1 DEF PriceInv, MemoryRight, Consumed
<1>8. ASSUME NEW m \in Markets PROVE KlinesBehind(m)' /\ DealsBehind(m)' /\ NothingBehind(m)'
  <2>1. KlinesBehind(m) /\ DealsBehind(m) /\ NothingBehind(m)
    BY <1>1 DEF PriceInv, Behind
  <2>2. KlinesBehind(m)' /\ DealsBehind(m)'
    BY <1>1, <2>1 DEF KlinesBehind, DealsBehind, Pushed
  <2>3. ASSUME NEW step \in {"update", "last", "deals"}, ~Pending(step, m)' PROVE ~Pending(step, m)
    <3>1. ~\E i \in 1 .. Len(flushing') : flushing'[i] = <<step, m>>
      BY <1>4, <2>3 DEF Pending
    <3>2. m \notin S
      BY <1>3, <3>1
    <3> QED
      BY <1>1, <3>2 DEF Pending
  <2>4. NothingBehind(m)'
    BY <1>1, <2>1, <2>3 DEF NothingBehind
  <2> QED
    BY <2>2, <2>4
<1> QED
  BY <1>1, <1>4, <1>5, <1>6, <1>7, <1>8 DEF PriceInv, Behind

\* What is left of a flush after its first step.
LEMMA FlushingFacts ==
    ASSUME PriceTypeOK, FlushOK, flushing # <<>>
    PROVE  /\ up /\ Len(flushing) \in Nat \ {0} /\ Head(flushing) = flushing[1] /\ flushing[1] \in Steps
           /\ Tail(flushing) \in Seq(Steps) /\ Len(Tail(flushing)) = Len(flushing) - 1
           /\ \A i \in 1 .. Len(Tail(flushing)) : Tail(flushing)[i] = flushing[i + 1]
           /\ flushing[Len(flushing)] = <<"offset">>
           /\ \A i \in 1 .. Len(flushing) : i # Len(flushing) => flushing[i] # <<"offset">>
<1>1. flushing \in Seq(Steps) /\ Len(flushing) \in Nat \ {0}
  BY EmptySeq DEF PriceTypeOK
<1>2. /\ Tail(flushing) \in Seq(Steps) /\ Len(Tail(flushing)) = Len(flushing) - 1
      /\ \A i \in 1 .. Len(Tail(flushing)) : Tail(flushing)[i] = flushing[i + 1]
      /\ Head(flushing) = flushing[1] /\ flushing[1] \in Steps
  BY <1>1, HeadTailProperties, ElementOfSeq
<1> QED
  BY <1>1, <1>2 DEF FlushOK

\* A step for a market leaves the other steps, and the offset as the last.
LEMMA FlushStepFacts ==
    ASSUME PriceTypeOK, FlushOK, flushing # <<>>,
           NEW step \in {"update", "last", "deals"}, Head(flushing)[1] = step
    PROVE  LET w == Head(flushing)[2]
               F == Tail(flushing)
           IN  /\ w \in Markets /\ F # <<>> /\ F[Len(F)] = <<"offset">>
               /\ \A i \in 1 .. Len(F) : i # Len(F) => F[i] # <<"offset">>
               /\ \A s \in {"update", "last", "deals"}, m \in Markets :
                     (\E i \in 1 .. Len(flushing) : flushing[i] = <<s, m>>) =>
                        (s = step /\ m = w) \/ \E i \in 1 .. Len(F) : F[i] = <<s, m>>
<1> DEFINE w == Head(flushing)[2]
           F == Tail(flushing)
           n == Len(flushing)
           k == Len(F)
<1>1. n \in Nat \ {0} /\ k = n - 1
  BY FlushingFacts
<1>2. /\ Head(flushing) = flushing[1] /\ flushing[1] \in Steps
      /\ \A i \in 1 .. k : F[i] = flushing[i + 1]
      /\ flushing[n] = <<"offset">>
      /\ \A i \in 1 .. n : i # n => flushing[i] # <<"offset">>
  BY FlushingFacts
<1> HIDE DEF F, n, k
<1>3. flushing[1] = <<step, w>> /\ w \in Markets /\ flushing[1] # <<"offset">>
  <2>1. <<"offset">>[1] = "offset"
    OBVIOUS
  <2>2. flushing[1] \in {"update", "last", "deals"} \X Markets
    BY <1>2, <2>1 DEF Steps
  <2>3. flushing[1] = <<flushing[1][1], flushing[1][2]>> /\ flushing[1][2] \in Markets
    BY <2>2
  <2> QED
    BY <1>2, <2>1, <2>3
<1>4. n # 1
  BY <1>2, <1>3
<1>5. k \in Nat \ {0} /\ k + 1 = n
  BY <1>1, <1>4
<1>6. F # <<>>
  <2>1. Len(<<>>) = 0
    OBVIOUS
  <2> QED
    BY <1>5, <2>1 DEF k
<1>7. F[k] = <<"offset">>
  <2>1. k \in 1 .. k
    BY <1>5
  <2> QED
    BY <1>2, <1>5, <2>1
<1>8. ASSUME NEW i \in 1 .. k, i # k PROVE F[i] # <<"offset">>
  <2>1. i + 1 \in 1 .. n /\ i + 1 # n
    BY <1>5, <1>8
  <2> QED
    BY <1>2, <2>1
<1>9. ASSUME NEW s \in {"update", "last", "deals"}, NEW m \in Markets,
             NEW i \in 1 .. n, flushing[i] = <<s, m>>
      PROVE  (s = step /\ m = w) \/ \E j \in 1 .. k : F[j] = <<s, m>>
  <2>1. CASE i = 1
    BY <1>3, <1>9, <2>1
  <2>2. CASE i # 1
    <3>1. i - 1 \in 1 .. k /\ (i - 1) + 1 = i
      BY <1>5, <2>2
    <3>2. F[i - 1] = <<s, m>>
      BY <1>2, <1>9, <3>1
    <3> QED
      BY <3>1, <3>2
  <2> QED
    BY <2>1, <2>2
<1> QED
  BY <1>3, <1>6, <1>7, <1>8, <1>9 DEF F, n, k

\* The offset is the only step left when it is written.
LEMMA FlushEndFacts ==
    ASSUME PriceTypeOK, FlushOK, flushing # <<>>, Head(flushing)[1] = "offset"
    PROVE  /\ Tail(flushing) = <<>>
           /\ \A s \in {"update", "last", "deals"}, m \in Markets :
                 ~\E i \in 1 .. Len(flushing) : flushing[i] = <<s, m>>
<1> DEFINE n == Len(flushing)
           k == Len(Tail(flushing))
<1>1. n \in Nat \ {0} /\ k = n - 1
  BY FlushingFacts
<1>2. /\ Head(flushing) = flushing[1] /\ flushing[1] \in Steps /\ Tail(flushing) \in Seq(Steps)
      /\ \A i \in 1 .. n : i # n => flushing[i] # <<"offset">>
  BY FlushingFacts
<1> HIDE DEF n, k
<1>3. flushing[1] = <<"offset">>
  BY <1>2 DEF Steps
<1>4. n = 1
  <2>1. 1 \in 1 .. n
    BY <1>1
  <2> QED
    BY <1>2, <1>3, <2>1
<1>5. Tail(flushing) = <<>>
  <2>1. k = 0
    BY <1>1, <1>4
  <2> QED
    BY <1>2, <2>1, EmptySeq DEF k
<1>6. ASSUME NEW s \in {"update", "last", "deals"}, NEW m \in Markets, NEW i \in 1 .. n
      PROVE  flushing[i] # <<s, m>>
  <2>1. i = 1
    BY <1>4
  <2>2. <<s, m>>[1] = s /\ <<"offset">>[1] = "offset"
    OBVIOUS
  <2> QED
    BY <1>3, <2>1, <2>2
<1> QED
  BY <1>5, <1>6 DEF n

\* A step of a flush but the last: what it leaves of the invariant to show.
LEMMA FlushStepRight ==
    ASSUME PriceInv, FirstOffset = 1, NEW step \in {"update", "last", "deals"}, Doing(step), Done,
           UNCHANGED <<span, now, feed, up, position, klines, last, deals_json, dirty, last_offset>>,
           PriceTypeOK', redis'.offset = redis.offset,
           \A m \in Markets, u \in Units : \A t \in DOMAIN redis'.klines[m][u] : t <= now,
           \A m \in Markets : KlinesBehind(m)' /\ DealsBehind(m)',
           \A m \in Markets :
              /\ (step = "update" /\ m = Head(flushing)[2]) \/ (update[m] = {}) => update'[m] = {}
              /\ (step = "last" /\ m = Head(flushing)[2]) \/ (redis.last[m] = last[m]) => redis'.last[m] = last[m]
              /\ (step = "deals" /\ m = Head(flushing)[2]) \/ (deals[m] = <<>>) => deals'[m] = <<>>
    PROVE  PriceInv'
<1> DEFINE w == Head(flushing)[2]
<1>1. flushing # <<>> /\ Head(flushing)[1] = step /\ flushing' = Tail(flushing)
  BY DEF Doing, Done
<1>2. up
  BY DEF Doing
<1>3. /\ w \in Markets /\ flushing' # <<>> /\ flushing'[Len(flushing')] = <<"offset">>
      /\ \A i \in 1 .. Len(flushing') : i # Len(flushing') => flushing'[i] # <<"offset">>
      /\ \A s \in {"update", "last", "deals"}, n \in Markets :
            (\E i \in 1 .. Len(flushing) : flushing[i] = <<s, n>>) =>
               (s = step /\ n = w) \/ \E i \in 1 .. Len(flushing') : flushing'[i] = <<s, n>>
  <2>1. PriceTypeOK /\ FlushOK /\ step \in {"update", "last", "deals"}
    BY DEF PriceInv
  <2> QED
    BY ONLY <1>1, <2>1, FlushStepFacts
<1> HIDE DEF w
<1>4. InThePast' /\ FlushOK'
  BY <1>2, <1>3 DEF PriceInv, InThePast, FlushOK
<1>5. MemoryRight'
  BY <1>2 DEF PriceInv, MemoryRight, Consumed
<1>6. ASSUME NEW m \in Markets PROVE NothingBehind(m)'
  <2>1. NothingBehind(m)
    BY <1>2 DEF PriceInv, Behind
  <2>2. ASSUME NEW s \in {"update", "last", "deals"}, ~Pending(s, m)'
        PROVE  (s = step /\ m = w) \/ ~Pending(s, m)
    BY <1>1, <1>2, <1>3, <2>2 DEF Pending
  <2>3. ~Pending("update", m)' => update'[m] = {}
    BY <2>1, <2>2 DEF NothingBehind, w
  <2>4. ~Pending("last", m)' => redis'.last[m] = last[m]
    BY <2>1, <2>2 DEF NothingBehind, w
  <2>5. ~Pending("deals", m)' => deals'[m] = <<>>
    BY <2>1, <2>2 DEF NothingBehind, w
  <2> QED
    BY <2>3, <2>4, <2>5 DEF NothingBehind
<1>7. up' = up /\ flushing' # <<>>
  BY <1>3
<1>8. Behind'
  BY <1>6 DEF Behind
<1> QED
  BY <1>4, <1>5, <1>7, <1>8 DEF PriceInv

\* flush_kline writes the klines of the list over those of redis.
LEMMA WrittenFacts ==
    ASSUME PriceTypeOK, NEW w \in Markets, NEW K
    PROVE  /\ Written(w, K) \in Books
           /\ \A m \in Markets : m # w => Written(w, K)[m] = redis.klines[m]
           /\ \A u \in Units :
                LET T == {t \in DOMAIN klines[w][u] : <<u, t>> \in K}
                    J == Written(w, K)[w][u]
                IN  /\ DOMAIN J = DOMAIN redis.klines[w][u] \cup T
                    /\ \A t \in DOMAIN J : J[t] = IF t \in T THEN klines[w][u][t] ELSE redis.klines[w][u][t]
<1> DEFINE T(u) == {t \in DOMAIN klines[w][u] : <<u, t>> \in K}
           J(u) == [t \in DOMAIN redis.klines[w][u] \cup T(u) |->
                       IF t \in T(u) THEN klines[w][u][t] ELSE redis.klines[w][u][t]]
<1>1. redis.klines \in Books /\ klines \in Books
  BY RedisFacts DEF PriceTypeOK
<1>2. ASSUME NEW u \in Units PROVE J(u) \in Dicts
  <2>1. redis.klines[w][u] \in Dicts /\ klines[w][u] \in Dicts
    BY <1>1 DEF Books
  <2>2. /\ DOMAIN redis.klines[w][u] \in SUBSET Nat /\ \A t \in DOMAIN redis.klines[w][u] : redis.klines[w][u][t] \in Kline
        /\ DOMAIN klines[w][u] \in SUBSET Nat /\ \A t \in DOMAIN klines[w][u] : klines[w][u][t] \in Kline
    BY <2>1, DictFacts
  <2>3. T(u) \subseteq DOMAIN klines[w][u]
    OBVIOUS
  <2> HIDE DEF T
  <2>4. DOMAIN redis.klines[w][u] \cup T(u) \in SUBSET Nat
    BY <2>2, <2>3
  <2>5. J(u) \in [DOMAIN redis.klines[w][u] \cup T(u) -> Kline]
    BY <2>2, <2>3
  <2> QED
    BY <2>4, <2>5 DEF Dicts
<1>3. Written(w, K) = [redis.klines EXCEPT ![w] = [u \in Units |-> J(u)]]
  BY DEF Written
<1> HIDE DEF J
<1>4. /\ Written(w, K)[w] = [u \in Units |-> J(u)]
      /\ \A m \in Markets : m # w => Written(w, K)[m] = redis.klines[m]
      /\ DOMAIN Written(w, K) = Markets /\ Written(w, K) = [m \in Markets |-> Written(w, K)[m]]
  BY <1>1, <1>3 DEF Books
<1>5. Written(w, K) \in Books
  <2>1. [u \in Units |-> J(u)] \in [Units -> Dicts]
    BY <1>2
  <2>2. \A m \in Markets : Written(w, K)[m] \in [Units -> Dicts]
    BY <1>1, <1>4, <2>1 DEF Books
  <2> QED
    BY <1>4, <2>2 DEF Books
<1>6. ASSUME NEW u \in Units
      PROVE  /\ DOMAIN Written(w, K)[w][u] = DOMAIN redis.klines[w][u] \cup T(u)
             /\ \A t \in DOMAIN Written(w, K)[w][u] :
                  Written(w, K)[w][u][t] = IF t \in T(u) THEN klines[w][u][t] ELSE redis.klines[w][u][t]
  <2>1. Written(w, K)[w][u] = J(u)
    BY <1>4
  <2> QED
    BY <2>1 DEF J
<1> QED
  BY <1>4, <1>5, <1>6

\* redis as a record, with one of its fields changed.
LEMMA RedisPut ==
    ASSUME PriceTypeOK, NEW x
    PROVE  LET typed(K, l, D, o) ==
                 /\ K \in Books /\ l \in [Markets -> Nat] /\ D \in [Markets -> Seq(Nat)] /\ o \in Nat
               has(r, K, l, D, o) ==
                 /\ r.klines = K /\ r.last = l /\ r.deals = D /\ r.offset = o
                 /\ typed(K, l, D, o) =>
                      r \in [klines : Books, last : [Markets -> Nat], deals : [Markets -> Seq(Nat)], offset : Nat]
           IN  /\ has([redis EXCEPT !.klines = x], x, redis.last, redis.deals, redis.offset)
               /\ has([redis EXCEPT !.last = x], redis.klines, x, redis.deals, redis.offset)
               /\ has([redis EXCEPT !.deals = x], redis.klines, redis.last, x, redis.offset)
               /\ has([redis EXCEPT !.offset = x], redis.klines, redis.last, redis.deals, x)
<1>1. redis = [klines |-> redis.klines, last |-> redis.last, deals |-> redis.deals, offset |-> redis.offset]
  BY DEF PriceTypeOK
<1>2. /\ [redis EXCEPT !.klines = x] = [klines |-> x, last |-> redis.last, deals |-> redis.deals, offset |-> redis.offset]
      /\ [redis EXCEPT !.last = x] = [klines |-> redis.klines, last |-> x, deals |-> redis.deals, offset |-> redis.offset]
  BY <1>1
<1>3. /\ [redis EXCEPT !.deals = x] = [klines |-> redis.klines, last |-> redis.last, deals |-> x, offset |-> redis.offset]
      /\ [redis EXCEPT !.offset = x] = [klines |-> redis.klines, last |-> redis.last, deals |-> redis.deals, offset |-> x]
  BY <1>1
<1> QED
  BY <1>2, <1>3

\* flush_update: what the list does not have was the same before.
LEMMA FlushUpdateRight ==
    ASSUME PriceInv, FirstOffset = 1, FlushUpdate
    PROVE  PriceInv'
<1> DEFINE w == Head(flushing)[2]
           J == Written(w, update[w])
<1>1. /\ Doing("update") /\ Done
      /\ UNCHANGED <<span, now, feed, up, position, klines, last, deals, deals_json, dirty, last_offset>>
      /\ redis' = [redis EXCEPT !.klines = J] /\ update' = [update EXCEPT ![w] = {}]
  BY DEF FlushUpdate
<1>2. PriceTypeOK /\ up /\ now \in Nat /\ flushing # <<>> /\ Head(flushing)[1] = "update"
  BY <1>1 DEF PriceInv, PriceTypeOK, Doing
<1>3. w \in Markets /\ flushing' \in Seq(Steps)
  <2>1. FlushOK
    BY DEF PriceInv
  <2> QED
    BY <1>1, <1>2, <2>1, FlushStepFacts, FlushingFacts DEF Done
<1> HIDE DEF w
<1>4. /\ J \in Books /\ \A m \in Markets : m # w => J[m] = redis.klines[m]
      /\ \A u \in Units :
            LET T == {t \in DOMAIN klines[w][u] : <<u, t>> \in update[w]}
            IN  /\ DOMAIN J[w][u] = DOMAIN redis.klines[w][u] \cup T
                /\ \A t \in DOMAIN J[w][u] : J[w][u][t] = IF t \in T THEN klines[w][u][t] ELSE redis.klines[w][u][t]
  BY <1>2, <1>3, WrittenFacts
<1> HIDE DEF J
<1>5. /\ redis'.klines = J /\ redis'.last = redis.last /\ redis'.deals = redis.deals /\ redis'.offset = redis.offset
      /\ redis' \in [klines : Books, last : [Markets -> Nat], deals : [Markets -> Seq(Nat)], offset : Nat]
  BY <1>1, <1>2, <1>4, RedisFacts, RedisPut
<1>6. /\ update' \in [Markets -> SUBSET (Units \X Nat)] /\ update'[w] = {}
      /\ \A m \in Markets : m # w => update'[m] = update[m]
  BY <1>1, <1>2, <1>3 DEF PriceTypeOK
<1>7. PriceTypeOK'
  BY <1>1, <1>2, <1>3, <1>5, <1>6 DEF PriceTypeOK
<1>8. ASSUME NEW m \in Markets, NEW u \in Units, NEW t \in DOMAIN J[m][u] PROVE t <= now
  BY <1>4 DEF PriceInv, InThePast
<1>9. ASSUME NEW m \in Markets PROVE KlinesBehind(m)' /\ DealsBehind(m)'
  <2>1. KlinesBehind(m) /\ DealsBehind(m)
    BY <1>2 DEF PriceInv, Behind
  <2>2. ASSUME m # w PROVE KlinesBehind(m)'
    BY <1>1, <1>4, <1>5, <1>6, <2>1, <2>2 DEF KlinesBehind
  <2>3. ASSUME m = w PROVE KlinesBehind(m)'
    <3>1. ASSUME NEW u \in Units, NEW t \in Int, t >= Oldest(u, now) PROVE SameAt(t, klines[m][u], J[m][u])
      <4>1. IF <<u, t>> \in update[m] THEN t \in DOMAIN klines[m][u]
            ELSE SameAt(t, klines[m][u], redis.klines[m][u])
        BY <2>1, <3>1 DEF KlinesBehind
      <4> QED
        BY <1>4, <2>3, <4>1 DEF SameAt
    <3> QED
      BY <1>1, <1>5, <1>6, <2>3, <3>1 DEF KlinesBehind
  <2>4. DealsBehind(m)'
    BY <1>1, <1>5, <2>1 DEF DealsBehind, Pushed
  <2> QED
    BY <2>2, <2>3, <2>4
<1>10. ASSUME NEW m \in Markets
       PROVE  /\ update[m] = {} \/ m = w => update'[m] = {}
              /\ redis.last[m] = last[m] => redis'.last[m] = last[m]
              /\ deals[m] = <<>> => deals'[m] = <<>>
  BY <1>1, <1>5, <1>6
<1> QED
  BY <1>1, <1>5, <1>7, <1>8, <1>9, <1>10, FlushStepRight DEF w

\* flush_last.
LEMMA FlushLastRight ==
    ASSUME PriceInv, FirstOffset = 1, FlushLast
    PROVE  PriceInv'
<1> DEFINE w == Head(flushing)[2]
<1>1. /\ Doing("last") /\ Done
      /\ UNCHANGED <<span, now, feed, up, position, klines, update, last, deals, deals_json, dirty, last_offset>>
      /\ redis' = [redis EXCEPT !.last = [redis.last EXCEPT ![w] = last[w]]]
  BY DEF FlushLast, memory
<1>2. PriceTypeOK /\ up /\ last \in [Markets -> Nat] /\ flushing # <<>> /\ Head(flushing)[1] = "last"
  BY <1>1 DEF PriceInv, PriceTypeOK, Doing
<1>3. w \in Markets /\ flushing' \in Seq(Steps)
  <2>1. FlushOK
    BY DEF PriceInv
  <2> QED
    BY <1>1, <1>2, <2>1, FlushStepFacts, FlushingFacts DEF Done
<1> HIDE DEF w
<1> DEFINE l == [redis.last EXCEPT ![w] = last[w]]
<1>4. /\ l \in [Markets -> Nat] /\ l[w] = last[w] /\ \A m \in Markets : m # w => l[m] = redis.last[m]
  BY <1>2, <1>3, RedisFacts
<1>5. redis' = [redis EXCEPT !.last = l]
  BY <1>1
<1> HIDE DEF l
<1>6. /\ redis'.klines = redis.klines /\ redis'.last = l /\ redis'.deals = redis.deals /\ redis'.offset = redis.offset
      /\ redis' \in [klines : Books, last : [Markets -> Nat], deals : [Markets -> Seq(Nat)], offset : Nat]
  BY <1>2, <1>4, <1>5, RedisFacts, RedisPut
<1>7. PriceTypeOK'
  BY <1>1, <1>2, <1>3, <1>6 DEF PriceTypeOK
<1>8. ASSUME NEW m \in Markets PROVE KlinesBehind(m)' /\ DealsBehind(m)'
  BY <1>1, <1>2, <1>6 DEF PriceInv, Behind, KlinesBehind, DealsBehind, Pushed
<1>9. \A m \in Markets, u \in Units : \A t \in DOMAIN redis'.klines[m][u] : t <= now
  BY <1>6 DEF PriceInv, InThePast
<1>10. ASSUME NEW m \in Markets
       PROVE  /\ update[m] = {} => update'[m] = {}
              /\ redis.last[m] = last[m] \/ m = w => redis'.last[m] = last[m]
              /\ deals[m] = <<>> => deals'[m] = <<>>
  BY <1>1, <1>4, <1>6
<1> QED
  BY <1>1, <1>6, <1>7, <1>8, <1>9, <1>10, FlushStepRight DEF w

\* flush_deals: the list in redis becomes the one in memory.
LEMMA FlushDealsRight ==
    ASSUME PriceInv, FirstOffset = 1, FlushDeals
    PROVE  PriceInv'
<1> DEFINE w == Head(flushing)[2]
<1>1. /\ Doing("deals") /\ Done
      /\ UNCHANGED <<span, now, feed, up, position, klines, update, last, deals_json, dirty, last_offset>>
      /\ redis' = [redis EXCEPT !.deals = [redis.deals EXCEPT ![w] = Pushed(w)]]
      /\ deals' = [deals EXCEPT ![w] = <<>>]
  BY DEF FlushDeals
<1>2. /\ PriceTypeOK /\ up /\ deals \in [Markets -> Seq(Nat)] /\ deals_json \in [Markets -> Seq(Nat)]
      /\ flushing # <<>> /\ Head(flushing)[1] = "deals"
  BY <1>1 DEF PriceInv, PriceTypeOK, Doing
<1>3. w \in Markets /\ flushing' \in Seq(Steps)
  <2>1. FlushOK
    BY DEF PriceInv
  <2> QED
    BY <1>1, <1>2, <2>1, FlushStepFacts, FlushingFacts DEF Done
<1> HIDE DEF w
<1>4. Pushed(w) = deals_json[w]
  BY <1>2, <1>3 DEF PriceInv, Behind, DealsBehind
<1> DEFINE D == [redis.deals EXCEPT ![w] = deals_json[w]]
<1>5. D \in [Markets -> Seq(Nat)] /\ D[w] = deals_json[w] /\ \A m \in Markets : m # w => D[m] = redis.deals[m]
  BY <1>2, <1>3, RedisFacts
<1>6. redis' = [redis EXCEPT !.deals = D]
  BY <1>1, <1>4
<1> HIDE DEF D
<1>7. /\ redis'.klines = redis.klines /\ redis'.last = redis.last /\ redis'.deals = D /\ redis'.offset = redis.offset
      /\ redis' \in [klines : Books, last : [Markets -> Nat], deals : [Markets -> Seq(Nat)], offset : Nat]
  BY <1>2, <1>5, <1>6, RedisFacts, RedisPut
<1>8. deals' \in [Markets -> Seq(Nat)] /\ deals'[w] = <<>> /\ \A m \in Markets : m # w => deals'[m] = deals[m]
  BY <1>1, <1>2, <1>3
<1>9. PriceTypeOK'
  BY <1>1, <1>2, <1>3, <1>7, <1>8 DEF PriceTypeOK
<1>10. ASSUME NEW m \in Markets PROVE KlinesBehind(m)' /\ DealsBehind(m)'
  <2>1. KlinesBehind(m)' /\ DealsBehind(m)
    BY <1>1, <1>2, <1>7 DEF PriceInv, Behind, KlinesBehind
  <2>2. CASE m # w
    BY <1>1, <1>5, <1>7, <1>8, <2>1, <2>2 DEF DealsBehind, Pushed
  <2>3. CASE m = w
    <3>1. Len(deals_json[m]) <= DealsMax
      <4>1. Consumed \in Int /\ Consumed < FirstOffset + Len(feed) /\ feed \in Seq(Deal)
        BY <1>2, CountedFacts DEF PriceTypeOK
      <4>2. IsNewest(deals_json[m], DealsIn(feed, m, Consumed))
        BY <1>2 DEF PriceInv, MemoryRight, RightIn
      <4> QED
        BY <4>1, <4>2, DealsInFacts, NewestLength
    <3>2. Newest(DealsMax, Reverse(<<>>) \o deals_json[m]) = deals_json[m]
      BY <1>2, <3>1, PushNothing
    <3>3. deals'[m] = <<>> /\ redis'.deals[m] = deals_json[m] /\ deals_json' = deals_json
      BY <1>1, <1>5, <1>7, <1>8, <2>3
    <3>4. DealsBehind(m)'
      BY <3>1, <3>2, <3>3 DEF DealsBehind, Pushed
    <3> QED
      BY <2>1, <3>4
  <2> QED
    BY <2>1, <2>2, <2>3
<1>11. \A m \in Markets, u \in Units : \A t \in DOMAIN redis'.klines[m][u] : t <= now
  BY <1>7 DEF PriceInv, InThePast
<1>12. ASSUME NEW m \in Markets
       PROVE  /\ update[m] = {} => update'[m] = {}
              /\ redis.last[m] = last[m] => redis'.last[m] = last[m]
              /\ deals[m] = <<>> \/ m = w => deals'[m] = <<>>
  BY <1>1, <1>7, <1>8
<1> QED
  BY <1>1, <1>7, <1>9, <1>10, <1>11, <1>12, FlushStepRight DEF w

\* flush_offset: nothing is left to write, so redis has what memory has.
LEMMA FlushOffsetRight ==
    ASSUME PriceInv, FirstOffset = 1, FlushOffset
    PROVE  PriceInv'
<1>1. /\ Doing("offset") /\ Done
      /\ UNCHANGED <<span, now, feed, up, position, klines, update, last, deals, deals_json, last_offset>>
      /\ redis' = [redis EXCEPT !.offset = last_offset] /\ dirty' = [m \in Markets |-> FALSE]
  BY DEF FlushOffset
<1>2. /\ PriceTypeOK /\ up /\ flushing # <<>> /\ Head(flushing)[1] = "offset" /\ flushing' = Tail(flushing)
      /\ now \in Nat /\ last_offset \in Nat /\ redis.deals \in [Markets -> Seq(Nat)] /\ FlushOK
  BY <1>1, RedisFacts DEF PriceInv, PriceTypeOK, Doing, Done
<1>3. /\ flushing' = <<>>
      /\ \A s \in {"update", "last", "deals"}, m \in Markets :
            ~\E i \in 1 .. Len(flushing) : flushing[i] = <<s, m>>
  BY ONLY <1>2, FlushEndFacts
<1>4. /\ redis'.klines = redis.klines /\ redis'.last = redis.last /\ redis'.deals = redis.deals /\ redis'.offset = last_offset
      /\ redis' \in [klines : Books, last : [Markets -> Nat], deals : [Markets -> Seq(Nat)], offset : Nat]
  BY <1>1, <1>2, RedisFacts, RedisPut
<1>5. PriceTypeOK'
  <2>1. flushing' \in Seq(Steps) /\ dirty' \in [Markets -> BOOLEAN]
    BY <1>1, <1>3
  <2> QED
    BY <1>1, <1>2, <1>4, <2>1 DEF PriceTypeOK
<1>6. InThePast' /\ FlushOK'
  BY <1>1, <1>2, <1>3, <1>4 DEF PriceInv, InThePast, FlushOK
<1>7. MemoryRight'
  BY <1>1, <1>2 DEF PriceInv, MemoryRight, Consumed
<1>8. ASSUME NEW m \in Markets
      PROVE  /\ KlinesBehind(m) /\ DealsBehind(m)
             /\ update[m] = {} /\ redis.last[m] = last[m] /\ deals[m] = <<>>
  <2>1. KlinesBehind(m) /\ DealsBehind(m) /\ NothingBehind(m)
    BY <1>2 DEF PriceInv, Behind
  <2>2. ~Pending("update", m) /\ ~Pending("last", m) /\ ~Pending("deals", m)
    BY <1>2, <1>3 DEF Pending
  <2> QED
    BY <2>1, <2>2 DEF NothingBehind
<1>9. Behind'
  BY <1>1, <1>4, <1>8 DEF Behind, KlinesBehind, DealsBehind, NothingBehind, Pushed
<1>10. ASSUME NEW m \in Markets
       PROVE  RightIn(feed, redis.klines[m], redis.last[m], redis.deals[m], m, last_offset, now)
  <2>1. RightIn(feed, klines[m], last[m], deals_json[m], m, last_offset, now)
    BY <1>2, CountedFacts DEF PriceInv, MemoryRight
  <2>2. \A u \in Units, t \in Int : t >= Oldest(u, now) => SameAt(t, klines[m][u], redis.klines[m][u])
    BY <1>8 DEF KlinesBehind
  <2>3. ExplainedIn(feed, redis.klines[m], m, last_offset, now)
    BY <1>2, <2>1, <2>2, ExplainedSame DEF RightIn
  <2>4. redis.deals[m] = deals_json[m]
    BY <1>2, <1>8, PushNothing DEF DealsBehind, Pushed
  <2> QED
    BY <1>8, <2>1, <2>3, <2>4 DEF RightIn
<1>11. RedisRight'
  BY <1>1, <1>4, <1>10 DEF RedisRight
<1> QED
  BY <1>5, <1>6, <1>7, <1>9, <1>11 DEF PriceInv

-----------------------------------------------------------------------------
(* Every kline is that of its deals *)

\* A step that changes nothing.
LEMMA PriceStutter ==
    ASSUME PriceInv, UNCHANGED priceVars
    PROVE  PriceInv'
<1>1. /\ now' = now /\ feed' = feed /\ up' = up /\ position' = position /\ flushing' = flushing
      /\ redis' = redis /\ span' = span
      /\ klines' = klines /\ update' = update /\ last' = last /\ deals' = deals
      /\ deals_json' = deals_json /\ dirty' = dirty /\ last_offset' = last_offset
  BY DEF priceVars, memory
<1>2. PriceTypeOK' /\ InThePast' /\ FlushOK'
  BY <1>1 DEF PriceInv, PriceTypeOK, InThePast, FlushOK
<1>3. MemoryRight' = MemoryRight /\ RedisRight' = RedisRight
  BY <1>1 DEF MemoryRight, RedisRight, Consumed
<1>4. Behind' = Behind
  BY <1>1 DEF Behind, KlinesBehind, DealsBehind, NothingBehind, Pushed, Pending
<1> QED
  BY <1>1, <1>2, <1>3, <1>4 DEF PriceInv

\* Every kline, the last price and the list of deals of a market are those of the deals that the
\* consumer is past, each counted once, and between two flushes redis holds the same of the deals up to
\* k:offset (market_update, flush_market, clear_kline, load_market) - where the topic begins at offset 1,
\* which k:offset = 0 of a new redis stands for, and no crash comes in a flush: the two cases in which
\* the code is wrong.
THEOREM DealsAlwaysExplained ==
    ASSUME FirstOffset = 1, "crash_in_flush" \notin Faults
    PROVE  PriceSpec => []DealsExplained
<1>1. PriceInit => PriceInv
  BY PriceInitInv
<1>2. PriceInv /\ [PriceNext]_priceVars => PriceInv'
  <2> SUFFICES ASSUME PriceInv, [PriceNext]_priceVars PROVE PriceInv'
    OBVIOUS
  <2>1. CASE Tick
    BY <2>1, TickRight
  <2>2. ASSUME NEW m \in Markets, Produce(m) PROVE PriceInv'
    BY <2>2, ProduceRight
  <2>3. CASE OnDealsMessage
    BY <2>3, DealsMessageRight
  <2>4. CASE OnMarketTimer
    BY <2>4, MarketTimerRight
  <2>5. CASE FlushUpdate
    BY <2>5, FlushUpdateRight
  <2>6. CASE FlushLast
    BY <2>6, FlushLastRight
  <2>7. CASE FlushDeals
    BY <2>7, FlushDealsRight
  <2>8. CASE FlushOffset
    BY <2>8, FlushOffsetRight
  <2>9. CASE OnClearTimer
    BY <2>9, ClearTimerRight
  <2>10. CASE ClearRedis
    BY <2>10, ClearRedisRight
  <2>11. CASE Crash
    BY <2>11, CrashRight
  <2>12. CASE Start
    BY <2>12, StartRight
  <2>13. CASE UNCHANGED priceVars
    BY <2>13, PriceStutter
  <2> QED
    BY <2>1, <2>2, <2>3, <2>4, <2>5, <2>6, <2>7, <2>8, <2>9, <2>10, <2>11, <2>12, <2>13 DEF PriceNext, Flush
<1>3. PriceInv => DealsExplained
  BY PriceInvImplies
<1> QED
  BY <1>1, <1>2, <1>3, PTL DEF PriceSpec
=============================================================================
