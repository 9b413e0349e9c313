----------------------------- MODULE MEMessage -----------------------------
(***************************************************************************)
(* matchengine/me_message.c: a message goes to the bounded queue of the    *)
(* kafka producer, or, when that is full, to the list of its topic, which  *)
(* a timer of 0.1 s empties.  The producer (librdkafka, external) hands    *)
(* its queue to the broker, or gives a message up after its time-out,      *)
(* which on_delivery only logs.                                            *)
(***************************************************************************)
EXTENDS Naturals, Sequences, FiniteSets

CONSTANTS QueueMax,            \* queue.buffering.max.messages of the producer
          MaxPendingMessage,   \* MAX_PENDING_MESSAGE
          Refused,             \* the messages rd_kafka_produce refuses for another reason
          MaxGivenUp           \* bound

VARIABLES lists,      \* topic -> list_balances, list_orders, list_deals
          producer,   \* the queue of rk
          log,        \* topic -> what the broker has of it
          givenUp     \* the messages the producer gave up

messageVars == <<lists, producer, log, givenUp>>

Topics == <<"balances", "orders", "deals">>
Topic == {Topics[i] : i \in DOMAIN Topics}

InitMessage ==
    /\ lists = [t \in Topic |-> <<>>]
    /\ producer = <<>>
    /\ log = [t \in Topic |-> <<>>]
    /\ givenUp = {}

Message(topic, n) == [topic |-> topic, n |-> n]
PushBalanceMessage(n) == Message("balances", n)
PushOrderMessage(n) == Message("orders", n)
PushDealMessage(n) == Message("deals", n)

IsFull(p) == Len(p) >= QueueMax
\* rd_kafka_produce, when the queue has room.
Produced(p, msg) == IF msg \in Refused THEN p ELSE Append(p, msg)

\* out is [lists, producer].
Later(out, msg) == [out EXCEPT !.lists[msg.topic] = Append(@, msg)]
ProduceFirst(out, msg) ==
    IF IsFull(out.producer) THEN Later(out, msg)
    ELSE [out EXCEPT !.producer = Produced(@, msg)]
PushMessage(out, msg) ==
    IF out.lists[msg.topic] # <<>> THEN Later(out, msg) ELSE ProduceFirst(out, msg)

\* The messages of one operation, in its order.
PushMessages(msgs) ==
    LET pushed[i \in 0 .. Len(msgs)] ==
            IF i = 0 THEN [lists |-> lists, producer |-> producer]
            ELSE PushMessage(pushed[i - 1], msgs[i])
    IN  /\ lists' = pushed[Len(msgs)].lists
        /\ producer' = pushed[Len(msgs)].producer
        /\ UNCHANGED <<log, givenUp>>

IsMessageBlock == \E t \in Topic : Len(lists[t]) >= MaxPendingMessage

-----------------------------------------------------------------------------

DeleteEvenIfFull(out, topic) ==
    [lists |-> [out.lists EXCEPT ![topic] = <<>>],
     producer |-> IF IsFull(out.producer) \/ out.lists[topic] = <<>> THEN out.producer
                  ELSE Append(out.producer, Head(out.lists[topic]))]
\* From the head of the list until the producer is full.
ProduceList(out, topic) ==
    LET produced[i \in 0 .. Len(out.lists[topic])] ==
            LET before == produced[i - 1]
            IN  IF i = 0 THEN out
                ELSE IF IsFull(before.producer) THEN before
                ELSE [lists |-> [before.lists EXCEPT ![topic] = Tail(@)],
                      producer |-> Produced(before.producer, Head(before.lists[topic]))]
    IN  produced[Len(out.lists[topic])]

MessageTimer ==
    LET produced[i \in 0 .. Len(Topics)] ==
            IF i = 0 THEN [lists |-> lists, producer |-> producer]
            ELSE ProduceList(produced[i - 1], Topics[i])
    IN  /\ \E t \in Topic : lists[t] # <<>>
        /\ lists' = produced[Len(Topics)].lists
        /\ producer' = produced[Len(Topics)].producer
        /\ UNCHANGED <<log, givenUp>>

\* The broker has the first message of the queue.
Delivered ==
    /\ producer # <<>>
    /\ log' = [log EXCEPT ![Head(producer).topic] = Append(@, Head(producer))]
    /\ producer' = Tail(producer)
    /\ UNCHANGED <<lists, givenUp>>

\* on_delivery with rkmessage->err.
DeliveryFails ==
    /\ producer # <<>> /\ Cardinality(givenUp) < MaxGivenUp
    /\ givenUp' = givenUp \cup {Head(producer)}
    /\ producer' = Tail(producer)
    /\ UNCHANGED <<lists, log>>
=============================================================================
