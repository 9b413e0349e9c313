------------------------------ MODULE UtKafka ------------------------------
(***************************************************************************)
(* utils/ut_kafka.c: the consumers, one for each topic.  The thread of a   *)
(* consumer fetches from the broker and adds to the head of a list under a *)
(* lock; the event loop of the process takes from the tail and runs the    *)
(* callback with the lock held.                                            *)
(***************************************************************************)
EXTENDS Naturals, Sequences

CONSTANTS Consumer,   \* the topics consumed
          Limit       \* consumer->limit

VARIABLES fetched,    \* consumer->list, its head first
          offset,     \* how much of the topic the thread has fetched
          awake,      \* the consumers with a byte in their pipe
          reading,    \* the consumers whose on_can_read runs
          handled     \* what the callback was given, in order

kafkaVars == <<fetched, offset, awake, reading, handled>>

KafkaConsumerCreate ==
    /\ fetched = [c \in Consumer |-> <<>>]
    /\ offset = [c \in Consumer |-> 0]
    /\ handled = [c \in Consumer |-> <<>>]
    /\ awake = {} /\ reading = {}

\* thread_routine; topicLog is what the broker has.  An error of the broker and an
\* empty fetch change nothing.
ThreadRoutine(c, topicLog) ==
    /\ Len(fetched[c]) < Limit /\ offset[c] < Len(topicLog)
    /\ fetched' = [fetched EXCEPT ![c] = <<topicLog[offset[c] + 1]>> \o @]
    /\ offset' = [offset EXCEPT ![c] = @ + 1]
    /\ awake' = awake \cup {c}
    /\ UNCHANGED <<reading, handled>>

\* on_can_read: the pipe first, then the list.
OnCanRead(c) ==
    /\ c \in awake /\ c \notin reading
    /\ awake' = awake \ {c} /\ reading' = reading \cup {c}
    /\ UNCHANGED <<fetched, offset, handled>>

Callback(c) ==
    /\ c \in reading /\ fetched[c] # <<>>
    /\ handled' = [handled EXCEPT ![c] = Append(@, fetched[c][Len(fetched[c])])]
    /\ fetched' = [fetched EXCEPT ![c] = SubSeq(@, 1, Len(@) - 1)]
    /\ UNCHANGED <<offset, awake, reading>>

ListEmpty(c) ==
    /\ c \in reading /\ fetched[c] = <<>>
    /\ reading' = reading \ {c}
    /\ UNCHANGED <<fetched, offset, awake, handled>>
============================================================================
