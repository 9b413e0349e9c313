------------------------------- MODULE MCPush -------------------------------
(* Small instances of AWPush for TLC. *)
EXTENDS AWPush, TLC

CONSTANTS s1, s2, BTC, ETH

Sessions2 == {s1, s2}
On(topic, markets, values) == [topics |-> {topic}, markets |-> markets, values |-> values]
MCInstances ==
    {On("today", {BTC, ETH}, {1})}
        \cup {On(t, {BTC}, {1, 2}) : t \in AllTopics} \cup {On(t, {ETH}, {1}) : t \in AllTopics}
OnlyState == {On("state", {BTC}, {1})}
=============================================================================
