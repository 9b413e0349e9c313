------------------------------- MODULE MCUser -------------------------------
(* A small instance of AWUser for TLC. *)
EXTENDS AWUser, TLC

CONSTANTS s1, s2

Sessions2 == {s1, s2}
SlotSymmetry == Permutations(Sessions2)

\* Two tokens are looked up at a time before the first change, one at a time until
\* the second: they end in either order, and events find what they have left.
FewAtOnce == jobs # {} => Cardinality(jobs) + Pushed <= MaxJobs

TradedFor == [BTCUSD |-> <<"BTC", "USD">>]
=============================================================================
