----------------------------- MODULE MCAWDepth -----------------------------
(* A small instance of AWDepth for TLC. *)
EXTENDS AWDepth

\* Two keys of one market, one merged, and one of a market that does not exist.
SomeKeys == <<[known |-> TRUE, interval |-> 0, limit |-> 2],
              [known |-> TRUE, interval |-> 2, limit |-> 1],
              [known |-> FALSE, interval |-> 0, limit |-> 1]>>
\* Many subscriptions and one change of the book; or the other way round, with two bids that
\* the merged key joins.
SomeStarts ==
    LET start(b, c, n) == [asks |-> <<<<6, 2>>, <<7, 1>>>>, bids |-> b, changes |-> c, moves |-> n]
    IN  {start(<<<<2, 2>>>>, 1, 2), start(<<<<3, 1>>, <<2, 1>>>>, 2, 1)}
=============================================================================
