----------------------------- MODULE MCMEOutput -----------------------------
EXTENDS MEOutput
Order(u, i) == [user |-> u, id |-> i]
Op(do, maker, taker, finished) == [do |-> do, maker |-> maker, taker |-> taker, finished |-> finished]
NoOrder == Order(0, 0)
Put == Op("put", Order(1, 1), NoOrder, {})
Update(u) == Op("update", Order(u, 0), NoOrder, {})
Cancel(o) == Op("cancel", o, NoOrder, {o.id})
\* Four messages of one topic against a queue of one; orders of one user, whose tables
\* by user and by order differ.
MCPlans == {<<Put, Put, Put, Put>>,
            <<Update(1), Update(2), Update(1)>>,
            <<Op("trade", Order(2, 1), Order(2, 3), {})>>,
            <<Cancel(Order(2, 1)), Cancel(Order(2, 3))>>}
MCRefused == {PushOrderMessage(3)}
=============================================================================
