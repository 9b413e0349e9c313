----------------------------- MODULE MCMPMarket -----------------------------
(* Small instances of MPMarket and MPServer for TLC. *)
EXTENDS MPServer
\* Every second of an hour and one more; two markets; days, two days and more than LookBack
\* between deals and answers; and a command of each kind out of the reply cache.
MCSpans == {[markets |-> {"BTC"}, times |-> 1 .. 5, asked |-> {}],
            [markets |-> {"BTC", "ETH"}, times |-> 1 .. 2, asked |-> {}],
            [markets |-> {"BTC"}, times |-> {7, 8, 17}, asked |-> {}],
            [markets |-> {"BTC"}, times |-> {1, 3}, asked |-> {StatusRequest("BTC", 2)}],
            [markets |-> {"BTC"}, times |-> {1, 2}, asked |-> {KlineRequest("BTC", 1, 9, 2)}],
            [markets |-> {"BTC"}, times |-> {1, 3}, asked |-> {TodayRequest("BTC")}]}
MCMonthStarts == {0, 8, 24}
=============================================================================
