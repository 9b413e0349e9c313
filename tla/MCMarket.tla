------------------------------ MODULE MCMarket ------------------------------
(* Small instances of MEMarket for TLC. *)
EXTENDS MEServer, TLC

CONSTANTS u1, u2

\* Both users hold stock and money, so that matches with others and with
\* oneself both happen.
MCUsers == {u1, u2}
MCBalance ==
    [k \in MCUsers \X {"AVAILABLE", "FREEZE"} \X {"stock", "money"} |->
        CASE k[2] = "FREEZE" -> 0
          [] k = <<u2, "AVAILABLE", "stock">> -> FeeOne
          [] k[3] = "stock" -> 3 * FeeOne
          [] OTHER -> 5 * FeeOne]

MCShown == [a \in Assets |-> IF a = "stock" THEN 2 ELSE 4]
MCFees == {<<1, 0>>}
MCChanges == {<<"stock", 3>>, <<"money", -8>>}
=============================================================================
