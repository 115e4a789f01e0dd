--------------------------- MODULE MCTradingEngine ---------------------------
(***************************************************************************)
(* TradingEngine for TLC: two buys of one token, a buy of another, and a   *)
(* sell of part of the first.                                              *)
(***************************************************************************)
EXTENDS TradingEngine

CONSTANTS t1, t2, buy1, more1, buy2, sell1

MCToken  == {t1, t2}
MCIntent == {buy1, more1, buy2, sell1}
MCSideOf == [i \in MCIntent |-> IF i = sell1 THEN "sell" ELSE "buy"]
MCTokenOf == [i \in MCIntent |-> IF i = buy2 THEN t2 ELSE t1]
MCAmountOf == [i \in MCIntent |-> IF i = more1 THEN 2 ELSE 1]
MCSimulated == [i \in MCIntent |-> FALSE]
MCDeliveriesOf == [i \in MCIntent |-> IF i = buy1 THEN 2 ELSE 1]
=============================================================================
