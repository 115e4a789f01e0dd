--------------------------- MODULE MCStrategyRunner ---------------------------
(***************************************************************************)
(* StrategyRunner for TLC: a limit buy, a stop-loss and a DCA rule (the    *)
(* snipe, the take-profit and the trailing stop are the worker's).         *)
(***************************************************************************)
EXTENDS StrategyRunner

CONSTANTS limit, sl, dca, snipe

MCParams == [r \in Rule |->
  CASE r = limit -> [type |-> "limit", side |-> "buy", direction |-> "below",
                     triggerPrice |-> 10, amount |-> 1]
    [] r = sl    -> [type |-> "stop-loss", lossBps |-> 3000, sellFractionBps |-> 5000]
    [] r = dca   -> [type |-> "dca", amountPerBuy |-> 1, intervalMs |-> 1, totalBuys |-> 2]
    [] r = snipe -> [type |-> "snipe", quoteAmount |-> 1]]
=============================================================================
