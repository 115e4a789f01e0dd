------------------------------- MODULE MCWorker -------------------------------
(***************************************************************************)
(* Worker for TLC: a snipe, a take-profit at +50% and, as the stop, a      *)
(* trailing stop of 30% or a stop-loss at -30%.                            *)
(***************************************************************************)
EXTENDS Worker

CONSTANTS snipe, tp, trail, sl

MCParams == [r \in Rule |->
  CASE r = snipe -> [type |-> "snipe", quoteAmount |-> 1]
    [] r = tp    -> [type |-> "take-profit", gainBps |-> 5000, sellFractionBps |-> 10000]
    [] r = trail -> [type |-> "trailing-stop", trailingBps |-> 3000, sellFractionBps |-> 10000]
    [] r = sl    -> [type |-> "stop-loss", lossBps |-> 3000, sellFractionBps |-> 10000]]
=============================================================================
