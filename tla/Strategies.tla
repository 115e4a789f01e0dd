------------------------------ MODULE Strategies ------------------------------
(***************************************************************************)
(* The six strategies of packages/strategies-core/src/strategies.ts: what  *)
(* a rule decides, given its stored state, a price (NoPrice when the quote *)
(* failed or returned nothing), the amount held and the time.              *)
(*                                                                         *)
(* A decision names the intent to emit, if any, and the state to store.    *)
(* Every list of actions the code returns changes the state, so a decision *)
(* that keeps it stands for the empty list.                                *)
(***************************************************************************)
EXTENDS Integers

BPS      == 10000
NoPrice  == -1
NoIntent == [side |-> "none", amount |-> 0]

Buy(amount)  == [side |-> "buy", amount |-> amount]
Sell(amount) == [side |-> "sell", amount |-> amount]

Statuses == {"absent", "active", "triggered", "done"}
Exits    == {"take-profit", "stop-loss", "trailing-stop"}
Types    == Exits \cup {"limit", "dca", "snipe"}

(* StrategyState: the fields a strategy has not set yet are 0 or FALSE.    *)
(* The entry price is a parameter, but the one that is stored anew with    *)
(* the state at every fill, so it is kept with it.                         *)
Stored(entryPrice) ==
  [status |-> "active", entryPrice |-> entryPrice, highWaterMark |-> 0, dcaCount |-> 0,
   nextDcaAt |-> 0, sniped |-> FALSE]
Fresh == Stored(0)

Wait(st)              == [intent |-> NoIntent, next |-> st]
Retire(st)            == [intent |-> NoIntent, next |-> [st EXCEPT !.status = "done"]]
Trigger(st, intent)   == [intent |-> intent, next |-> [st EXCEPT !.status = "triggered"]]

SellFraction(held, fraction) == (held * fraction) \div BPS

SellFractionActions(p, st, held) ==
  LET amount == SellFraction(held, p.sellFractionBps)
  IN  IF amount = 0 THEN Wait(st) ELSE Trigger(st, Sell(amount))

Limit(p, st, price, held) ==
  LET crossed == IF p.direction = "above" THEN price >= p.triggerPrice
                                          ELSE price <= p.triggerPrice
      toSell  == IF p.amount < held THEN p.amount ELSE held
  IN  CASE price = NoPrice \/ ~crossed -> Wait(st)
        [] price # NoPrice /\ crossed /\ p.side = "buy" -> Trigger(st, Buy(p.amount))
        [] OTHER -> IF held = 0 THEN Wait(st) ELSE Trigger(st, Sell(toSell))

(* Mutant of TakeProfit: the target is to be passed, not only reached.     *)
TakeProfitPassed(p, st, price, held) ==
  LET target == (st.entryPrice * (BPS + p.gainBps)) \div BPS
  IN  CASE held = 0 -> Retire(st)
        [] held # 0 /\ (price = NoPrice \/ price <= target) -> Wait(st)
        [] OTHER -> SellFractionActions(p, st, held)

(* The exits share their first two lines: a closed position retires the    *)
(* rule, and without a price there is nothing to do yet.                   *)
TakeProfit(p, st, price, held) ==
  LET target == (st.entryPrice * (BPS + p.gainBps)) \div BPS
  IN  CASE held = 0 -> Retire(st)
        [] held # 0 /\ (price = NoPrice \/ price < target) -> Wait(st)
        [] OTHER -> SellFractionActions(p, st, held)

(* Mutant of StopLoss: the price is looked at first.                       *)
StopLossPricedFirst(p, st, price, held) ==
  LET floor == (st.entryPrice * (BPS - p.lossBps)) \div BPS
  IN  IF price = NoPrice \/ price > floor THEN Wait(st) ELSE SellFractionActions(p, st, held)

StopLoss(p, st, price, held) ==
  LET floor == (st.entryPrice * (BPS - p.lossBps)) \div BPS
  IN  CASE held = 0 -> Retire(st)
        [] held # 0 /\ (price = NoPrice \/ price > floor) -> Wait(st)
        [] OTHER -> SellFractionActions(p, st, held)

TrailingStop(p, st, price, held) ==
  LET high == IF price > st.highWaterMark THEN price ELSE st.highWaterMark
      stop == (high * (BPS - p.trailingBps)) \div BPS
  IN  CASE held = 0 -> Retire(st)
        [] held # 0 /\ price = NoPrice -> Wait(st)
        [] held # 0 /\ price # NoPrice /\ price <= stop /\ high > 0
             -> SellFractionActions(p, st, held)
        [] OTHER -> [intent |-> NoIntent, next |-> [st EXCEPT !.highWaterMark = high]]

Dca(p, st, now) ==
  LET bought == st.dcaCount + 1
  IN  CASE st.dcaCount >= p.totalBuys -> Retire(st)
        [] st.dcaCount < p.totalBuys /\ now < st.nextDcaAt -> Wait(st)
        [] OTHER -> [intent |-> Buy(p.amountPerBuy),
                     next |-> [st EXCEPT !.dcaCount = bought, !.nextDcaAt = now + p.intervalMs,
                               !.status = IF bought >= p.totalBuys THEN "done" ELSE @]]

Snipe(p, st, price, held) ==
  IF st.sniped \/ st.status # "active" \/ held > 0 \/ price = NoPrice
  THEN Wait(st)
  ELSE [intent |-> Buy(p.quoteAmount), next |-> [st EXCEPT !.sniped = TRUE, !.status = "triggered"]]

(* defaultStrategies: the strategy of each rule type.                      *)
Evaluate(p, st, price, held, now) ==
  CASE p.type = "limit"         -> Limit(p, st, price, held)
    [] p.type = "take-profit"   -> TakeProfit(p, st, price, held)
    [] p.type = "stop-loss"     -> StopLoss(p, st, price, held)
    [] p.type = "trailing-stop" -> TrailingStop(p, st, price, held)
    [] p.type = "dca"           -> Dca(p, st, now)
    [] p.type = "snipe"         -> Snipe(p, st, price, held)
=============================================================================
