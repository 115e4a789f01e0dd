---------------------------- MODULE TradingEngine ----------------------------
(***************************************************************************)
(* The trading engine behind the bus: attachEngine, TradingEngine.trade,   *)
(* the executors with the worker's guards, and applyTrade on the position  *)
(* book.  buy.requested and sell.requested are two subscriptions, so there *)
(* are two loops, each with one intent at a time, interleaving at every    *)
(* await.  The loop is named by the side it serves.                        *)
(*                                                                         *)
(* A position is its amount and cost basis: an absent row and a row of     *)
(* zeros are the same to every operation here, so both are Flat.           *)
(***************************************************************************)
EXTENDS Integers, FiniteSets, FiniteSetsExt

CONSTANTS
  Token, Intent,
  SideOf, TokenOf, AmountOf,  \* of an intent: side, token and amountIn.raw
  Simulated,    \* of an intent: the book its rule was stamped with
  Live,         \* the executor's mode
  Fill,         \* amounts a trade may return
  ColumnMax,    \* the largest int64: the book's columns are bigint
  MaxOpen,      \* maxOpenPositions, 0 = unlimited
  MaxTotal,     \* maxTotalNotionalWei, 0 = unlimited
  MaxNotional,  \* the per-trade cap of live mode
  MaxRetries,   \* maxRetries of the engine
  DeliveriesOf,  \* bound: times the bus delivers each intent
  MaxFaults      \* bound: failed calls after which the engine cannot answer truly, and restarts

ASSUME EngineAssumption ==
  /\ IsFiniteSet(Token) /\ Intent # {}
  /\ SideOf \in [Intent -> {"buy", "sell"}] /\ TokenOf \in [Intent -> Token]
  /\ AmountOf \in [Intent -> Nat \ {0}] /\ Simulated \in [Intent -> BOOLEAN]
  /\ Live \in BOOLEAN /\ Fill \subseteq Nat /\ ColumnMax \in Nat
  /\ MaxOpen \in Nat /\ MaxTotal \in Nat /\ MaxNotional \in Nat /\ MaxRetries \in Nat
  /\ DeliveriesOf \in [Intent -> Nat] /\ MaxFaults \in Nat

VARIABLES
  pc,        \* where each loop is
  job,       \* the intent each loop has in hand
  attempt,   \* attempts already failed with an InfraError
  out,       \* amountOut of the trade being folded
  seen,      \* the position applyTrade read
  done,      \* #done: the result cached for each intent
  book,      \* the position store: a book for each value of `simulated`
  delivered, \* history: deliveries of each intent
  fills,     \* history: how often each intent really traded
  ledger,    \* history: the fills folded one by one, as they happened
  astray,    \* history: tokens traded by both loops at once, or with a fill that does not fit
  answer,    \* history: the last outcome published for each intent
  restarts,  \* history: restarts of the process
  faults

loopVars == <<pc, job, attempt, out, seen>>
history  == <<delivered, fills, ledger, astray, answer, restarts>>
vars     == <<loopVars, done, book, history, faults>>

Side     == {"buy", "sell"}
Flat     == [amount |-> 0, cost |-> 0]
Position == [amount : Nat, cost : Nat]
Folding  == {"read", "write"}
Phases   == {"idle", "gate", "guard", "execute", "publish"} \cup Folding
Results  == {"none", "executed", "rejected", "failed"}

(* What job holds before the first intent.                                 *)
SomeIntent == CHOOSE i \in Intent : TRUE

TokenIn(l) == TokenOf[job[l]]

Goto(l, label) == pc' = [pc EXCEPT ![l] = label]

(* The handler returns, or throws to the bus.                              *)
Return(l) == /\ Goto(l, "idle")
             /\ job' = [job EXCEPT ![l] = SomeIntent]
             /\ attempt' = [attempt EXCEPT ![l] = 0]

(* trade() is about to return r: cache it; the loop publishes it next.     *)
Conclude(l, r) == done' = [done EXCEPT ![job[l]] = r] /\ Goto(l, "publish")

Fault == faults < MaxFaults /\ faults' = faults + 1

OpenIn(s) == {t \in Token : book[s][t].amount > 0}
Deployed(s) == SumFunctionOnSet([t \in Token |-> book[s][t].cost], OpenIn(s))

Init ==
  /\ pc = [l \in Side |-> "idle"]
  /\ job = [l \in Side |-> SomeIntent]
  /\ attempt = [l \in Side |-> 0] /\ out = [l \in Side |-> 0]
  /\ seen = [l \in Side |-> Flat]
  /\ done = [i \in Intent |-> "none"]
  /\ book = [s \in BOOLEAN |-> [t \in Token |-> Flat]]
  /\ delivered = [i \in Intent |-> 0] /\ fills = [i \in Intent |-> 0]
  /\ ledger = [t \in Token |-> Flat] /\ astray = {}
  /\ answer = [i \in Intent |-> "none"] /\ restarts = 0 /\ faults = 0

(* Mutant of Deliver: the handler trades without asking the cache.         *)
DeliverAfresh(l, i) ==
  /\ pc[l] = "idle" /\ SideOf[i] = l /\ delivered[i] < DeliveriesOf[i]
  /\ delivered' = [delivered EXCEPT ![i] = @ + 1]
  /\ \/ answer' = [answer EXCEPT ![i] = "failed"] /\ UNCHANGED loopVars
     \/ /\ job' = [job EXCEPT ![l] = i]
        /\ Goto(l, IF l = "buy" THEN "gate" ELSE "execute")
        /\ UNCHANGED <<attempt, out, seen, answer>>
  /\ UNCHANGED <<done, book, fills, ledger, astray, restarts, faults>>

(* The bus calls the handler with an intent, perhaps not for the first     *)
(* time.  resolvePool may know no pool; trade() returns a cached result.   *)
Deliver(l, i) ==
  /\ pc[l] = "idle" /\ SideOf[i] = l /\ delivered[i] < DeliveriesOf[i]
  /\ delivered' = [delivered EXCEPT ![i] = @ + 1]
  /\ \/ answer' = [answer EXCEPT ![i] = "failed"] /\ UNCHANGED loopVars
     \/ /\ job' = [job EXCEPT ![l] = i]
        /\ Goto(l, CASE done[i] # "none" -> "publish"
                      [] done[i] = "none" /\ l = "buy" -> "gate"
                      [] OTHER -> "execute")
        /\ UNCHANGED <<attempt, out, seen, answer>>
  /\ UNCHANGED <<done, book, fills, ledger, astray, restarts, faults>>

(* preTradeCheck of a buy: the Shield's verdict lets it pass or rejects it. *)
Gate(l) ==
  /\ pc[l] = "gate"
  /\ \/ Goto(l, "guard") /\ UNCHANGED done
     \/ Conclude(l, "rejected")
  /\ UNCHANGED <<job, attempt, out, seen, book, history, faults>>

(* preTradeCheck throws: so does the handler, and nothing is cached.       *)
GateThrows(l) ==
  /\ pc[l] = "gate" /\ Fault
  /\ Return(l)
  /\ UNCHANGED <<out, seen, done, book, history>>

(* Mutants of WithinLimits: one position too many; the buy itself not      *)
(* counted in the quote deployed.                                          *)
WithinLimitsOneMore(i) ==
  LET s == Simulated[i] IN
  /\ (MaxOpen > 0 /\ TokenOf[i] \notin OpenIn(s)) => Cardinality(OpenIn(s)) <= MaxOpen
  /\ MaxTotal > 0 => Deployed(s) + AmountOf[i] <= MaxTotal
  /\ Live => AmountOf[i] <= MaxNotional

WithinLimitsBefore(i) ==
  LET s == Simulated[i] IN
  /\ (MaxOpen > 0 /\ TokenOf[i] \notin OpenIn(s)) => Cardinality(OpenIn(s)) < MaxOpen
  /\ MaxTotal > 0 => Deployed(s) <= MaxTotal
  /\ Live => AmountOf[i] <= MaxNotional

(* withPortfolioLimits over the positions listed in the intent's book,     *)
(* then withNotionalCap, which wraps the live executor only.               *)
WithinLimits(i) ==
  LET s == Simulated[i] IN
  /\ (MaxOpen > 0 /\ TokenOf[i] \notin OpenIn(s)) => Cardinality(OpenIn(s)) < MaxOpen
  /\ MaxTotal > 0 => Deployed(s) + AmountOf[i] <= MaxTotal
  /\ Live => AmountOf[i] <= MaxNotional

(* An attempt at a buy starts with the guards (sells pass them by); a      *)
(* breach is a domain error, which is not retried.                         *)
Guard(l) ==
  /\ pc[l] = "guard"
  /\ IF WithinLimits(job[l])
     THEN Goto(l, "execute") /\ UNCHANGED done
     ELSE Conclude(l, "failed")
  /\ UNCHANGED <<job, attempt, out, seen, book, history, faults>>

(* What applyTrade makes of position p for a trade of `amountIn` for       *)
(* `amountOut`; a buy adds, a sell takes its share of the cost.            *)
AddBuy(p, amountIn, amountOut) ==
  [amount |-> p.amount + amountOut, cost |-> p.cost + amountIn]

(* Mutant of TakeSell: the cost basis stays when a part is sold.           *)
TakeSellKeepsCost(p, amountIn) ==
  [p EXCEPT !.amount = IF amountIn <= @ THEN @ - amountIn ELSE 0]

TakeSell(p, amountIn) ==
  LET sold == IF amountIn <= p.amount THEN amountIn ELSE p.amount
  IN  IF p.amount = 0 THEN p
      ELSE IF sold = p.amount THEN Flat
      ELSE [amount |-> p.amount - sold, cost |-> p.cost - (p.cost * sold) \div p.amount]

Folded(l, p, amountIn, amountOut) ==
  IF l = "buy" THEN AddBuy(p, amountIn, amountOut) ELSE TakeSell(p, amountIn)

(* Reference for the history: the fill taken into account at once.  What   *)
(* is left of a position keeps its share of the cost, rounded up.          *)
Settled(l, p, amountIn, amountOut) ==
  CASE l = "buy" -> [amount |-> p.amount + amountOut, cost |-> p.cost + amountIn]
    [] l = "sell" /\ amountIn >= p.amount -> IF p.amount = 0 THEN p ELSE Flat
    [] OTHER -> [amount |-> p.amount - amountIn,
                 cost |-> p.cost - ((p.cost * amountIn) \div p.amount)]

Other(l) == IF l = "buy" THEN "sell" ELSE "buy"

(* The trade really happens: on the chain, or against the quote on paper.  *)
Trades(l, amountOut) ==
  LET t == TokenIn(l) IN
  /\ fills' = [fills EXCEPT ![job[l]] = @ + 1]
  /\ ledger' = [ledger EXCEPT ![t] = Settled(l, @, AmountOf[job[l]], amountOut)]
  /\ astray' = astray \cup {u \in {t} : pc[Other(l)] \in Folding /\ TokenIn(Other(l)) = u}
  /\ UNCHANGED <<delivered, answer, restarts>>

Executes(l) ==
  /\ pc[l] = "execute"
  /\ \E amountOut \in Fill :
       Trades(l, amountOut) /\ out' = [out EXCEPT ![l] = amountOut]
  /\ Goto(l, "read")
  /\ UNCHANGED <<job, attempt, seen, done, book, faults>>

(* The quote, the slippage floor, the signature or the receipt refuses: a  *)
(* DomainError, or any other error that is not an InfraError.              *)
Refused(l) ==
  /\ pc[l] = "execute"
  /\ Conclude(l, "failed")
  /\ UNCHANGED <<job, attempt, out, seen, book, history, faults>>

(* Mutant of InfraFails: the attempts are not counted.                     *)
InfraFailsAgain(l) ==
  /\ pc[l] = "execute"
  /\ Goto(l, IF l = "buy" THEN "guard" ELSE "execute")
  /\ UNCHANGED <<job, attempt, out, seen, done, book, history, faults>>

(* An InfraError before anything was sent: try again, guards included,     *)
(* until the attempts are used up.                                         *)
InfraFails(l) ==
  /\ pc[l] = "execute"
  /\ \/ /\ attempt[l] = MaxRetries
        /\ Conclude(l, "failed") /\ UNCHANGED attempt
     \/ /\ attempt[l] < MaxRetries
        /\ attempt' = [attempt EXCEPT ![l] = @ + 1]
        /\ Goto(l, IF l = "buy" THEN "guard" ELSE "execute") /\ UNCHANGED done
  /\ UNCHANGED <<job, out, seen, book, history, faults>>

(* Live: the swap is mined, and the receipt cannot be read.                *)
ReceiptLost(l) ==
  /\ Live /\ pc[l] = "execute" /\ Fault
  /\ \E amountOut \in Fill : Trades(l, amountOut)
  /\ Conclude(l, "failed")
  /\ UNCHANGED <<job, attempt, out, seen, book>>

(* applyTrade, first half: the book of the executor's mode is read.        *)
ReadPosition(l) ==
  /\ pc[l] = "read"
  /\ seen' = [seen EXCEPT ![l] = book[~Live][TokenIn(l)]]
  /\ Goto(l, "write")
  /\ UNCHANGED <<job, attempt, out, done, book, history, faults>>

(* applyTrade, second half: upsert or remove, from what was read; nothing  *)
(* when what is sold is not tracked.  The database refuses a number its    *)
(* column cannot hold.                                                     *)
Record(l) == Folded(l, seen[l], AmountOf[job[l]], out[l])
Fits(p) == p.amount <= ColumnMax /\ p.cost <= ColumnMax

Fold(l) ==
  IF l = "sell" /\ seen[l].amount = 0
  THEN UNCHANGED book
  ELSE Fits(Record(l)) /\ book' = [book EXCEPT ![~Live][TokenIn(l)] = Record(l)]

Forget(l) == seen' = [seen EXCEPT ![l] = Flat] /\ out' = [out EXCEPT ![l] = 0]

WritePosition(l) ==
  /\ pc[l] = "write"
  /\ Fold(l) /\ Forget(l)
  /\ Conclude(l, "executed")
  /\ UNCHANGED <<job, attempt, history, faults>>

(* An upsert refused is an error like any other: the trade, which did      *)
(* happen, is reported failed.                                             *)
WriteRefused(l) ==
  /\ pc[l] = "write" /\ ~Fits(Record(l))
  /\ Forget(l) /\ Conclude(l, "failed")
  /\ astray' = astray \cup {TokenIn(l)}
  /\ UNCHANGED <<job, attempt, book, delivered, fills, ledger, answer, restarts, faults>>

(* The store fails, the row changed or not: the error is no InfraError, so *)
(* the trade, which did happen, is reported failed.                        *)
StoreFails(l) ==
  /\ pc[l] \in Folding /\ Fault
  /\ UNCHANGED book \/ (pc[l] = "write" /\ Fold(l))
  /\ Forget(l) /\ Conclude(l, "failed")
  /\ UNCHANGED <<job, attempt, history>>

(* trade.executed or trade.failed goes out and the handler returns.        *)
Publish(l) ==
  /\ pc[l] = "publish"
  /\ answer' = [answer EXCEPT ![job[l]] = done[job[l]]]
  /\ Return(l)
  /\ UNCHANGED <<out, seen, done, book, delivered, fills, ledger, astray, restarts, faults>>

(* The bus refuses the event: the handler throws.                          *)
PublishFails(l) ==
  /\ pc[l] = "publish" /\ Fault
  /\ Return(l)
  /\ UNCHANGED <<out, seen, done, book, history>>

(* The process restarts: the loops and the cache are gone, the book stays. *)
Restart ==
  /\ Fault
  /\ pc' = [l \in Side |-> "idle"] /\ job' = [l \in Side |-> SomeIntent]
  /\ attempt' = [l \in Side |-> 0] /\ out' = [l \in Side |-> 0]
  /\ seen' = [l \in Side |-> Flat] /\ done' = [i \in Intent |-> "none"]
  /\ restarts' = restarts + 1
  /\ UNCHANGED <<book, delivered, fills, ledger, astray, answer>>

Work(l) == \/ Gate(l) \/ Guard(l) \/ Executes(l) \/ Refused(l) \/ InfraFails(l)
           \/ ReadPosition(l) \/ WritePosition(l) \/ WriteRefused(l) \/ Publish(l)

Failure(l) == GateThrows(l) \/ ReceiptLost(l) \/ StoreFails(l) \/ PublishFails(l)

Next == \/ Restart
        \/ \E l \in Side : Work(l) \/ Failure(l) \/ \E i \in Intent : Deliver(l, i)

(* The awaits of a handler settle: quotes, receipts and stores answer or   *)
(* fail, and the bus calls a handler again only when it has returned.      *)
FairSpec == Init /\ [][Next]_vars /\ \A l \in Side : WF_vars(Work(l))
Spec     == Init /\ [][Next]_vars

-----------------------------------------------------------------------------
TypeOK ==
  /\ pc \in [Side -> Phases]
  /\ job \in [Side -> Intent]
  /\ \A l \in Side : pc[l] # "idle" => SideOf[job[l]] = l
  /\ attempt \in [Side -> 0..MaxRetries]
  /\ out \in [Side -> Nat] /\ seen \in [Side -> Position]
  /\ done \in [Intent -> Results] /\ answer \in [Intent -> Results]
  /\ book \in [BOOLEAN -> [Token -> Position]]
  /\ delivered \in [Intent -> Nat] /\ fills \in [Intent -> Nat]
  /\ ledger \in [Token -> Position] /\ astray \subseteq Token
  /\ restarts \in Nat /\ faults \in 0..MaxFaults

(* Never more open positions than the ceiling, although the guard reads    *)
(* the book several awaits before the buy is written to it, and sells      *)
(* rewrite it meanwhile.                                                   *)
OpenPositionsWithinCap ==
  MaxOpen > 0 => \A s \in BOOLEAN : Cardinality(OpenIn(s)) <= MaxOpen

(* Nor more quote deployed in open positions than the total ceiling.       *)
DeployedWithinCap ==
  MaxTotal > 0 => \A s \in BOOLEAN : Deployed(s) <= MaxTotal

(* One intent trades at most once in the life of a process, through every  *)
(* retry and redelivery, and whatever call of the handler fails: the cache *)
(* of results is all there is against a second trade.                      *)
SettledAtMostOnce == \A i \in Intent : fills[i] <= 1 + restarts

(* When no fold of a token is under way, its position is what its fills,   *)
(* taken in the order they happened, amount to - unless the two loops      *)
(* traded it at once, or one of its fills did not fit the book's columns.  *)
BookMatchesFills ==
  faults = 0 =>
    \A t \in Token \ astray :
      (\A l \in Side : pc[l] \in Folding => TokenIn(l) # t) => book[~Live][t] = ledger[t]

(* Every delivered intent ends in trade.executed or trade.failed.          *)
EveryIntentAnswered ==
  \A i \in Intent : delivered[i] > 0 ~> (answer[i] # "none" \/ faults > 0)

(* engine.ts:47 says a trade is executed and folded into the position      *)
(* book: an intent whose result is `failed` did not trade.                 *)
FailedDidNotTrade ==
  faults = 0 => \A i \in Intent : done[i] = "failed" => fills[i] = 0
==============================================================================
