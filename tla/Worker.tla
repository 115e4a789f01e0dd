-------------------------------- MODULE Worker --------------------------------
(***************************************************************************)
(* The trading loop of apps/worker for one token: the sniper arms a snipe  *)
(* rule when a pool of the token is detected, the strategy runner turns    *)
(* rules into intents, the engine into trades, and the exit armer stores a *)
(* take-profit and a stop for every buy.  The parts share the strategies   *)
(* table, the book and the in-memory PoolRegistry, and talk over topics    *)
(* that outlive the process; what a handler was working on does not        *)
(* (RedisEventBus).  The engine's own steps are those of TradingEngine;    *)
(* here a trade is one step and may fail.                                  *)
(***************************************************************************)
EXTENDS StrategyRunner, Sequences

CONSTANTS
  Fill,       \* tokens a buy yields
  MaxPools,   \* bound: pools detected
  MaxFailures \* bound: trades that fail

ASSUME WorkerAssumption ==
  /\ Fill \in Held \ {0} /\ MaxPools \in Nat /\ MaxFailures \in Nat
  /\ \E r \in Rule : Type(r) = "snipe"
  /\ \E r \in Rule : Type(r) = "take-profit"
  /\ \E r \in Rule : Type(r) \in Exits \ {"take-profit"}

VARIABLES
  pools,     \* token.detected: how many so far
  detected,  \* ... and how many the sniper has not read
  sniper,    \* "idle", or "arming" once it found no rule
  registry,  \* PoolRegistry: is the token's pool known
  requests,  \* buy.requested and sell.requested: amounts not read yet
  trading,   \* the request each subscription of the engine works on
  fills,     \* trade.executed of buys: entry prices not read yet
  armer,     \* what the exit armer is doing, and for which entry price
  failures   \* trades answered by trade.failed although the pool was known

workerVars == <<pools, detected, sniper, registry, requests, trading, fills, armer, failures>>
allVars    == <<vars, workerVars>>

Sides  == {"buy", "sell"}
Resting == [step |-> "idle", entry |-> 0]
SnipeRule == CHOOSE r \in Rule : Type(r) = "snipe"
ProfitRule == CHOOSE r \in Rule : Type(r) = "take-profit"
StopRule  == CHOOSE r \in Rule : Type(r) \in Exits \ {"take-profit"}

WorkerInit ==
  /\ Rested
  /\ store = [r \in Rule |-> Absent] /\ armed = [r \in Rule |-> 0]
  /\ pools = 0 /\ detected = 0 /\ sniper = "idle" /\ registry = FALSE
  /\ requests = [s \in Sides |-> <<>>] /\ trading = [s \in Sides |-> NoIntent]
  /\ fills = <<>> /\ armer = Resting /\ failures = 0

(* The scanner publishes token.detected.                                   *)
Detect ==
  /\ pools < MaxPools
  /\ pools' = pools + 1 /\ detected' = detected + 1
  /\ UNCHANGED <<vars, sniper, registry, requests, trading, fills, armer, failures>>

(* Mutant of SniperLooks: the store is not asked for the rule.             *)
SniperDoesNotLook ==
  /\ sniper = "idle" /\ detected > 0
  /\ detected' = detected - 1 /\ registry' = TRUE
  /\ sniper' = "arming"
  /\ UNCHANGED <<vars, pools, requests, trading, fills, armer, failures>>

SniperLooks ==
  /\ sniper = "idle" /\ detected > 0
  /\ detected' = detected - 1
  /\ registry' = TRUE
  /\ sniper' = IF store[SnipeRule].status = "absent" THEN "arming" ELSE "idle"
  /\ UNCHANGED <<vars, pools, requests, trading, fills, armer, failures>>

SniperArms ==
  /\ sniper = "arming"
  /\ Upsert(SnipeRule, 0)
  /\ sniper' = "idle"
  /\ UNCHANGED <<timer, tickVars, world, emitted, crashes>>
  /\ UNCHANGED <<pools, detected, registry, requests, trading, fills, armer, failures>>

(* The runner, whose intents go to the topic of their side.                *)
Emit(k) ==
  /\ Publish(k)
  /\ requests' = [requests EXCEPT ![plan[k].intent.side] = Append(@, plan[k].intent.amount)]
  /\ UNCHANGED <<pools, detected, sniper, registry, trading, fills, armer, failures>>

TickStep(k) == /\ AskPrice(k) \/ Decide(k) \/ Save(k)
            /\ UNCHANGED workerVars
TickStarts(k) == Fire(k) /\ UNCHANGED workerVars
RunnerStarts  == Start /\ UNCHANGED workerVars

(* Mutant of Take: a buy is announced before it is in the book.            *)
TakeAnnounces(s) ==
  /\ trading[s] = NoIntent /\ requests[s] # <<>> /\ registry
  /\ requests' = [requests EXCEPT ![s] = Tail(@)]
  /\ trading' = [trading EXCEPT ![s] = [side |-> s, amount |-> Head(requests[s])]]
  /\ fills' = IF s = "buy" THEN Append(fills, price) ELSE fills
  /\ UNCHANGED <<vars, pools, detected, sniper, registry, armer, failures>>

(* A handler of the engine reads a request; without a pool it fails there. *)
Take(s) ==
  /\ trading[s] = NoIntent /\ requests[s] # <<>>
  /\ requests' = [requests EXCEPT ![s] = Tail(@)]
  /\ trading' = [trading EXCEPT ![s] = IF registry THEN [side |-> s, amount |-> Head(requests[s])]
                                                   ELSE NoIntent]
  /\ UNCHANGED <<vars, pools, detected, sniper, registry, fills, armer, failures>>

(* The trade is executed at the market's price and booked, and a buy is    *)
(* announced to the exit armer.                                            *)
Trade(s) ==
  /\ trading[s] # NoIntent
  /\ trading' = [trading EXCEPT ![s] = NoIntent]
  /\ \/ /\ s = "buy"
        /\ held' = held + Fill /\ fills' = Append(fills, price)
     \/ /\ s = "sell"
        /\ held' = IF trading[s].amount < held THEN held - trading[s].amount ELSE 0
        /\ UNCHANGED fills
  /\ UNCHANGED <<store, timer, tickVars, price, now, history, crashes>>
  /\ UNCHANGED <<pools, detected, sniper, registry, requests, armer, failures>>

(* Rejected by the Shield or a limit, or failed.                           *)
TradeFails(s) ==
  /\ trading[s] # NoIntent /\ failures < MaxFailures
  /\ trading' = [trading EXCEPT ![s] = NoIntent]
  /\ failures' = failures + 1
  /\ UNCHANGED <<vars, pools, detected, sniper, registry, requests, fills, armer>>

(* The exit armer reads a fill; without a pool it arms nothing.            *)
ArmerReads ==
  /\ armer = Resting /\ fills # <<>>
  /\ fills' = Tail(fills)
  /\ armer' = IF registry THEN [step |-> "profit", entry |-> Head(fills)] ELSE Resting
  /\ UNCHANGED <<vars, pools, detected, sniper, registry, requests, trading, failures>>

ArmsProfit ==
  /\ armer.step = "profit"
  /\ Upsert(ProfitRule, armer.entry)
  /\ armer' = [armer EXCEPT !.step = "stop"]
  /\ UNCHANGED <<timer, tickVars, world, emitted, crashes>>
  /\ UNCHANGED <<pools, detected, sniper, registry, requests, trading, fills, failures>>

ArmsStop ==
  /\ armer.step = "stop"
  /\ Upsert(StopRule, armer.entry)
  /\ armer' = Resting
  /\ UNCHANGED <<timer, tickVars, world, emitted, crashes>>
  /\ UNCHANGED <<pools, detected, sniper, registry, requests, trading, fills, failures>>

(* The process ends, at any point, and boots again: topics, rules and book *)
(* are as they were, the registry is empty.                                *)
Restart ==
  /\ crashes < MaxCrashes
  /\ ProcessEnds
  /\ sniper' = "idle" /\ registry' = FALSE
  /\ trading' = [s \in Sides |-> NoIntent] /\ armer' = Resting
  /\ UNCHANGED <<store, world, history, pools, detected, requests, fills, failures>>

PriceMoves ==
  /\ price' \in Price
  /\ UNCHANGED <<store, timer, tickVars, held, now, history, crashes, workerVars>>

Sniper == SniperLooks \/ SniperArms
Armer  == ArmerReads \/ ArmsProfit \/ ArmsStop

WorkerNext ==
  \/ Detect \/ Sniper \/ Armer \/ RunnerStarts \/ Restart \/ PriceMoves
  \/ \E k \in Tick : TickStarts(k) \/ TickStep(k) \/ Emit(k)
  \/ \E s \in Sides : Take(s) \/ Trade(s) \/ TradeFails(s)

(* The subscriptions go on reading, the timer fires, awaits settle, and    *)
(* quotes do not fail for ever.                                            *)
WorkerFairness ==
  /\ WF_allVars(Sniper) /\ WF_allVars(Armer) /\ WF_allVars(RunnerStarts)
  /\ \A s \in Sides : WF_allVars(Take(s)) /\ WF_allVars(Trade(s))
  /\ \A k \in Tick : /\ WF_allVars(TickStarts(k)) /\ WF_allVars(TickStep(k) \/ Emit(k))
                     /\ SF_allVars(TickStep(k) /\ phase[k] = "next" /\ cur'[k] = ProfitRule
                                            /\ quote'[k] = price)

WorkerSpec == WorkerInit /\ [][WorkerNext]_allVars /\ WorkerFairness

-----------------------------------------------------------------------------
WorkerTypeOK ==
  /\ TypeOK
  /\ pools \in 0..MaxPools /\ detected \in 0..pools
  /\ sniper \in {"idle", "arming"} /\ registry \in BOOLEAN
  /\ requests \in [Sides -> Seq(Nat)] /\ trading \in [Sides -> {NoIntent} \cup
                                                      [side : Sides, amount : Nat]]
  /\ fills \in Seq(Price) /\ failures \in 0..MaxFailures
  /\ armer \in [step : {"idle", "profit", "stop"}, entry : Price \cup {0}]

(* However many pools of it are detected, a token is sniped once; a        *)
(* restart between the intent and the upsert costs at most one more.       *)
OneSnipe == emitted[SnipeRule] <= 1 + crashes

(* A sell is asked for, or under way.                                      *)
SellUnderWay ==
  \/ requests["sell"] # <<>> \/ trading["sell"] # NoIntent
  \/ \E k \in Tick : phase[k] = "publish" /\ plan[k].intent.side = "sell"

(* What is held has a stop in force, one about to be stored, or a sell.    *)
Guarded ==
  held > 0 => \/ store[StopRule].status = "active"
              \/ fills # <<>> \/ armer # Resting
              \/ SellUnderWay

(* Until a trade fails or the process restarts, an open position always    *)
(* has its stop, whatever the two exits and the engine do to each other.   *)
StopStands == (failures = 0 /\ crashes = 0) => Guarded

(* What main.ts says of both books: a restart never drops an open position *)
(* or its stop-loss, once that was stored.                                 *)
RestartKeepsStop == (failures = 0 /\ armed[StopRule] > 0) => Guarded

(* A profit that stays in reach is taken: the price does not stay at or    *)
(* above the target of an open position for ever.                          *)
InProfit ==
  /\ held > 0 /\ store[ProfitRule].status # "absent"
  /\ price * BPS >= store[ProfitRule].entryPrice * (BPS + Params[ProfitRule].gainBps)
ProfitIsTaken == ~<>[](timer /\ failures = 0 /\ crashes = 0 /\ InProfit)
=============================================================================
