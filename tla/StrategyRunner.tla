---------------------------- MODULE StrategyRunner ----------------------------
(***************************************************************************)
(* StrategyRunner (packages/strategies-core/src/runner.ts) over a strategy *)
(* store: setInterval calls tick() whether or not the previous one is      *)
(* over, so there may be several ticks, each working through the rules it  *)
(* listed with a price, a position, an intent and an upsert to wait for.   *)
(*                                                                         *)
(* The rules are about one token.  Its price and the amount held are the   *)
(* market's and the engine's, and change at any time.                      *)
(***************************************************************************)
EXTENDS Strategies, FiniteSets

CONSTANTS
  Tick,       \* ticks that may be under way at once
  Rule,
  Params,     \* of a rule: its type and the parameters of the type
  Price,      \* what the market quotes
  Held,       \* amounts of the token that may be held
  MaxTime,    \* bound: the clock
  MaxArms,    \* bound: how often an exit is armed again
  MaxCrashes  \* bound: rejected ticks, each of which ends the process

ASSUME RunnerAssumption ==
  /\ IsFiniteSet(Rule) /\ Rule # {}
  /\ \A r \in Rule : /\ Params[r].type \in Types
                     /\ Params[r].type = "dca" =>
                          /\ Params[r].totalBuys \in Nat /\ Params[r].intervalMs \in Nat
                          /\ Params[r].amountPerBuy \in Nat
                     /\ Params[r].type = "limit" => Params[r].amount \in Nat
                     /\ Params[r].type = "snipe" => Params[r].quoteAmount \in Nat
                     /\ Params[r].type \in Exits => Params[r].sellFractionBps \in Nat
  /\ Price \subseteq Nat \ {0} /\ Held \subseteq Nat /\ 0 \in Held
  /\ MaxTime \in Nat \ {0} /\ MaxArms \in Nat /\ MaxCrashes \in Nat

VARIABLES
  store,    \* the strategies table: status and state of each rule
  timer,    \* is the interval timer set
  phase,    \* where each tick is
  todo,     \* rules it listed and has not dealt with
  copy,     \* the rules as it listed them
  cur,      \* the rule it is evaluating
  quote,    \* the price it got for it
  plan,     \* what the strategy decided
  price, held, now,   \* the market, the book, the clock
  armed,    \* history: times each rule was armed
  emitted,  \* history: intents published for each rule
  crashes

tickVars == <<phase, todo, copy, cur, quote, plan>>
world    == <<price, held, now>>
history  == <<armed, emitted>>
vars     == <<store, timer, tickVars, world, history, crashes>>

Absent == [Fresh EXCEPT !.status = "absent"]
Active == {r \in Rule : store[r].status = "active"}
Type(r) == Params[r].type
Anchored(r) == Type(r) \in {"take-profit", "stop-loss"}   \* at the price of the fill

NoPlan == Wait(Absent)
SomeRule == CHOOSE r \in Rule : TRUE

(* No tick is under way and none is due.                                   *)
Rested ==
  /\ timer = FALSE
  /\ phase = [k \in Tick |-> "idle"] /\ todo = [k \in Tick |-> {}]
  /\ copy = [k \in Tick |-> [r \in Rule |-> Absent]] /\ cur = [k \in Tick |-> SomeRule]
  /\ quote = [k \in Tick |-> NoPrice] /\ plan = [k \in Tick |-> NoPlan]
  /\ price \in Price /\ held = 0 /\ now = 1
  /\ emitted = [r \in Rule |-> 0] /\ crashes = 0

Init ==
  /\ Rested
  /\ store \in [Rule -> {Stored(e) : e \in Price \cup {0}}]
  /\ \A r \in Rule : store[r].entryPrice = 0 <=> ~Anchored(r)
  /\ armed = [r \in Rule |-> 1]

(* Dealt with the current rule: on to the next one, or the tick is over.   *)
Proceed(k) ==
  LET left == todo[k] \ {cur[k]} IN
  /\ todo' = [todo EXCEPT ![k] = left]
  /\ phase' = [phase EXCEPT ![k] = IF left = {} THEN "idle" ELSE "next"]
  /\ copy' = [copy EXCEPT ![k][cur[k]] = Absent]
  /\ cur' = [cur EXCEPT ![k] = SomeRule]
  /\ quote' = [quote EXCEPT ![k] = NoPrice] /\ plan' = [plan EXCEPT ![k] = NoPlan]

(* Mutant of Start: rules that had triggered are resumed at boot.          *)
StartResuming ==
  /\ ~timer /\ timer' = TRUE
  /\ store' = [r \in Rule |-> [store[r] EXCEPT !.status = IF @ = "triggered" THEN "active" ELSE @]]
  /\ UNCHANGED <<tickVars, world, history, crashes>>

Start ==
  /\ ~timer /\ timer' = TRUE
  /\ UNCHANGED <<store, tickVars, world, history, crashes>>

(* stop() clears the timer; a tick under way goes on.                      *)
Stop ==
  /\ timer /\ timer' = FALSE
  /\ UNCHANGED <<store, tickVars, world, history, crashes>>

(* Mutant of Fire: every rule is listed, not only the active ones.         *)
FireAll(k) ==
  /\ timer /\ phase[k] = "idle" /\ Active # {}
  /\ todo' = [todo EXCEPT ![k] = {r \in Rule : store[r].status # "absent"}]
  /\ copy' = [copy EXCEPT ![k] = store]
  /\ phase' = [phase EXCEPT ![k] = "next"]
  /\ UNCHANGED <<store, timer, cur, quote, plan, world, history, crashes>>

(* The timer fires and listActive answers.                                 *)
Fire(k) ==
  /\ timer /\ phase[k] = "idle" /\ Active # {}
  /\ todo' = [todo EXCEPT ![k] = Active]
  /\ copy' = [copy EXCEPT ![k] = [r \in Rule |-> IF r \in Active THEN store[r] ELSE Absent]]
  /\ phase' = [phase EXCEPT ![k] = "next"]
  /\ UNCHANGED <<store, timer, cur, quote, plan, world, history, crashes>>

(* priceOf the next rule: a failed quote is no price.                      *)
AskPrice(k) ==
  /\ phase[k] = "next"
  /\ \E r \in todo[k], q \in {price, NoPrice} :
       /\ cur' = [cur EXCEPT ![k] = r]
       /\ quote' = [quote EXCEPT ![k] = q]
  /\ phase' = [phase EXCEPT ![k] = "position"]
  /\ UNCHANGED <<store, timer, todo, copy, plan, world, history, crashes>>

(* amountOf answers, and the strategy decides from the listed rule.        *)
Decide(k) ==
  LET r == cur[k]
      decision == Evaluate(Params[r], copy[k][r], quote[k], held, now)
  IN
  /\ phase[k] = "position"
  /\ IF decision = Wait(copy[k][r])
     THEN Proceed(k)
     ELSE /\ plan' = [plan EXCEPT ![k] = decision]
          /\ phase' = [phase EXCEPT ![k] =
                        IF decision.intent = NoIntent THEN "save" ELSE "publish"]
          /\ quote' = [quote EXCEPT ![k] = NoPrice]   \* not looked at again
          /\ UNCHANGED <<todo, copy, cur>>
  /\ UNCHANGED <<store, timer, world, history, crashes>>

Publish(k) ==
  /\ phase[k] = "publish"
  /\ emitted' = [emitted EXCEPT ![cur[k]] = @ + 1]
  /\ phase' = [phase EXCEPT ![k] = "save"]
  /\ UNCHANGED <<store, timer, todo, copy, cur, quote, plan, world, armed, crashes>>

(* upsert of the whole rule, made from the copy this tick listed.          *)
Save(k) ==
  /\ phase[k] = "save"
  /\ store' = [store EXCEPT ![cur[k]] = plan[k].next]
  /\ Proceed(k)
  /\ UNCHANGED <<timer, world, history, crashes>>

(* The ticks are lost with the process, and the timer.                     *)
ProcessEnds ==
  /\ crashes' = crashes + 1 /\ timer' = FALSE
  /\ phase' = [j \in Tick |-> "idle"] /\ todo' = [j \in Tick |-> {}]
  /\ copy' = [j \in Tick |-> [r \in Rule |-> Absent]] /\ cur' = [j \in Tick |-> SomeRule]
  /\ quote' = [j \in Tick |-> NoPrice] /\ plan' = [j \in Tick |-> NoPlan]

(* A store, position or publish call is rejected: nothing catches tick()'s *)
(* rejection, and it ends the process, whatever had been done.             *)
Crash(k) ==
  /\ phase[k] # "idle" /\ crashes < MaxCrashes
  /\ ProcessEnds
  /\ UNCHANGED <<store, world, history>>

(* A rule bought at price e is stored, over the one with its id if any.    *)
Upsert(r, e) ==
  /\ armed[r] < MaxArms
  /\ store' = [store EXCEPT ![r] = IF Anchored(r) THEN Stored(e) ELSE Fresh]
  /\ armed' = [armed EXCEPT ![r] = @ + 1]

(* Every buy of its token arms an exit again.                              *)
Arm(r) ==
  /\ Type(r) \in Exits
  /\ \E e \in Price : Upsert(r, e)
  /\ UNCHANGED <<timer, tickVars, world, emitted, crashes>>

(* The market, the engine's book and the clock.                            *)
Move ==
  /\ \/ price' \in Price /\ UNCHANGED <<held, now>>
     \/ held' \in Held /\ UNCHANGED <<price, now>>
     \/ now < MaxTime /\ now' = now + 1 /\ UNCHANGED <<price, held>>
  /\ UNCHANGED <<store, timer, tickVars, history, crashes>>

Step(k) == AskPrice(k) \/ Decide(k) \/ Publish(k) \/ Save(k)

Next == \/ Start \/ Stop \/ Move
        \/ \E r \in Rule : Arm(r)
        \/ \E k \in Tick : Fire(k) \/ Step(k) \/ Crash(k)

(* The timer keeps firing, awaits settle, and quotes do not fail for ever. *)
Fairness == \A k \in Tick : /\ WF_vars(Fire(k)) /\ WF_vars(Step(k))
                            /\ \A r \in Rule : SF_vars(AskPrice(k) /\ cur'[k] = r /\ quote'[k] = price)

Spec     == Init /\ [][Next]_vars
FairSpec == Spec /\ Fairness

-----------------------------------------------------------------------------
RuleState == [status : Statuses, entryPrice : Nat, highWaterMark : Nat, dcaCount : Nat, nextDcaAt : Nat,
              sniped : BOOLEAN]
Phases    == {"idle", "next", "position", "publish", "save"}

TypeOK ==
  /\ store \in [Rule -> RuleState] /\ timer \in BOOLEAN
  /\ phase \in [Tick -> Phases]
  /\ todo \in [Tick -> SUBSET Rule] /\ copy \in [Tick -> [Rule -> RuleState]]
  /\ cur \in [Tick -> Rule] /\ quote \in [Tick -> Price \cup {NoPrice}]
  /\ \A k \in Tick : phase[k] \in {"position", "publish", "save"} => cur[k] \in todo[k]
  /\ price \in Price /\ held \in Nat /\ now \in 0..MaxTime
  /\ armed \in [Rule -> Nat] /\ emitted \in [Rule -> Nat] /\ crashes \in 0..MaxCrashes

(* How often a rule may trade: once per arming; a DCA rule totalBuys times. *)
Allowance(r) == IF Type(r) = "dca" THEN Params[r].totalBuys * armed[r] ELSE armed[r]

(* No rule trades more often than it was meant to; a crash between the     *)
(* intent and the upsert costs at most one more.                           *)
NeverRefires == \A r \in Rule : emitted[r] <= Allowance(r) + crashes

(* A rule that fired or was retired stays so until it is armed again.      *)
StaysRetired ==
  [][\A r \in Rule :
       (store[r].status \in {"triggered", "done"} /\ store'[r].status = "active")
         => armed'[r] # armed[r]]_vars

(* The exits of a position that stays closed are retired, and no longer    *)
(* cost a quote at every tick.                                             *)
ClosedExitsRetire ==
  \A r \in Rule : Type(r) \in Exits =>
    (<>[](timer /\ held = 0) => <>[](store[r].status # "active"))
=============================================================================
