----------------------------- MODULE WorkerProofs -----------------------------
(***************************************************************************)
(* StrategyRunner and Worker, proved for any rules, parameters, prices and *)
(* amounts held: typing; that without overlapping ticks no rule trades     *)
(* more often than it was meant to and a retired rule stays so; that a     *)
(* token is sniped once; and that an open position keeps its stop.         *)
(***************************************************************************)
EXTENDS Worker, SequenceTheorems, TLAPS

(* What a decision is about to do is a plan with a state to store and an   *)
(* amount to trade.                                                        *)
PlanOK == /\ plan = [k \in Tick |-> plan[k]]
          /\ \A k \in Tick : plan[k].next \in RuleState /\ plan[k].intent.amount \in Nat

(* The rules a tick has still to deal with were active when it listed them. *)
ListOK == \A k \in Tick : \A r \in todo[k] : copy[k][r].status = "active"

Typed == TypeOK /\ PlanOK /\ ListOK

(* The intents a rule may still emit from state st.                        *)
Left(r, st) ==
  CASE st.status # "active" -> 0
    [] st.status = "active" /\ Type(r) # "dca" -> 1
    [] OTHER -> IF st.dcaCount < Params[r].totalBuys
                THEN Params[r].totalBuys - st.dcaCount ELSE 0

(* The strategies are typed, and one that emits uses up an intent.         *)
Sound(r, st, d) ==
  /\ d.next \in RuleState /\ d.next.status # "absent"
  /\ d.intent = NoIntent => Left(r, d.next) <= Left(r, st)
  /\ d.intent # NoIntent => Left(r, d.next) + 1 <= Left(r, st)

(* Waiting, retiring, and triggering with a buy or a sell are sound for    *)
(* every type but DCA.                                                     *)
LEMMA SimpleDecisions ==
  ASSUME NEW r \in Rule, Type(r) # "dca", NEW st \in RuleState, st.status = "active", NEW a
  PROVE  /\ Sound(r, st, Wait(st)) /\ Sound(r, st, Retire(st))
         /\ Sound(r, st, Trigger(st, Buy(a))) /\ Sound(r, st, Trigger(st, Sell(a)))
  BY DEF Sound, Left, Wait, Retire, Trigger, Buy, Sell, NoIntent, RuleState, Statuses

(* Remembering a new mark is sound for a trailing stop.                    *)
LEMMA MarkDecision ==
  ASSUME NEW r \in Rule, Type(r) # "dca", NEW st \in RuleState, st.status = "active",
         NEW high \in Nat
  PROVE  Sound(r, st, [intent |-> NoIntent, next |-> [st EXCEPT !.highWaterMark = high]])
  BY DEF Sound, Left, NoIntent, RuleState, Statuses

(* The sniper's buy.                                                       *)
LEMMA SnipeDecision ==
  ASSUME NEW r \in Rule, Type(r) # "dca", NEW st \in RuleState, st.status = "active", NEW a
  PROVE  Sound(r, st, [intent |-> Buy(a),
                       next |-> [st EXCEPT !.sniped = TRUE, !.status = "triggered"]])
<1> DEFINE nx == [st EXCEPT !.sniped = TRUE, !.status = "triggered"]
<1>1. nx \in RuleState
  BY DEF RuleState, Statuses
<1>2. nx.status = "triggered"
  BY DEF RuleState
<1>3. Left(r, nx) + 1 <= Left(r, st)
  BY <1>2 DEF Left
<1>4. Buy(a) # NoIntent
  BY DEF Buy, NoIntent
<1> QED
  BY <1>1, <1>2, <1>3, <1>4 DEF Sound

(* A DCA tranche uses up one of the tranches left.                         *)
LEMMA DcaDecision ==
  ASSUME NEW r \in Rule, Type(r) = "dca", NEW st \in RuleState, st.status = "active", NEW t \in Nat
  PROVE  Sound(r, st, Dca(Params[r], st, t))
<1> DEFINE p == Params[r]
<1>1. p.totalBuys \in Nat /\ p.intervalMs \in Nat
  BY RunnerAssumption DEF Type
<1>2. CASE st.dcaCount >= p.totalBuys
  BY <1>1, <1>2 DEF Dca, Sound, Left, Retire, NoIntent, RuleState, Statuses
<1>3. CASE st.dcaCount < p.totalBuys /\ t < st.nextDcaAt
  BY <1>1, <1>3 DEF Dca, Sound, Left, Wait, NoIntent, RuleState, Statuses
<1>4. CASE st.dcaCount < p.totalBuys /\ ~(t < st.nextDcaAt)
  <2> DEFINE bought == st.dcaCount + 1
             nx == [st EXCEPT !.dcaCount = bought, !.nextDcaAt = t + p.intervalMs,
                              !.status = IF bought >= p.totalBuys THEN "done" ELSE @]
  <2>1. Dca(p, st, t) = [intent |-> Buy(p.amountPerBuy), next |-> nx]
    BY <1>1, <1>4 DEF Dca, RuleState
  <2>2. nx \in RuleState
    <3>1. bought \in Nat /\ t + p.intervalMs \in Nat
      BY <1>1 DEF RuleState
    <3>2. (IF bought >= p.totalBuys THEN "done" ELSE st.status) \in Statuses
      BY DEF RuleState, Statuses
    <3> QED
      BY <3>1, <3>2 DEF RuleState
  <2>3. Left(r, nx) + 1 <= Left(r, st)
    BY <1>1, <1>4 DEF Left, RuleState
  <2>4. Buy(p.amountPerBuy) # NoIntent
    BY DEF Buy, NoIntent
  <2>5. nx.status # "absent"
    BY DEF RuleState
  <2> HIDE DEF nx
  <2> QED
    BY <2>1, <2>2, <2>3, <2>4, <2>5 DEF Sound
<1> QED
  BY <1>1, <1>2, <1>3, <1>4 DEF RuleState

(* Every decision names an amount.                                         *)
LEMMA FractionNatural ==
  ASSUME NEW h \in Nat, NEW f \in Nat
  PROVE  SellFraction(h, f) \in Nat
<1>1. h * f \in Nat
  OBVIOUS
<1> QED
  BY <1>1 DEF SellFraction, BPS

LEMMA AmountNatural ==
  ASSUME NEW r \in Rule, NEW st, NEW q, NEW h \in Nat, NEW t
  PROVE  Evaluate(Params[r], st, q, h, t).intent.amount \in Nat
<1> DEFINE p == Params[r]
<1>1. /\ p.type \in Types
      /\ p.type = "dca" => p.amountPerBuy \in Nat
      /\ p.type = "limit" => p.amount \in Nat
      /\ p.type = "snipe" => p.quoteAmount \in Nat
      /\ p.type \in Exits => p.sellFractionBps \in Nat
  BY RunnerAssumption
<1>2. NoIntent.amount \in Nat /\ \A a \in Nat : Buy(a).amount \in Nat /\ Sell(a).amount \in Nat
  BY DEF NoIntent, Buy, Sell
<1>3. p.type \in Exits => SellFractionActions(p, st, h).intent.amount \in Nat
  BY <1>1, <1>2, FractionNatural DEF SellFractionActions, Wait, Trigger
<1>4. CASE p.type = "limit"
  BY <1>1, <1>2, <1>4 DEF Evaluate, Limit, Wait, Trigger
<1>5. CASE p.type = "take-profit"
  BY <1>2, <1>3, <1>5 DEF Evaluate, TakeProfit, Wait, Retire, Exits
<1>6. CASE p.type = "stop-loss"
  BY <1>2, <1>3, <1>6 DEF Evaluate, StopLoss, Wait, Retire, Exits
<1>7. CASE p.type = "trailing-stop"
  BY <1>2, <1>3, <1>7 DEF Evaluate, TrailingStop, Wait, Retire, Exits
<1>8. CASE p.type = "dca"
  BY <1>1, <1>2, <1>8 DEF Evaluate, Dca, Wait, Retire
<1>9. CASE p.type = "snipe"
  BY <1>1, <1>2, <1>9 DEF Evaluate, Snipe, Wait
<1> QED
  BY <1>1, <1>4, <1>5, <1>6, <1>7, <1>8, <1>9 DEF Types, Exits

(* Every decision of every strategy is sound.                              *)
LEMMA Decisions ==
  ASSUME NEW r \in Rule, NEW st \in RuleState, st.status = "active",
         NEW q \in Price \cup {NoPrice}, NEW h \in Nat, NEW t \in Nat
  PROVE  Sound(r, st, Evaluate(Params[r], st, q, h, t))
<1> DEFINE p == Params[r]
<1> p.type = Type(r)
  BY DEF Type
<1>0. Type(r) \in Types
  BY RunnerAssumption DEF Type
<1>1. CASE Type(r) = "limit"
  BY <1>1, SimpleDecisions DEF Evaluate, Limit
<1>2. CASE Type(r) = "take-profit"
  BY <1>2, SimpleDecisions DEF Evaluate, TakeProfit, SellFractionActions
<1>3. CASE Type(r) = "stop-loss"
  BY <1>3, SimpleDecisions DEF Evaluate, StopLoss, SellFractionActions
<1>4. CASE Type(r) = "trailing-stop"
  <2> DEFINE high == IF q > st.highWaterMark THEN q ELSE st.highWaterMark
  <2>1. high \in Nat
    BY RunnerAssumption DEF RuleState, NoPrice
  <2>2. Sound(r, st, TrailingStop(p, st, q, h))
    BY <1>4, <2>1, SimpleDecisions, MarkDecision DEF TrailingStop, SellFractionActions
  <2> QED
    BY <1>4, <2>2 DEF Evaluate
<1>5. CASE Type(r) = "dca"
  BY <1>5, DcaDecision DEF Evaluate
<1>6. CASE Type(r) = "snipe"
  BY <1>6, SimpleDecisions, SnipeDecision DEF Evaluate, Snipe
<1> QED
  BY <1>0, <1>1, <1>2, <1>3, <1>4, <1>5, <1>6 DEF Types, Exits

-----------------------------------------------------------------------------
(* Fresh and absent rules are typed.                                       *)
LEMMA StoredTyped ==
  /\ Absent \in RuleState /\ Fresh \in RuleState
  /\ NoPlan.next = Absent /\ NoPlan.intent.amount \in Nat
  /\ \A e \in Price : Stored(e) \in RuleState
  /\ SomeRule \in Rule
<1>1. \A e \in Nat : Stored(e) \in RuleState /\ [Stored(e) EXCEPT !.status = "absent"] \in RuleState
  BY DEF Stored, RuleState, Statuses
<1>2. Price \subseteq Nat
  BY RunnerAssumption
<1>3. SomeRule \in Rule
  BY RunnerAssumption DEF SomeRule
<1> QED
  BY <1>1, <1>2, <1>3 DEF Absent, Fresh, NoPlan, Wait, NoIntent

(* The initial states are typed.                                           *)
LEMMA TypedInit == Init => Typed
<1> SUFFICES ASSUME Init PROVE Typed
  OBVIOUS
<1>1. store \in [Rule -> RuleState]
  <2>1. \A e \in Price \cup {0} : Stored(e) \in RuleState
    BY StoredTyped DEF Fresh
  <2> QED
    BY <2>1 DEF Init
<1>2. /\ copy \in [Tick -> [Rule -> RuleState]] /\ cur \in [Tick -> Rule]
      /\ phase \in [Tick -> Phases] /\ todo \in [Tick -> SUBSET Rule]
  BY StoredTyped DEF Init, Rested, Phases
<1>3. PlanOK
  BY StoredTyped DEF Init, Rested, PlanOK
<1>4. ListOK
  BY DEF Init, Rested, ListOK
<1>5. TypeOK
  <2>1. /\ timer \in BOOLEAN /\ price \in Price /\ held \in Nat /\ now \in 0..MaxTime
        /\ crashes \in 0..MaxCrashes
    <3>1. 0 \in Held /\ MaxTime \in Nat \ {0} /\ MaxCrashes \in Nat
      BY RunnerAssumption
    <3>2. timer \in BOOLEAN
      BY DEF Init, Rested
    <3>3. price \in Price /\ held = 0 /\ now = 1 /\ crashes = 0
      BY DEF Init, Rested
    <3> QED
      BY <3>1, <3>2, <3>3
  <2>2. /\ quote \in [Tick -> Price \cup {NoPrice}]
        /\ armed \in [Rule -> Nat] /\ emitted \in [Rule -> Nat]
    BY DEF Init, Rested
  <2>3. \A k \in Tick : phase[k] = "idle"
    BY DEF Init, Rested
  <2> QED
    BY <1>1, <1>2, <2>1, <2>2, <2>3 DEF TypeOK
<1> QED
  BY <1>3, <1>4, <1>5 DEF Typed

(* Going on to the next rule, or ending the tick, keeps the ticks typed.   *)
LEMMA ProceedTyped ==
  ASSUME Typed, NEW k \in Tick, Proceed(k)
  PROVE  /\ phase' \in [Tick -> Phases] /\ todo' \in [Tick -> SUBSET Rule]
         /\ copy' \in [Tick -> [Rule -> RuleState]] /\ cur' \in [Tick -> Rule]
         /\ quote' \in [Tick -> Price \cup {NoPrice}] /\ PlanOK' /\ ListOK'
         /\ phase'[k] \in {"idle", "next"}
         /\ \A j \in Tick \ {k} : /\ phase'[j] = phase[j] /\ cur'[j] = cur[j]
                                /\ todo'[j] = todo[j] /\ copy'[j] = copy[j]
                                /\ plan'[j] = plan[j]
         /\ todo'[k] = todo[k] \ {cur[k]}
         /\ \A r \in todo'[k] : copy'[k][r] = copy[k][r]
<1> USE DEF Proceed
<1>1. /\ phase' \in [Tick -> Phases] /\ todo' \in [Tick -> SUBSET Rule]
      /\ quote' \in [Tick -> Price \cup {NoPrice}] /\ cur' \in [Tick -> Rule]
  BY StoredTyped DEF Typed, TypeOK, Phases
<1>2. copy' \in [Tick -> [Rule -> RuleState]]
  BY StoredTyped DEF Typed, TypeOK
<1>3. PlanOK'
  BY StoredTyped DEF Typed, PlanOK
<1>4. ListOK'
  BY DEF Typed, TypeOK, ListOK
<1> QED
  BY <1>1, <1>2, <1>3, <1>4 DEF Typed, TypeOK, PlanOK

(* Typing is kept by every step.                                           *)
LEMMA TypedNext == Typed /\ [Next]_vars => Typed'
<1> SUFFICES ASSUME Typed, [Next]_vars PROVE Typed'
  OBVIOUS
<1> USE DEF Typed
<1>1. CASE UNCHANGED vars
  BY <1>1 DEF vars, tickVars, world, history, TypeOK, PlanOK, ListOK
<1>2. CASE Start \/ Stop
  BY <1>2 DEF Start, Stop, tickVars, world, history, TypeOK, PlanOK, ListOK
<1>3. CASE Move
  BY <1>3, RunnerAssumption DEF Move, tickVars, world, history, TypeOK, PlanOK, ListOK
<1>4. ASSUME NEW r \in Rule, Arm(r) PROVE Typed'
  <2>1. store' \in [Rule -> RuleState]
    BY <1>4, StoredTyped DEF Arm, Upsert, TypeOK
  <2>2. armed' \in [Rule -> Nat]
    BY <1>4 DEF Arm, Upsert, TypeOK
  <2> QED
    BY <1>4, <2>1, <2>2 DEF Arm, tickVars, world, TypeOK, PlanOK, ListOK
<1>5. ASSUME NEW k \in Tick, Fire(k) PROVE Typed'
  <2>1. /\ todo' \in [Tick -> SUBSET Rule] /\ phase' \in [Tick -> Phases]
        /\ copy' \in [Tick -> [Rule -> RuleState]]
    BY <1>5, StoredTyped DEF Fire, TypeOK, Active, Phases
  <2>2. \A j \in Tick : phase'[j] \in {"position", "publish", "save"} =>
                        phase'[j] = phase[j] /\ todo'[j] = todo[j]
    BY <1>5 DEF Fire, TypeOK
  <2>3. ListOK'
    BY <1>5 DEF Fire, ListOK, TypeOK, Active
  <2> QED
    BY <1>5, <2>1, <2>2, <2>3 DEF Fire, world, history, TypeOK, PlanOK
<1>6. ASSUME NEW k \in Tick, AskPrice(k) PROVE Typed'
  <2>1. PICK r \in todo[k], q \in {price, NoPrice} :
          cur' = [cur EXCEPT ![k] = r] /\ quote' = [quote EXCEPT ![k] = q]
    BY <1>6 DEF AskPrice
  <2>2. cur' \in [Tick -> Rule] /\ quote' \in [Tick -> Price \cup {NoPrice}]
    BY <2>1 DEF TypeOK
  <2>3. phase' \in [Tick -> Phases]
    BY <1>6 DEF AskPrice, TypeOK, Phases
  <2>4. \A j \in Tick : phase'[j] \in {"position", "publish", "save"} => cur'[j] \in todo[j]
    BY <1>6, <2>1 DEF AskPrice, TypeOK
  <2> QED
    BY <1>6, <2>2, <2>3, <2>4 DEF AskPrice, world, history, TypeOK, PlanOK, ListOK
<1>7. ASSUME NEW k \in Tick, Decide(k) PROVE Typed'
  <2> DEFINE decision == Evaluate(Params[cur[k]], copy[k][cur[k]], quote[k], held, now)
  <2>1. CASE decision = Wait(copy[k][cur[k]])
    <3>1. Proceed(k)
      BY <1>7, <2>1 DEF Decide
    <3> QED
      BY <1>7, <3>1, ProceedTyped DEF Decide, world, history, TypeOK
  <2>2. CASE decision # Wait(copy[k][cur[k]])
    <3>1. /\ phase[k] = "position" /\ plan' = [plan EXCEPT ![k] = decision]
          /\ phase' = [phase EXCEPT ![k] = IF decision.intent = NoIntent THEN "save" ELSE "publish"]
          /\ quote' = [quote EXCEPT ![k] = NoPrice]
          /\ UNCHANGED <<todo, copy, cur, store, timer, world, history, crashes>>
      BY <1>7, <2>2 DEF Decide
    <3>2. Sound(cur[k], copy[k][cur[k]], decision)
      <4>1. cur[k] \in todo[k]
        BY <3>1 DEF TypeOK
      <4>2. held \in Nat /\ now \in Nat
        BY RunnerAssumption DEF TypeOK
      <4> QED
        BY <4>1, <4>2, Decisions DEF TypeOK, ListOK
    <3>3. PlanOK'
      <4>1. held \in Nat
        BY RunnerAssumption DEF TypeOK
      <4>2. decision.intent.amount \in Nat
        BY <4>1, AmountNatural DEF TypeOK
      <4> HIDE DEF decision
      <4> QED
        BY <3>1, <3>2, <4>2 DEF PlanOK, Sound
    <3>4. phase' \in [Tick -> Phases] /\ quote' \in [Tick -> Price \cup {NoPrice}]
      BY <3>1 DEF TypeOK, Phases
    <3>5. \A j \in Tick : phase'[j] \in {"position", "publish", "save"} => cur[j] \in todo[j]
      BY <3>1 DEF TypeOK
    <3> QED
      BY <3>1, <3>3, <3>4, <3>5 DEF world, history, TypeOK, ListOK
  <2> QED
    BY <2>1, <2>2
<1>8. ASSUME NEW k \in Tick, Publish(k) PROVE Typed'
  <2>1. phase' \in [Tick -> Phases] /\ emitted' \in [Rule -> Nat]
    BY <1>8 DEF Publish, TypeOK, Phases
  <2>2. \A j \in Tick : phase'[j] \in {"position", "publish", "save"} => cur[j] \in todo[j]
    BY <1>8 DEF Publish, TypeOK
  <2> QED
    BY <1>8, <2>1, <2>2 DEF Publish, world, TypeOK, PlanOK, ListOK
<1>9. ASSUME NEW k \in Tick, Save(k) PROVE Typed'
  <2>1. store' \in [Rule -> RuleState]
    BY <1>9 DEF Save, TypeOK, PlanOK
  <2> QED
    BY <1>9, <2>1, ProceedTyped DEF Save, world, history, TypeOK
<1>10. ASSUME NEW k \in Tick, Crash(k) PROVE Typed'
  <2>1. /\ copy' \in [Tick -> [Rule -> RuleState]] /\ cur' \in [Tick -> Rule] /\ PlanOK'
    BY <1>10, StoredTyped DEF Crash, ProcessEnds, PlanOK
  <2>2. /\ phase' \in [Tick -> Phases] /\ todo' \in [Tick -> SUBSET Rule] /\ timer' \in BOOLEAN
        /\ quote' \in [Tick -> Price \cup {NoPrice}] /\ ListOK'
        /\ \A j \in Tick : phase'[j] = "idle"
    BY <1>10 DEF Crash, ProcessEnds, ListOK, Phases
  <2>3. crashes' \in 0..MaxCrashes
    BY <1>10, RunnerAssumption DEF Crash, ProcessEnds, TypeOK
  <2> QED
    BY <1>10, <2>1, <2>2, <2>3 DEF Crash, world, history, TypeOK
<1> QED
  BY <1>1, <1>2, <1>3, <1>4, <1>5, <1>6, <1>7, <1>8, <1>9, <1>10 DEF Next, Step

(* The type invariant holds for every set of rules and parameters.         *)
THEOREM TypeCorrect == Spec => []TypeOK
<1>1. Typed => TypeOK
  BY DEF Typed
<1> QED
  BY <1>1, TypedInit, TypedNext, PTL DEF Spec

-----------------------------------------------------------------------------
(* The budget of each rule.  What a rule has emitted and what its stored   *)
(* state still lets it emit stay within its allowance, also for the copy a *)
(* tick works on and for the state it is about to store; only between the  *)
(* publication of an intent and the upsert is the stored state one intent  *)
(* behind, which is what a crash there costs.                              *)
Budget(r) == Allowance(r) + crashes

InPlan(k, r) == phase[k] \in {"publish", "save"} /\ cur[k] = r
Saving(r) == \E k \in Tick : phase[k] = "save" /\ cur[k] = r

StoredAffordable ==
  \A r \in Rule : /\ emitted[r] + Left(r, store[r]) <= Budget(r) + 1
                  /\ ~Saving(r) => emitted[r] + Left(r, store[r]) <= Budget(r)
CopiesAffordable ==
  \A k \in Tick : \A r \in todo[k] :
    ~InPlan(k, r) => emitted[r] + Left(r, copy[k][r]) <= Budget(r)
PlansAffordable ==
  \A k \in Tick :
    /\ phase[k] = "publish" => emitted[cur[k]] + 1 + Left(cur[k], plan[k].next) <= Budget(cur[k])
    /\ phase[k] = "save" => emitted[cur[k]] + Left(cur[k], plan[k].next) <= Budget(cur[k])

Affordable == NeverRefires /\ StoredAffordable /\ CopiesAffordable /\ PlansAffordable

(* One tick at a time.                                                     *)
OneTick == \A j, k \in Tick : j = k

(* Budgets are numbers, and so is what a state leaves to emit.             *)
LEMMA Numbers ==
  ASSUME Typed, NEW r \in Rule
  PROVE  Allowance(r) \in Nat /\ Budget(r) \in Nat /\ \A st \in RuleState : Left(r, st) \in Nat
<1>1. Type(r) = "dca" => Params[r].totalBuys \in Nat
  BY RunnerAssumption DEF Type
<1>2. armed[r] \in Nat /\ crashes \in Nat
  BY RunnerAssumption DEF Typed, TypeOK
<1>3. Allowance(r) \in Nat
  BY <1>1, <1>2 DEF Allowance
<1>4. \A st \in RuleState : Left(r, st) \in Nat
  BY <1>1 DEF Left, RuleState
<1> QED
  BY <1>2, <1>3, <1>4 DEF Budget

(* A rule starts with what it may emit as its budget.                      *)
LEMMA AffordableInit == Init => Affordable
<1> SUFFICES ASSUME Init PROVE Affordable
  OBVIOUS
<1>1. Typed
  BY TypedInit
<1>2. ASSUME NEW r \in Rule PROVE Left(r, store[r]) <= Allowance(r)
  <2>1. PICK e \in Price \cup {0} : store[r] = Stored(e)
    BY DEF Init
  <2>2. store[r].status = "active" /\ store[r].dcaCount = 0
    BY <2>1 DEF Stored
  <2>3. armed[r] = 1
    BY DEF Init
  <2>4. Type(r) = "dca" => Params[r].totalBuys \in Nat
    BY RunnerAssumption DEF Type
  <2> QED
    BY <2>2, <2>3, <2>4 DEF Left, Allowance
<1>3. /\ \A r \in Rule : emitted[r] = 0
      /\ crashes = 0
  BY DEF Init, Rested
<1>4. \A r \in Rule : Allowance(r) \in Nat /\ Left(r, store[r]) \in Nat
  BY <1>1, Numbers DEF Typed, TypeOK
<1>5. NeverRefires /\ StoredAffordable
  BY <1>2, <1>3, <1>4 DEF NeverRefires, StoredAffordable, Budget
<1>6. \A k \in Tick : phase[k] = "idle" /\ todo[k] = {}
  BY DEF Init, Rested
<1>7. CopiesAffordable /\ PlansAffordable
  BY <1>6 DEF CopiesAffordable, PlansAffordable
<1> QED
  BY <1>5, <1>7 DEF Affordable

(* Steps that change neither a count nor the table leave the budgets alone. *)
LEMMA SameBudget ==
  ASSUME UNCHANGED <<armed, crashes>>
  PROVE  \A r \in Rule : Allowance(r)' = Allowance(r) /\ Budget(r)' = Budget(r)
  BY DEF Allowance, Budget

(* Storing a rule anew adds to its allowance the one intent its new state  *)
(* allows.                                                                 *)
LEMMA AffordableUpsert ==
  ASSUME Typed, Affordable, NEW r \in Rule, Type(r) # "dca", NEW e, Upsert(r, e),
         UNCHANGED <<tickVars, emitted, crashes>>
  PROVE  Affordable'
<1>1. /\ armed' = [armed EXCEPT ![r] = @ + 1] /\ Type(r) # "dca"
      /\ store' = [store EXCEPT ![r] = IF Anchored(r) THEN Stored(e) ELSE Fresh]
      /\ UNCHANGED <<phase, todo, copy, cur, plan, emitted, crashes>>
  BY DEF Upsert, tickVars
<1>2. \A s \in Rule : Budget(s)' = IF s = r THEN Budget(s) + 1 ELSE Budget(s)
  <2>1. \A s \in Rule : armed[s] \in Nat /\ crashes \in Nat
    BY RunnerAssumption DEF Typed, TypeOK
  <2>2. \A s \in Rule : armed'[s] = IF s = r THEN armed[s] + 1 ELSE armed[s]
    BY <1>1 DEF Typed, TypeOK
  <2>3. \A s \in Rule \ {r} : Budget(s)' = Budget(s)
    BY <1>1, <2>2 DEF Budget, Allowance
  <2>4. Budget(r)' = Budget(r) + 1
    BY <1>1, <2>1, <2>2 DEF Budget, Allowance
  <2> QED
    BY <2>3, <2>4
<1>3. \A s \in Rule : /\ Budget(s) \in Nat /\ emitted[s] \in Nat
                      /\ \A st \in RuleState : Left(s, st) \in Nat
  BY Numbers DEF Typed, TypeOK
<1>4. Left(r, store'[r]) = 1 /\ \A s \in Rule \ {r} : store'[s] = store[s]
  BY <1>1 DEF Typed, TypeOK, Left, Stored, Fresh
<1>5. \A k \in Tick : cur[k] \in Rule /\ plan[k].next \in RuleState
                     /\ \A s \in todo[k] : s \in Rule /\ copy[k][s] \in RuleState
  BY DEF Typed, TypeOK, PlanOK
<1>6. NeverRefires'
  BY <1>1, <1>2, <1>3 DEF Affordable, NeverRefires, Budget
<1>7. StoredAffordable'
  <2>1. ASSUME NEW s \in Rule PROVE emitted[s] + Left(s, store'[s]) <= Budget(s)' + 1
    <3>1. CASE s = r
      <4>1. emitted[s] <= Budget(s)
        BY DEF Affordable, NeverRefires, Budget
      <4> QED
        BY <1>2, <1>3, <1>4, <3>1, <4>1
    <3>2. CASE s # r
      BY <1>2, <1>3, <1>4, <3>2 DEF Affordable, StoredAffordable
    <3> QED
      BY <3>1, <3>2
  <2>2. ASSUME NEW s \in Rule, ~Saving(s) PROVE emitted[s] + Left(s, store'[s]) <= Budget(s)'
    <3>1. emitted[s] <= Budget(s)
      BY DEF Affordable, NeverRefires, Budget
    <3>2. emitted[s] + Left(s, store[s]) <= Budget(s)
      BY <2>2 DEF Affordable, StoredAffordable
    <3> QED
      BY <1>2, <1>3, <1>4, <3>1, <3>2
  <2>3. \A s \in Rule : Saving(s)' = Saving(s)
    BY <1>1 DEF Saving
  <2> QED
    BY <1>1, <2>1, <2>2, <2>3 DEF StoredAffordable, Left
<1>8. CopiesAffordable' /\ PlansAffordable'
  <2>1. \A s \in Rule : Budget(s) <= Budget(s)' /\ Budget(s)' \in Nat
    BY <1>2, <1>3
  <2>2. \A k \in Tick : \A s \in todo[k] :
          ~InPlan(k, s) => emitted[s] + Left(s, copy[k][s]) <= Budget(s)'
    BY <1>3, <1>5, <2>1 DEF Affordable, CopiesAffordable
  <2>3. ASSUME NEW k \in Tick, NEW c \in Rule, cur[k] = c
        PROVE  /\ phase[k] = "publish" => emitted[c] + 1 + Left(c, plan[k].next) <= Budget(c)'
               /\ phase[k] = "save" => emitted[c] + Left(c, plan[k].next) <= Budget(c)'
    <3>1. Left(c, plan[k].next) \in Nat
      BY <1>3, <1>5
    <3>2. /\ phase[k] = "publish" => emitted[c] + 1 + Left(c, plan[k].next) <= Budget(c)
          /\ phase[k] = "save" => emitted[c] + Left(c, plan[k].next) <= Budget(c)
      BY <2>3 DEF Affordable, PlansAffordable
    <3> QED
      BY <1>3, <2>1, <3>1, <3>2
  <2>4. CopiesAffordable'
    BY <1>1, <2>2 DEF CopiesAffordable, InPlan, Left
  <2>5. PlansAffordable'
    BY <1>1, <1>5, <2>3 DEF PlansAffordable, Left
  <2> QED
    BY <2>4, <2>5
<1> QED
  BY <1>6, <1>7, <1>8 DEF Affordable

(* A tick that goes on leaves what it has listed as affordable as it was.  *)
LEMMA AffordableProceed ==
  ASSUME Typed, Affordable, OneTick, NEW k \in Tick, Proceed(k),
         UNCHANGED <<emitted, armed, crashes>>
  PROVE  CopiesAffordable' /\ PlansAffordable' /\ \A r \in Rule : ~Saving(r)'
<1>1. /\ phase'[k] \in {"idle", "next"} /\ todo'[k] = todo[k] \ {cur[k]}
      /\ \A r \in todo'[k] : copy'[k][r] = copy[k][r]
  BY ProceedTyped
<1>2. \A j \in Tick : j = k
  BY DEF OneTick
<1>3. ASSUME NEW r \in todo'[k] PROVE emitted[r] + Left(r, copy[k][r]) <= Budget(r)
  <2>1. r \in todo[k] /\ ~InPlan(k, r)
    BY <1>1, <1>3 DEF InPlan
  <2> QED
    BY <2>1 DEF Affordable, CopiesAffordable
<1>4. \A r \in todo'[k] : r \in Rule
  BY <1>1 DEF Typed, TypeOK
<1>5. CopiesAffordable'
  <2>1. ASSUME NEW r \in todo'[k] PROVE emitted'[r] + Left(r, copy'[k][r]) <= Budget(r)'
    BY <1>1, <1>3, <1>4, <2>1, SameBudget
  <2> QED
    BY <1>2, <2>1 DEF CopiesAffordable, Left
<1>6. PlansAffordable' /\ \A r \in Rule : ~Saving(r)'
  BY <1>1, <1>2 DEF PlansAffordable, Saving
<1> QED
  BY <1>5, <1>6

(* Steps that emit nothing, arm nothing and do not crash cannot overspend. *)
LEMMA SameEmitted ==
  ASSUME Affordable, UNCHANGED <<emitted, armed, crashes>>
  PROVE  NeverRefires'
  BY SameBudget DEF Affordable, NeverRefires, Allowance

(* A tick lists active rules with their stored state.                      *)
LEMMA AffordableFire ==
  ASSUME Typed, Affordable, OneTick, NEW k \in Tick, Fire(k)
  PROVE  Affordable'
<1>1. /\ phase[k] = "idle" /\ phase'[k] = "next" /\ todo'[k] = Active
      /\ \A r \in Active : copy'[k][r] = store[r]
      /\ UNCHANGED <<store, emitted, armed, crashes>>
  BY DEF Fire, Typed, TypeOK, history, Active
<1>2. \A j \in Tick : j = k
  BY DEF OneTick
<1>3. \A r \in Rule : ~Saving(r) /\ ~Saving(r)'
  BY <1>1, <1>2 DEF Saving
<1>4. StoredAffordable'
  BY <1>1, <1>3, SameBudget DEF Affordable, StoredAffordable, Left
<1>5. ASSUME NEW r \in Active PROVE emitted'[r] + Left(r, copy'[k][r]) <= Budget(r)'
  <2>1. r \in Rule
    BY DEF Active
  <2>2. emitted[r] + Left(r, store[r]) <= Budget(r)
    BY <1>3, <2>1 DEF Affordable, StoredAffordable
  <2> QED
    BY <1>1, <2>1, <2>2, SameBudget
<1>6. CopiesAffordable'
  BY <1>1, <1>2, <1>5 DEF CopiesAffordable, Left
<1>7. PlansAffordable'
  BY <1>1, <1>2 DEF PlansAffordable
<1> QED
  BY <1>1, <1>4, <1>6, <1>7, SameEmitted DEF Affordable

(* Asking for a price changes nothing that counts.                         *)
LEMMA AffordableAskPrice ==
  ASSUME Typed, Affordable, OneTick, NEW k \in Tick, AskPrice(k)
  PROVE  Affordable'
<1>1. /\ phase[k] = "next" /\ phase'[k] = "position"
      /\ UNCHANGED <<store, todo, copy, emitted, armed, crashes>>
  BY DEF AskPrice, Typed, TypeOK, history
<1>2. \A j \in Tick : j = k
  BY DEF OneTick
<1>3. \A r \in Rule : ~Saving(r) /\ ~Saving(r)'
  BY <1>1, <1>2 DEF Saving
<1>4. StoredAffordable'
  BY <1>1, <1>3, SameBudget DEF Affordable, StoredAffordable, Left
<1>5. CopiesAffordable'
  <2>1. ASSUME NEW r \in todo[k] PROVE emitted[r] + Left(r, copy[k][r]) <= Budget(r)'
    <3>1. r \in Rule /\ ~InPlan(k, r)
      BY <1>1 DEF Typed, TypeOK, InPlan
    <3> QED
      BY <1>1, <3>1, SameBudget DEF Affordable, CopiesAffordable
  <2> QED
    BY <1>1, <1>2, <2>1 DEF CopiesAffordable, Left
<1>6. PlansAffordable'
  BY <1>1, <1>2 DEF PlansAffordable
<1> QED
  BY <1>1, <1>4, <1>5, <1>6, SameEmitted DEF Affordable

(* A decision to emit is paid from what the listed state allowed.          *)
LEMMA AffordableDecide ==
  ASSUME Typed, Affordable, OneTick, NEW k \in Tick, Decide(k)
  PROVE  Affordable'
<1> DEFINE r == cur[k]
           decision == Evaluate(Params[r], copy[k][r], quote[k], held, now)
<1>1. /\ phase[k] = "position"
      /\ UNCHANGED <<store, emitted, armed, crashes>>
  BY DEF Decide, history
<1>2. \A j \in Tick : j = k
  BY DEF OneTick
<1>3. \A s \in Rule : ~Saving(s)
  BY <1>1, <1>2 DEF Saving
<1>4. StoredAffordable'
  <2>1. ASSUME NEW s \in Rule
        PROVE  /\ emitted'[s] + Left(s, store'[s]) <= Budget(s)'
               /\ emitted'[s] + Left(s, store'[s]) <= Budget(s)' + 1
    <3>1. emitted[s] + Left(s, store[s]) <= Budget(s) /\ emitted[s] + Left(s, store[s]) <= Budget(s) + 1
      BY <1>3 DEF Affordable, StoredAffordable
    <3> QED
      BY <1>1, <3>1, SameBudget
  <2> QED
    BY <2>1 DEF StoredAffordable, Left
<1>5. CASE decision = Wait(copy[k][r])
  <2>1. Proceed(k)
    BY <1>5 DEF Decide
  <2> QED
    BY <1>1, <1>4, <2>1, AffordableProceed, SameEmitted DEF Affordable
<1>6. CASE decision # Wait(copy[k][r])
  <2>1. /\ plan' = [plan EXCEPT ![k] = decision]
        /\ phase' = [phase EXCEPT ![k] = IF decision.intent = NoIntent THEN "save" ELSE "publish"]
        /\ UNCHANGED <<todo, copy, cur>>
    BY <1>6 DEF Decide
  <2>2. r \in todo[k] /\ r \in Rule /\ copy[k][r] \in RuleState /\ held \in Nat /\ now \in Nat
    BY <1>1, RunnerAssumption DEF Typed, TypeOK
  <2>3. Sound(r, copy[k][r], decision)
    BY <2>2, Decisions DEF Typed, TypeOK, ListOK
  <2>4. emitted[r] + Left(r, copy[k][r]) <= Budget(r)
    BY <1>1, <2>2 DEF Affordable, CopiesAffordable, InPlan
  <2>5. emitted[r] \in Nat /\ Left(r, copy[k][r]) \in Nat /\ Left(r, decision.next) \in Nat
        /\ Budget(r) \in Nat
    BY <2>2, <2>3, Numbers DEF Typed, TypeOK, Sound
  <2>6. plan'[k] = decision
        /\ phase'[k] = IF decision.intent = NoIntent THEN "save" ELSE "publish"
    BY <2>1 DEF Typed, TypeOK, PlanOK
  <2>7. PlansAffordable'
    <3>1. ASSUME NEW c \in Rule, c = r
          PROVE  /\ phase'[k] = "publish" => emitted'[c] + 1 + Left(c, plan'[k].next) <= Budget(c)'
                 /\ phase'[k] = "save" => emitted'[c] + Left(c, plan'[k].next) <= Budget(c)'
      <4>1. Budget(c)' = Budget(c)
        BY <1>1, SameBudget
      <4> QED
        BY <1>1, <2>3, <2>4, <2>5, <2>6, <3>1, <4>1 DEF Sound
    <3> QED
      BY <1>2, <2>1, <2>2, <3>1 DEF PlansAffordable, Left
  <2>8. CopiesAffordable'
    <3>1. ASSUME NEW s \in todo[k], s # r PROVE emitted'[s] + Left(s, copy[k][s]) <= Budget(s)'
      <4>1. s \in Rule /\ ~InPlan(k, s)
        BY <1>1 DEF Typed, TypeOK, InPlan
      <4> QED
        BY <1>1, <4>1, SameBudget DEF Affordable, CopiesAffordable
    <3>2. \A s \in todo[k] : ~InPlan(k, s)' => s # r
      BY <2>1, <2>6 DEF InPlan
    <3> QED
      BY <1>2, <2>1, <3>1, <3>2 DEF CopiesAffordable, Left
  <2> QED
    BY <1>1, <1>4, <2>7, <2>8, SameEmitted DEF Affordable
<1> QED
  BY <1>5, <1>6

(* Publishing spends the intent the plan was made for.                     *)
LEMMA AffordablePublish ==
  ASSUME Typed, Affordable, OneTick, NEW k \in Tick, Publish(k)
  PROVE  Affordable'
<1> DEFINE r == cur[k]
<1>1. /\ phase[k] = "publish" /\ phase'[k] = "save" /\ r \in Rule /\ r \in todo[k]
      /\ emitted' = [emitted EXCEPT ![r] = @ + 1]
      /\ UNCHANGED <<store, todo, copy, cur, plan, armed, crashes>>
  BY DEF Publish, Typed, TypeOK
<1>2. \A j \in Tick : j = k
  BY DEF OneTick
<1>3. ASSUME NEW s \in Rule
      PROVE  /\ emitted'[s] = IF s = r THEN emitted[s] + 1 ELSE emitted[s]
             /\ emitted[s] \in Nat /\ Budget(s) \in Nat /\ Budget(s)' = Budget(s)
             /\ Left(s, store[s]) \in Nat /\ Left(s, plan[k].next) \in Nat
  BY <1>1, Numbers, SameBudget DEF Typed, TypeOK, PlanOK
<1>4. emitted[r] + 1 + Left(r, plan[k].next) <= Budget(r)
  BY <1>1 DEF Affordable, PlansAffordable
<1>5. ASSUME NEW s \in Rule PROVE emitted'[s] <= Budget(s)'
  <2>1. emitted[s] <= Budget(s)
    BY DEF Affordable, NeverRefires, Budget
  <2>2. CASE s = r
    BY <1>3, <1>4, <2>2
  <2>3. CASE s # r
    BY <1>3, <2>1, <2>3
  <2> QED
    BY <2>2, <2>3
<1>6. NeverRefires'
  BY <1>5 DEF NeverRefires, Budget, Allowance
<1>7. \A s \in Rule : ~Saving(s) /\ (Saving(s)' <=> s = r)
  BY <1>1, <1>2 DEF Saving
<1>8. StoredAffordable'
  <2>1. ASSUME NEW s \in Rule
        PROVE  /\ emitted'[s] + Left(s, store[s]) <= Budget(s)' + 1
               /\ s # r => emitted'[s] + Left(s, store[s]) <= Budget(s)'
    <3>1. emitted[s] + Left(s, store[s]) <= Budget(s)
      BY <1>7 DEF Affordable, StoredAffordable
    <3> QED
      BY <1>3, <3>1
  <2> QED
    BY <1>1, <1>7, <2>1 DEF StoredAffordable, Left
<1>9. CopiesAffordable'
  <2>1. ASSUME NEW s \in todo[k], s # r PROVE emitted'[s] + Left(s, copy[k][s]) <= Budget(s)'
    <3>1. s \in Rule /\ ~InPlan(k, s)
      BY <2>1 DEF Typed, TypeOK, InPlan
    <3>2. emitted[s] + Left(s, copy[k][s]) <= Budget(s)
      BY <3>1 DEF Affordable, CopiesAffordable
    <3> QED
      BY <1>3, <2>1, <3>1, <3>2
  <2>2. \A s \in todo[k] : ~InPlan(k, s)' => s # r
    BY <1>1 DEF InPlan
  <2> QED
    BY <1>1, <1>2, <2>1, <2>2 DEF CopiesAffordable, Left
<1>10. PlansAffordable'
  <2>1. ASSUME NEW c \in Rule, c = r PROVE emitted'[c] + Left(c, plan[k].next) <= Budget(c)'
    BY <1>3, <1>4, <2>1
  <2> QED
    BY <1>1, <1>2, <2>1 DEF PlansAffordable, Left
<1> QED
  BY <1>6, <1>8, <1>9, <1>10 DEF Affordable

(* The upsert brings the stored state up to date with what was emitted.    *)
LEMMA AffordableSave ==
  ASSUME Typed, Affordable, OneTick, NEW k \in Tick, Save(k)
  PROVE  Affordable'
<1> DEFINE r == cur[k]
<1>1. /\ phase[k] = "save" /\ r \in Rule
      /\ store' = [store EXCEPT ![r] = plan[k].next]
      /\ Proceed(k) /\ UNCHANGED <<emitted, armed, crashes>>
  BY DEF Save, Typed, TypeOK, history
<1>2. emitted[r] + Left(r, plan[k].next) <= Budget(r)
  BY <1>1 DEF Affordable, PlansAffordable
<1>3. \A j \in Tick : j = k
  BY DEF OneTick
<1>4. ASSUME NEW s \in Rule
      PROVE  /\ emitted'[s] + Left(s, store'[s]) <= Budget(s)'
             /\ emitted'[s] + Left(s, store'[s]) <= Budget(s)' + 1
  <2>1. Budget(s)' = Budget(s) /\ Budget(s) \in Nat
    BY <1>1, SameBudget, Numbers
  <2>2. emitted[s] \in Nat /\ Left(s, store[s]) \in Nat /\ Left(s, plan[k].next) \in Nat
    BY Numbers DEF Typed, TypeOK, PlanOK
  <2>3. CASE s = r
    <3>1. store'[s] = plan[k].next
      BY <1>1, <2>3 DEF Typed, TypeOK
    <3> QED
      BY <1>1, <1>2, <2>1, <2>2, <2>3, <3>1
  <2>4. CASE s # r
    <3>1. store'[s] = store[s]
      BY <1>1, <2>4 DEF Typed, TypeOK
    <3>2. ~Saving(s)
      BY <1>3, <2>4 DEF Saving
    <3>3. emitted[s] + Left(s, store[s]) <= Budget(s)
      BY <3>2 DEF Affordable, StoredAffordable
    <3> QED
      BY <1>1, <2>1, <2>2, <3>1, <3>3
  <2> QED
    BY <2>3, <2>4
<1>5. StoredAffordable'
  BY <1>4 DEF StoredAffordable, Left
<1> QED
  BY <1>1, <1>5, AffordableProceed, SameEmitted DEF Affordable

(* A crash adds to every budget what the table may be behind by.           *)
LEMMA AffordableEnd ==
  ASSUME Typed, Affordable, ProcessEnds, UNCHANGED <<store, history>>
  PROVE  Affordable'
<1>1. /\ crashes' = crashes + 1 /\ UNCHANGED <<store, armed, emitted>>
      /\ \A j \in Tick : phase'[j] = "idle" /\ todo'[j] = {}
  BY DEF ProcessEnds, history
<1>2. ASSUME NEW s \in Rule
      PROVE  /\ emitted'[s] <= Budget(s)'
             /\ emitted'[s] + Left(s, store[s]) <= Budget(s)'
             /\ emitted'[s] + Left(s, store[s]) <= Budget(s)' + 1
  <2>1. emitted[s] <= Budget(s) /\ emitted[s] + Left(s, store[s]) <= Budget(s) + 1
    BY DEF Affordable, NeverRefires, StoredAffordable, Budget
  <2>2. /\ Budget(s) \in Nat /\ emitted[s] \in Nat /\ Left(s, store[s]) \in Nat
        /\ Allowance(s) \in Nat /\ crashes \in Nat
    BY Numbers, RunnerAssumption DEF Typed, TypeOK
  <2>3. Budget(s)' = Budget(s) + 1
    BY <1>1, <2>2 DEF Budget, Allowance
  <2> QED
    BY <1>1, <2>1, <2>2, <2>3
<1>3. NeverRefires'
  BY <1>2 DEF NeverRefires, Budget, Allowance
<1>4. StoredAffordable'
  BY <1>1, <1>2 DEF StoredAffordable, Left
<1>5. CopiesAffordable' /\ PlansAffordable'
  BY <1>1 DEF CopiesAffordable, PlansAffordable
<1> QED
  BY <1>3, <1>4, <1>5 DEF Affordable

(* Steps outside the ticks.                                                *)
LEMMA AffordableIdle ==
  ASSUME Affordable, UNCHANGED <<store, phase, todo, copy, cur, plan, emitted, armed, crashes>>
  PROVE  Affordable'
  BY SameBudget DEF Affordable, NeverRefires, StoredAffordable, CopiesAffordable, PlansAffordable,
                    InPlan, Saving, Left, Budget, Allowance

(* Budgets are kept by every step, provided that ticks do not overlap.     *)
LEMMA AffordableNext == OneTick /\ Typed /\ Affordable /\ [Next]_vars => Affordable'
<1> SUFFICES ASSUME OneTick, Typed, Affordable, [Next]_vars PROVE Affordable'
  OBVIOUS
<1>1. CASE UNCHANGED vars \/ Start \/ Stop \/ Move
  <2>1. UNCHANGED <<store, phase, todo, copy, cur, plan, emitted, armed, crashes>>
    BY <1>1 DEF vars, Start, Stop, Move, tickVars, history
  <2> QED
    BY <2>1, AffordableIdle
<1>2. ASSUME NEW r \in Rule, Arm(r) PROVE Affordable'
  BY <1>2, AffordableUpsert DEF Arm, Exits
<1>3. ASSUME NEW k \in Tick, Fire(k) \/ Step(k) PROVE Affordable'
  BY <1>3, AffordableFire, AffordableAskPrice, AffordableDecide, AffordablePublish,
     AffordableSave DEF Step
<1>4. ASSUME NEW k \in Tick, Crash(k) PROVE Affordable'
  BY <1>4, AffordableEnd DEF Crash
<1> QED
  BY <1>1, <1>2, <1>3, <1>4 DEF Next

(* As long as ticks do not overlap, no rule of any kind trades more often  *)
(* than its allowance, but for one more per crash. Two overlapping ticks   *)
(* that both listed a rule before either saved it both fire it.            *)
THEOREM TradesWithinAllowance ==
  ASSUME OneTick
  PROVE  Spec => []NeverRefires
<1>1. Init => Typed /\ Affordable
  BY TypedInit, AffordableInit
<1>2. Typed /\ Affordable /\ [Next]_vars => (Typed /\ Affordable)'
  BY TypedNext, AffordableNext
<1>3. Typed /\ Affordable => NeverRefires
  BY DEF Affordable
<1> QED
  BY <1>1, <1>2, <1>3, PTL DEF Spec

-----------------------------------------------------------------------------
(* While ticks do not overlap, the rules a tick has still to deal with are *)
(* active in the store too, not only in the copy it works on.              *)
Listed == \A k \in Tick : \A r \in todo[k] : store[r].status = "active"

LEMMA ListedUpsert ==
  ASSUME Typed, Listed, NEW r \in Rule, NEW e, Upsert(r, e), UNCHANGED todo
  PROVE  Listed'
<1>1. \A s \in Rule : store'[s] = IF s = r THEN IF Anchored(r) THEN Stored(e) ELSE Fresh ELSE store[s]
  BY DEF Upsert, Typed, TypeOK
<1>2. Stored(e).status = "active" /\ Fresh.status = "active"
  BY DEF Stored, Fresh
<1> QED
  BY <1>1, <1>2 DEF Listed, Typed, TypeOK

LEMMA ListedNext == OneTick /\ Typed /\ Listed /\ [Next]_vars => Listed'
<1> SUFFICES ASSUME OneTick, Typed, Listed, [Next]_vars PROVE Listed'
  OBVIOUS
<1>t. todo \in [Tick -> SUBSET Rule] /\ store \in [Rule -> RuleState] /\ cur \in [Tick -> Rule]
  BY DEF Typed, TypeOK
<1>1. ASSUME UNCHANGED <<store, todo>> PROVE Listed'
  BY <1>1 DEF Listed
<1>2. CASE UNCHANGED vars \/ Start \/ Stop \/ Move
  BY <1>1, <1>2 DEF vars, Start, Stop, Move, tickVars
<1>3. ASSUME NEW r \in Rule, Arm(r) PROVE Listed'
  BY <1>3, ListedUpsert DEF Arm, tickVars
<1>4. ASSUME NEW k \in Tick, Fire(k) PROVE Listed'
  BY <1>4, <1>t DEF Fire, Listed, Active
<1>5. ASSUME NEW k \in Tick, Proceed(k), UNCHANGED store PROVE Listed'
  BY <1>5, <1>t DEF Proceed, Listed
<1>6. ASSUME NEW k \in Tick, Step(k) PROVE Listed'
  <2>1. CASE AskPrice(k) \/ Publish(k)
    BY <1>1, <2>1 DEF AskPrice, Publish
  <2>2. CASE Decide(k)
    BY <1>1, <1>5, <2>2 DEF Decide
  <2>3. CASE Save(k)
    <3>1. \A j \in Tick : j = k
      BY DEF OneTick
    <3>2. todo'[k] = todo[k] \ {cur[k]} /\ store' = [store EXCEPT ![cur[k]] = plan[k].next]
      BY <2>3, <1>t DEF Save, Proceed
    <3>3. \A r \in todo'[k] : store'[r] = store[r] /\ store[r].status = "active"
      BY <1>t, <3>2 DEF Listed
    <3> QED
      BY <3>1, <3>3 DEF Listed
  <2> QED
    BY <1>6, <2>1, <2>2, <2>3 DEF Step
<1>7. ASSUME NEW k \in Tick, Crash(k) PROVE Listed'
  BY <1>7 DEF Crash, ProcessEnds, Listed
<1> QED
  BY <1>2, <1>3, <1>4, <1>6, <1>7 DEF Next

(* A rule that has triggered or is done is not brought back to life by the *)
(* upsert of a tick that listed it while it was active: only a new arming  *)
(* makes it active again, as long as ticks do not overlap.                 *)
THEOREM RetiredForGood ==
  ASSUME OneTick
  PROVE  Spec => StaysRetired
<1> DEFINE A == \A r \in Rule :
                  (store[r].status \in {"triggered", "done"} /\ store'[r].status = "active")
                    => armed'[r] # armed[r]
<1>1. Init => Typed /\ Listed
  BY TypedInit DEF Init, Rested, Listed
<1>2. Typed /\ Listed /\ [Next]_vars => (Typed /\ Listed)'
  BY TypedNext, ListedNext
<1>3. Typed /\ Listed /\ [Next]_vars => [A]_vars
  <2> SUFFICES ASSUME Typed, Listed, Next, NEW r \in Rule,
                      store[r].status \in {"triggered", "done"}, store'[r].status = "active"
               PROVE  armed'[r] # armed[r]
    BY DEF vars
  <2>1. store'[r] # store[r]
    OBVIOUS
  <2>t. store \in [Rule -> RuleState] /\ armed \in [Rule -> Nat]
    BY DEF Typed, TypeOK
  <2>2. CASE Start \/ Stop \/ Move
    BY <2>1, <2>2 DEF Start, Stop, Move
  <2>3. ASSUME NEW s \in Rule, Arm(s) PROVE armed'[r] # armed[r]
    BY <2>1, <2>3, <2>t DEF Arm, Upsert
  <2>4. ASSUME NEW k \in Tick, Fire(k) \/ AskPrice(k) \/ Decide(k) \/ Publish(k) \/ Crash(k) PROVE FALSE
    BY <2>1, <2>4 DEF Fire, AskPrice, Decide, Publish, Crash
  <2>5. ASSUME NEW k \in Tick, Save(k) PROVE FALSE
    <3>1. cur[k] \in todo[k] /\ store' = [store EXCEPT ![cur[k]] = plan[k].next]
      BY <2>5 DEF Save, Typed, TypeOK
    <3>2. store[cur[k]].status = "active"
      BY <3>1 DEF Listed
    <3>3. r = cur[k]
      BY <2>1, <2>t, <3>1
    <3> QED
      BY <3>2, <3>3
  <2> QED
    BY <2>2, <2>3, <2>4, <2>5 DEF Next, Step
<1> QED
  BY <1>1, <1>2, <1>3, PTL DEF Spec, StaysRetired

-----------------------------------------------------------------------------
(* The rules the worker arms are of the types they are meant to be.        *)
LEMMA ArmedRules ==
  /\ SnipeRule \in Rule /\ Type(SnipeRule) = "snipe"
  /\ ProfitRule \in Rule /\ Type(ProfitRule) = "take-profit"
  /\ StopRule \in Rule /\ Type(StopRule) \in Exits \ {"take-profit"}
  /\ SnipeRule # ProfitRule /\ SnipeRule # StopRule /\ ProfitRule # StopRule
<1>1. SnipeRule \in Rule /\ Type(SnipeRule) = "snipe"
  BY WorkerAssumption DEF SnipeRule
<1>2. ProfitRule \in Rule /\ Type(ProfitRule) = "take-profit"
  BY WorkerAssumption DEF ProfitRule
<1>3. StopRule \in Rule /\ Type(StopRule) \in Exits \ {"take-profit"}
  BY WorkerAssumption DEF StopRule
<1>4. Type(StopRule) # Type(SnipeRule) /\ Type(StopRule) # Type(ProfitRule)
      /\ Type(SnipeRule) # Type(ProfitRule)
  BY <1>1, <1>2, <1>3 DEF Exits
<1> QED
  BY <1>1, <1>2, <1>3, <1>4

(* The worker's own variables and their types.                              *)
OwnTypes ==
  /\ pools \in 0..MaxPools /\ detected \in 0..pools /\ failures \in 0..MaxFailures
  /\ sniper \in {"idle", "arming"} /\ registry \in BOOLEAN
  /\ requests \in [Sides -> Seq(Nat)]
  /\ trading \in [Sides -> {NoIntent} \cup [side : Sides, amount : Nat]]
  /\ fills \in Seq(Price)
  /\ armer \in [step : {"idle", "profit", "stop"}, entry : Price \cup {0}]

(* What the worker does to the runner: a step of it, the upsert of a rule, *)
(* the end of the process, a move of the market or the book, or nothing.   *)
Upserts == \E r \in {SnipeRule, ProfitRule, StopRule}, e \in Price \cup {0} :
             Upsert(r, e) /\ UNCHANGED <<timer, tickVars, world, emitted, crashes>>
Ends  == crashes < MaxCrashes /\ ProcessEnds /\ UNCHANGED <<store, world, history>>
Moves == price' \in Price /\ held' \in Nat /\ UNCHANGED <<store, timer, tickVars, now, history, crashes>>

RunnerStep == [Next]_vars \/ Upserts \/ Ends \/ Moves

LEMMA WorkerStepsRunner ==
  ASSUME Typed, OwnTypes, [WorkerNext]_allVars
  PROVE  RunnerStep
<1>1. CASE UNCHANGED allVars
  BY <1>1 DEF allVars, RunnerStep
<1>2. CASE Detect \/ SniperLooks \/ ArmerReads \/ RunnerStarts
  BY <1>2 DEF Detect, SniperLooks, ArmerReads, RunnerStarts, RunnerStep, Next
<1>3. CASE SniperArms \/ ArmsProfit \/ ArmsStop
  <2>1. armer.entry \in Price \cup {0}
    BY DEF OwnTypes
  <2> QED
    BY <1>3, <2>1 DEF SniperArms, ArmsProfit, ArmsStop, RunnerStep, Upserts
<1>4. CASE Restart
  BY <1>4 DEF Restart, RunnerStep, Ends
<1>5. CASE PriceMoves
  BY <1>5 DEF PriceMoves, RunnerStep, Moves, Typed, TypeOK
<1>6. ASSUME NEW k \in Tick, TickStarts(k) \/ TickStep(k) \/ Emit(k) PROVE RunnerStep
  BY <1>6 DEF TickStarts, TickStep, Emit, RunnerStep, Next, Step
<1>7. ASSUME NEW s \in Sides, Take(s) \/ TradeFails(s) PROVE RunnerStep
  BY <1>7 DEF Take, TradeFails, RunnerStep
<1>8. ASSUME NEW s \in Sides, Trade(s) PROVE RunnerStep
  <2>1. held \in Nat /\ price \in Price /\ Fill \in Nat
    BY RunnerAssumption, WorkerAssumption DEF Typed, TypeOK
  <2>2. UNCHANGED <<store, timer, tickVars, price, now, history, crashes>>
    BY <1>8 DEF Trade
  <2>3. CASE held' = held + Fill
    BY <2>1, <2>2, <2>3 DEF RunnerStep, Moves
  <2>t. trading[s].amount \in Nat
    BY DEF OwnTypes, NoIntent
  <2>4. CASE held' = IF trading[s].amount < held THEN held - trading[s].amount ELSE 0
    <3>1. CASE held' = 0
      BY <2>1, <2>2, <3>1 DEF RunnerStep, Moves
    <3>2. CASE held' # 0
      BY <2>1, <2>2, <2>t, <2>4, <3>2 DEF RunnerStep, Moves
    <3> QED
      BY <3>1, <3>2
  <2> QED
    BY <1>8, <2>3, <2>4 DEF Trade
<1> QED
  BY <1>1, <1>2, <1>3, <1>4, <1>5, <1>6, <1>7, <1>8 DEF WorkerNext, Sniper, Armer

LEMMA OwnNext == Typed /\ OwnTypes /\ [WorkerNext]_allVars => OwnTypes'
<1> SUFFICES ASSUME Typed, OwnTypes, [WorkerNext]_allVars PROVE OwnTypes'
  OBVIOUS
<1>0. /\ MaxPools \in Nat /\ MaxFailures \in Nat /\ price \in Price
      /\ pools \in Nat /\ detected \in Nat /\ failures \in Nat
  BY WorkerAssumption DEF Typed, TypeOK, OwnTypes
<1>1. CASE UNCHANGED workerVars
  BY <1>1 DEF workerVars, OwnTypes
<1>2. CASE Detect
  BY <1>0, <1>2 DEF Detect, OwnTypes
<1>3. CASE Sniper
  <2>1. UNCHANGED <<pools, requests, trading, fills, armer, failures>>
    BY <1>3 DEF Sniper, SniperLooks, SniperArms
  <2>2. detected' \in 0..pools /\ registry' \in BOOLEAN
    <3>1. detected \in 0..pools /\ registry \in BOOLEAN
      BY DEF OwnTypes
    <3>2. CASE SniperLooks
      <4>1. detected' = detected - 1 /\ detected > 0 /\ registry' = TRUE
        BY <3>2 DEF SniperLooks
      <4> QED
        BY <1>0, <3>1, <4>1
    <3>3. CASE SniperArms
      BY <3>1, <3>3 DEF SniperArms
    <3> QED
      BY <1>3, <3>2, <3>3 DEF Sniper
  <2>3. sniper' \in {"idle", "arming"}
    BY <1>3 DEF Sniper, SniperLooks, SniperArms
  <2> QED
    BY <2>1, <2>2, <2>3 DEF OwnTypes
<1>4. CASE ArmerReads
  <2>1. Head(fills) \in Price /\ Tail(fills) \in Seq(Price)
    BY <1>4 DEF ArmerReads, OwnTypes
  <2> QED
    BY <1>4, <2>1 DEF ArmerReads, OwnTypes, Resting
<1>5. CASE ArmsProfit \/ ArmsStop
  <2>1. /\ UNCHANGED <<pools, detected, registry, requests, trading, fills, failures, sniper>>
        /\ armer' = Resting \/ armer' = [armer EXCEPT !.step = "stop"]
    BY <1>5 DEF ArmsProfit, ArmsStop
  <2>2. armer' \in [step : {"idle", "profit", "stop"}, entry : Price \cup {0}]
    BY <2>1 DEF Resting, OwnTypes
  <2> QED
    BY <2>1, <2>2 DEF OwnTypes
<1>6. CASE Restart
  BY <1>6 DEF Restart, OwnTypes, Resting
<1>7. ASSUME NEW k \in Tick, Emit(k) PROVE OwnTypes'
  <2> DEFINE s == plan[k].intent.side
             a == plan[k].intent.amount
  <2>1. a \in Nat
    BY DEF Typed, PlanOK
  <2>2. \A q \in Seq(Nat) : Append(q, a) \in Seq(Nat)
    BY <2>1
  <2>3. requests' \in [Sides -> Seq(Nat)]
    BY <1>7, <2>2 DEF Emit, OwnTypes
  <2> QED
    BY <1>7, <2>3 DEF Emit, OwnTypes
<1>8. ASSUME NEW s \in Sides, Take(s) PROVE OwnTypes'
  <2>1. requests[s] \in Seq(Nat) /\ requests[s] # <<>>
    BY <1>8 DEF Take, OwnTypes
  <2>2. Head(requests[s]) \in Nat /\ Tail(requests[s]) \in Seq(Nat)
    BY <2>1
  <2>3. requests' \in [Sides -> Seq(Nat)]
    BY <1>8, <2>2 DEF Take, OwnTypes
  <2>4. trading' \in [Sides -> {NoIntent} \cup [side : Sides, amount : Nat]]
    BY <1>8, <2>2 DEF Take, OwnTypes
  <2> QED
    BY <1>8, <2>3, <2>4 DEF Take, OwnTypes
<1>9. ASSUME NEW s \in Sides, Trade(s) PROVE OwnTypes'
  <2>1. Append(fills, price) \in Seq(Price)
    BY <1>0 DEF OwnTypes
  <2>2. trading' \in [Sides -> {NoIntent} \cup [side : Sides, amount : Nat]]
    BY <1>9 DEF Trade, OwnTypes
  <2> QED
    BY <1>9, <2>1, <2>2 DEF Trade, OwnTypes
<1>10. ASSUME NEW s \in Sides, TradeFails(s) PROVE OwnTypes'
  BY <1>0, <1>10 DEF TradeFails, OwnTypes
<1> QED
  BY <1>1, <1>2, <1>3, <1>4, <1>5, <1>6, <1>7, <1>8, <1>9, <1>10
  DEF WorkerNext, Armer, allVars, RunnerStarts, PriceMoves, TickStarts, TickStep

(* The runner's invariants hold in the worker too: what else happens there *)
(* keeps them.                                                             *)
LEMMA TypedWorker ==
  ASSUME Typed, RunnerStep
  PROVE  Typed'
<1>1. CASE [Next]_vars
  BY <1>1, TypedNext
<1>2. CASE Upserts
  <2>1. PICK r \in Rule, e \in Price \cup {0} :
          Upsert(r, e) /\ UNCHANGED <<timer, tickVars, world, emitted, crashes>>
    BY <1>2, ArmedRules DEF Upserts
  <2>2. store' \in [Rule -> RuleState] /\ armed' \in [Rule -> Nat]
    BY <2>1, StoredTyped DEF Upsert, Typed, TypeOK, Fresh
  <2> QED
    BY <2>1, <2>2 DEF tickVars, world, Typed, TypeOK, PlanOK, ListOK
<1>3. CASE Ends
  <2>1. /\ copy' \in [Tick -> [Rule -> RuleState]] /\ cur' \in [Tick -> Rule] /\ PlanOK'
    BY <1>3, StoredTyped DEF Ends, ProcessEnds, PlanOK
  <2>2. /\ phase' \in [Tick -> Phases] /\ todo' \in [Tick -> SUBSET Rule] /\ timer' \in BOOLEAN
        /\ quote' \in [Tick -> Price \cup {NoPrice}] /\ ListOK'
        /\ \A j \in Tick : phase'[j] = "idle"
    BY <1>3 DEF Ends, ProcessEnds, ListOK, Phases
  <2>3. crashes' \in 0..MaxCrashes
    BY <1>3, RunnerAssumption DEF Ends, ProcessEnds, Typed, TypeOK
  <2> QED
    BY <1>3, <2>1, <2>2, <2>3 DEF Ends, world, history, Typed, TypeOK
<1>4. CASE Moves
  BY <1>4 DEF Moves, tickVars, history, Typed, TypeOK, PlanOK, ListOK
<1> QED
  BY <1>1, <1>2, <1>3, <1>4 DEF RunnerStep

LEMMA AffordableWorker ==
  ASSUME OneTick, Typed, Affordable, RunnerStep
  PROVE  Affordable'
<1>1. CASE [Next]_vars
  BY <1>1, AffordableNext
<1>2. CASE Upserts
  <2>1. PICK r \in {SnipeRule, ProfitRule, StopRule}, e \in Price \cup {0} :
          Upsert(r, e) /\ UNCHANGED <<timer, tickVars, world, emitted, crashes>>
    BY <1>2 DEF Upserts
  <2>2. r \in Rule /\ Type(r) # "dca"
    BY ArmedRules DEF Exits
  <2> QED
    BY <2>1, <2>2, AffordableUpsert
<1>3. CASE Ends
  BY <1>3, AffordableEnd DEF Ends
<1>4. CASE Moves
  BY <1>4, AffordableIdle DEF Moves, tickVars, history
<1> QED
  BY <1>1, <1>2, <1>3, <1>4 DEF RunnerStep

LEMMA ListedWorker ==
  ASSUME OneTick, Typed, Listed, RunnerStep
  PROVE  Listed'
<1>1. CASE [Next]_vars
  BY <1>1, ListedNext
<1>2. CASE Upserts
  BY <1>2, ListedUpsert, ArmedRules DEF Upserts, tickVars
<1>3. CASE Ends
  BY <1>3 DEF Ends, ProcessEnds, Listed
<1>4. CASE Moves
  BY <1>4 DEF Moves, tickVars, Listed
<1> QED
  BY <1>1, <1>2, <1>3, <1>4 DEF RunnerStep

(* The worker starts with an empty table.                                  *)
LEMMA WorkerInitTyped == WorkerInit => Typed /\ OwnTypes /\ Listed /\ Affordable
<1> SUFFICES ASSUME WorkerInit PROVE Typed /\ OwnTypes /\ Listed /\ Affordable
  OBVIOUS
<1>1. store \in [Rule -> RuleState] /\ armed \in [Rule -> Nat]
  BY StoredTyped DEF WorkerInit
<1>2. /\ copy \in [Tick -> [Rule -> RuleState]] /\ cur \in [Tick -> Rule]
      /\ phase \in [Tick -> Phases] /\ todo \in [Tick -> SUBSET Rule] /\ PlanOK
  BY StoredTyped DEF WorkerInit, Rested, Phases, PlanOK
<1>3. \A k \in Tick : phase[k] = "idle" /\ todo[k] = {}
  BY DEF WorkerInit, Rested
<1>4. /\ timer \in BOOLEAN /\ price \in Price /\ held \in Nat /\ now \in 0..MaxTime
      /\ crashes \in 0..MaxCrashes
  <2>1. timer = FALSE /\ price \in Price /\ held = 0 /\ now = 1 /\ crashes = 0
    BY DEF WorkerInit, Rested
  <2>2. MaxTime \in Nat \ {0} /\ MaxCrashes \in Nat
    BY RunnerAssumption
  <2>3. 1 \in 0..MaxTime /\ 0 \in 0..MaxCrashes
    BY <2>2
  <2> QED
    BY <2>1, <2>3, Zenon
<1>5. quote \in [Tick -> Price \cup {NoPrice}] /\ emitted \in [Rule -> Nat]
  BY DEF WorkerInit, Rested
<1>6. Typed /\ Listed
  BY <1>1, <1>2, <1>3, <1>4, <1>5 DEF Typed, TypeOK, ListOK, Listed
<1>7. OwnTypes
  <2>1. <<>> \in Seq(Nat) /\ <<>> \in Seq(Price)
    OBVIOUS
  <2>2. /\ requests \in [Sides -> Seq(Nat)] /\ fills \in Seq(Price)
        /\ trading \in [Sides -> {NoIntent} \cup [side : Sides, amount : Nat]]
    BY <2>1 DEF WorkerInit
  <2>3. /\ pools = 0 /\ detected = 0 /\ sniper = "idle" /\ registry = FALSE /\ failures = 0
        /\ armer = [step |-> "idle", entry |-> 0] /\ MaxPools \in Nat /\ MaxFailures \in Nat
    BY WorkerAssumption DEF WorkerInit, Resting
  <2>4. pools \in 0..MaxPools /\ detected \in 0..pools /\ failures \in 0..MaxFailures
    BY <2>3
  <2>5. armer \in [step : {"idle", "profit", "stop"}, entry : Price \cup {0}]
    BY <2>3
  <2>6. sniper \in {"idle", "arming"} /\ registry \in BOOLEAN
    BY <2>3, Zenon
  <2> QED
    BY <2>2, <2>4, <2>5, <2>6 DEF OwnTypes
<1>8. \A r \in Rule : /\ emitted[r] = 0 /\ Left(r, store[r]) = 0
                      /\ Allowance(r) \in Nat /\ Budget(r) \in Nat
  BY <1>6, Numbers DEF WorkerInit, Rested, Left, Absent, Fresh, Stored
<1>9. crashes = 0
  BY DEF WorkerInit, Rested
<1>10. NeverRefires /\ StoredAffordable
  BY <1>8, <1>9 DEF NeverRefires, StoredAffordable, Budget
<1>11. CopiesAffordable /\ PlansAffordable
  BY <1>3 DEF CopiesAffordable, PlansAffordable
<1> QED
  BY <1>6, <1>7, <1>10, <1>11 DEF Affordable

(* The worker never leaves its types, whatever its parts do to each other. *)
THEOREM WorkerTypeCorrect == WorkerSpec => []WorkerTypeOK
<1>1. WorkerInit => Typed /\ OwnTypes
  BY WorkerInitTyped
<1>2. Typed /\ OwnTypes /\ [WorkerNext]_allVars => (Typed /\ OwnTypes)'
  BY WorkerStepsRunner, TypedWorker, OwnNext
<1>3. Typed /\ OwnTypes => WorkerTypeOK
  BY DEF Typed, OwnTypes, WorkerTypeOK
<1> QED
  BY <1>1, <1>2, <1>3, PTL DEF WorkerSpec

-----------------------------------------------------------------------------
(* No plan takes a rule out of the table.                                  *)
Kept == \A k \in Tick : phase[k] \in {"publish", "save"} => plan[k].next.status # "absent"

LEMMA KeptNext == Typed /\ Kept /\ [Next]_vars => Kept'
<1> SUFFICES ASSUME Typed, Kept, [Next]_vars PROVE Kept'
  OBVIOUS
<1>t. phase \in [Tick -> Phases] /\ plan = [k \in Tick |-> plan[k]]
  BY DEF Typed, TypeOK, PlanOK
<1>1. ASSUME UNCHANGED <<phase, plan>> PROVE Kept'
  BY <1>1 DEF Kept
<1>2. CASE UNCHANGED vars \/ Start \/ Stop \/ Move
  BY <1>1, <1>2 DEF vars, Start, Stop, Move, tickVars
<1>3. ASSUME NEW r \in Rule, Arm(r) PROVE Kept'
  BY <1>1, <1>3 DEF Arm, tickVars
<1>4. ASSUME NEW k \in Tick, Fire(k) \/ AskPrice(k) \/ Publish(k) PROVE Kept'
  BY <1>4, <1>t DEF Fire, AskPrice, Publish, Kept
<1>5. ASSUME NEW k \in Tick, Proceed(k) PROVE Kept'
  <2>1. \A j \in Tick : j # k => phase'[j] = phase[j] /\ plan'[j] = plan[j]
    BY <1>5, <1>t DEF Proceed
  <2>2. phase'[k] \in {"idle", "next"}
    BY <1>5, <1>t DEF Proceed
  <2> QED
    BY <2>1, <2>2 DEF Kept
<1>6. ASSUME NEW k \in Tick, Save(k) PROVE Kept'
  BY <1>5, <1>6 DEF Save
<1>7. ASSUME NEW k \in Tick, Decide(k) PROVE Kept'
  <2> DEFINE decision == Evaluate(Params[cur[k]], copy[k][cur[k]], quote[k], held, now)
  <2>1. CASE decision = Wait(copy[k][cur[k]])
    BY <1>5, <1>7, <2>1 DEF Decide
  <2>2. CASE decision # Wait(copy[k][cur[k]])
    <3>1. plan' = [plan EXCEPT ![k] = decision] /\ phase[k] = "position"
      BY <1>7, <2>2 DEF Decide
    <3>2. cur[k] \in todo[k] /\ held \in Nat /\ now \in Nat
      BY <3>1, RunnerAssumption DEF Typed, TypeOK
    <3>3. Sound(cur[k], copy[k][cur[k]], decision)
      BY <3>2, Decisions DEF Typed, TypeOK, ListOK
    <3>4. decision.next.status # "absent"
      BY <3>3 DEF Sound
    <3>5. \A j \in Tick : j # k => phase'[j] = phase[j]
      BY <1>7, <2>2, <1>t DEF Decide
    <3> HIDE DEF decision
    <3> QED
      BY <1>t, <3>1, <3>4, <3>5 DEF Kept
  <2> QED
    BY <2>1, <2>2
<1>8. ASSUME NEW k \in Tick, Crash(k) PROVE Kept'
  BY <1>8 DEF Crash, ProcessEnds, Kept
<1> QED
  BY <1>2, <1>3, <1>4, <1>6, <1>7, <1>8 DEF Next, Step

LEMMA KeptWorker ==
  ASSUME Typed, Kept, RunnerStep
  PROVE  Kept'
<1>1. CASE [Next]_vars
  BY <1>1, KeptNext
<1>2. CASE Upserts \/ Moves
  BY <1>2 DEF Upserts, Moves, tickVars, Kept
<1>3. CASE Ends
  BY <1>3 DEF Ends, ProcessEnds, Kept
<1> QED
  BY <1>1, <1>2, <1>3 DEF RunnerStep

(* What the runner's rules promise in the worker too.                      *)
RunnerInv == Typed /\ OwnTypes /\ Listed /\ Affordable /\ Kept

LEMMA RunnerInvInit == WorkerInit => RunnerInv
  BY WorkerInitTyped DEF WorkerInit, Rested, Kept, RunnerInv

LEMMA RunnerInvNext ==
  ASSUME OneTick
  PROVE  RunnerInv /\ [WorkerNext]_allVars => RunnerInv'
  BY WorkerStepsRunner, TypedWorker, OwnNext, AffordableWorker, ListedWorker, KeptWorker
  DEF RunnerInv

(* The snipe rule is in the table from its one arming on; the sniper arms  *)
(* it only when it is not, and nobody else does.                           *)
SnipeArmedOnce ==
  /\ armed[SnipeRule] <= 1
  /\ store[SnipeRule].status = "absent" <=> armed[SnipeRule] = 0
  /\ sniper = "arming" => store[SnipeRule].status = "absent"

LEMMA SnipeStep ==
  ASSUME OneTick
  PROVE  RunnerInv /\ SnipeArmedOnce /\ [WorkerNext]_allVars => SnipeArmedOnce'
<1> SUFFICES ASSUME RunnerInv, SnipeArmedOnce, [WorkerNext]_allVars PROVE SnipeArmedOnce'
  OBVIOUS
<1>t. /\ store \in [Rule -> RuleState] /\ armed \in [Rule -> Nat] /\ SnipeRule \in Rule
      /\ SnipeRule # ProfitRule /\ SnipeRule # StopRule
  BY ArmedRules DEF RunnerInv, Typed, TypeOK
<1>1. ASSUME UNCHANGED <<store, armed>>, sniper' \in {sniper, "idle"} PROVE SnipeArmedOnce'
  BY <1>1 DEF SnipeArmedOnce
<1>2. ASSUME NEW r \in Rule, NEW e, Upsert(r, e), r # SnipeRule, UNCHANGED sniper PROVE SnipeArmedOnce'
  <2>1. store'[SnipeRule] = store[SnipeRule] /\ armed'[SnipeRule] = armed[SnipeRule]
    BY <1>2, <1>t DEF Upsert
  <2> QED
    BY <1>2, <2>1 DEF SnipeArmedOnce
<1>3. CASE UNCHANGED allVars \/ Detect \/ ArmerReads \/ RunnerStarts \/ PriceMoves \/ Restart
  BY <1>1, <1>3 DEF allVars, vars, history, workerVars, Detect, ArmerReads, RunnerStarts, Start,
     PriceMoves, Restart
<1>4. CASE SniperLooks
  BY <1>4 DEF SniperLooks, SnipeArmedOnce, vars, history
<1>5. CASE SniperArms
  <2>1. /\ Upsert(SnipeRule, 0) /\ sniper = "arming" /\ sniper' = "idle"
    BY <1>5 DEF SniperArms
  <2>2. armed[SnipeRule] = 0 /\ armed'[SnipeRule] = armed[SnipeRule] + 1
    BY <2>1, <1>t DEF Upsert, SnipeArmedOnce
  <2>3. store'[SnipeRule].status = "active"
    BY <2>1, <1>t DEF Upsert, Stored, Fresh
  <2> QED
    BY <2>1, <2>2, <2>3 DEF SnipeArmedOnce
<1>6. CASE ArmsProfit \/ ArmsStop
  BY <1>2, <1>6, ArmedRules DEF ArmsProfit, ArmsStop
<1>7. ASSUME NEW k \in Tick, TickStarts(k) \/ Emit(k) PROVE SnipeArmedOnce'
  BY <1>1, <1>7 DEF TickStarts, Fire, Emit, Publish, workerVars, history
<1>8. ASSUME NEW k \in Tick, TickStep(k) PROVE SnipeArmedOnce'
  <2>1. CASE AskPrice(k) \/ Decide(k)
    BY <1>1, <1>8, <2>1 DEF TickStep, AskPrice, Decide, workerVars, history
  <2>2. CASE Save(k)
    <3>1. /\ UNCHANGED <<armed, sniper>> /\ cur[k] \in todo[k] /\ phase[k] = "save"
          /\ store' = [store EXCEPT ![cur[k]] = plan[k].next]
      BY <1>8, <2>2 DEF TickStep, Save, workerVars, history, RunnerInv, Typed, TypeOK
    <3>2. store[cur[k]].status = "active" /\ plan[k].next.status # "absent"
      BY <3>1 DEF RunnerInv, Listed, Kept
    <3>3. store[SnipeRule].status = "absent" <=> store'[SnipeRule].status = "absent"
      BY <1>t, <3>1, <3>2
    <3> QED
      BY <3>1, <3>3 DEF SnipeArmedOnce
  <2> QED
    BY <1>8, <2>1, <2>2 DEF TickStep
<1>9. ASSUME NEW s \in Sides, Take(s) \/ Trade(s) \/ TradeFails(s) PROVE SnipeArmedOnce'
  BY <1>1, <1>9 DEF Take, Trade, TradeFails, vars, history
<1> QED
  BY <1>3, <1>4, <1>5, <1>6, <1>7, <1>8, <1>9 DEF WorkerNext, Sniper, Armer

(* A token is sniped once, however many pools of it are detected and       *)
(* whatever trades, fails or restarts meanwhile; each restart may cost one *)
(* more buy. Two overlapping ticks could each fire the rule.               *)
THEOREM SnipedOnce ==
  ASSUME OneTick
  PROVE  WorkerSpec => []OneSnipe
<1>1. WorkerInit => RunnerInv /\ SnipeArmedOnce
  <2>1. Absent.status = "absent"
    BY DEF Absent, Fresh, Stored
  <2> QED
    BY <2>1, RunnerInvInit, ArmedRules DEF WorkerInit, SnipeArmedOnce
<1>2. RunnerInv /\ SnipeArmedOnce /\ [WorkerNext]_allVars => (RunnerInv /\ SnipeArmedOnce)'
  BY RunnerInvNext, SnipeStep
<1>3. RunnerInv /\ SnipeArmedOnce => OneSnipe
  <2> SUFFICES ASSUME RunnerInv, SnipeArmedOnce PROVE OneSnipe
    OBVIOUS
  <2>1. emitted[SnipeRule] <= Allowance(SnipeRule) + crashes
    BY ArmedRules DEF RunnerInv, Affordable, NeverRefires
  <2>2. Allowance(SnipeRule) = armed[SnipeRule]
    BY ArmedRules DEF Allowance
  <2>3. crashes \in Nat /\ emitted[SnipeRule] \in Nat /\ armed[SnipeRule] \in Nat
    BY ArmedRules, RunnerAssumption DEF RunnerInv, Typed, TypeOK
  <2> QED
    BY <2>1, <2>2, <2>3 DEF SnipeArmedOnce, OneSnipe
<1> QED
  BY <1>1, <1>2, <1>3, PTL DEF WorkerSpec

-----------------------------------------------------------------------------
(* Exits that sell the whole position, as the exit armer stores them       *)
(* (EXIT_SELL_FRACTION_BPS is 10_000).                                     *)
WholeExits == \A r \in {ProfitRule, StopRule} : Params[r].sellFractionBps = BPS

(* Such an exit sells what is held, or retires because nothing is.         *)
LEMMA WholeFraction ==
  ASSUME NEW h \in Nat
  PROVE  SellFraction(h, BPS) = h
  BY DEF SellFraction, BPS

LEMMA ExitDecisions ==
  ASSUME NEW r \in Rule, Type(r) \in Exits, Params[r].sellFractionBps = BPS,
         NEW st \in RuleState, st.status = "active",
         NEW q \in Price \cup {NoPrice}, NEW h \in Nat, NEW t, NEW d,
         d = Evaluate(Params[r], st, q, h, t)
  PROVE  /\ d.intent = NoIntent /\ d.next.status # "active" => h = 0
         /\ d.intent # NoIntent => d.intent = Sell(h) /\ h # 0
<1> DEFINE p == Params[r]
<1>1. p.type \in Exits /\ p.type = Type(r)
  BY DEF Type
<1>2. /\ Wait(st).intent = NoIntent /\ Wait(st).next.status = "active"
      /\ Retire(st).intent = NoIntent
      /\ Trigger(st, Sell(h)).intent = Sell(h) /\ Sell(h) # NoIntent
  BY DEF Wait, Retire, Trigger, Sell, NoIntent
<1>3. SellFractionActions(p, st, h) = IF h = 0 THEN Wait(st) ELSE Trigger(st, Sell(h))
  BY WholeFraction DEF SellFractionActions
<1>4. CASE p.type = "take-profit"
  <2>1. d = TakeProfit(p, st, q, h)
    BY <1>4 DEF Evaluate
  <2> QED
    BY <1>2, <1>3, <2>1 DEF TakeProfit
<1>5. CASE p.type = "stop-loss"
  <2>1. d = StopLoss(p, st, q, h)
    BY <1>5 DEF Evaluate
  <2> QED
    BY <1>2, <1>3, <2>1 DEF StopLoss
<1>6. CASE p.type = "trailing-stop"
  <2>1. d = TrailingStop(p, st, q, h)
    BY <1>6 DEF Evaluate
  <2>2. \A high : [st EXCEPT !.highWaterMark = high].status = "active"
    BY DEF RuleState
  <2> QED
    BY <1>2, <1>3, <2>1, <2>2 DEF TrailingStop
<1> QED
  BY <1>1, <1>4, <1>5, <1>6 DEF Exits

(* The sniper only buys.                                                   *)
LEMMA SnipeDecisions ==
  ASSUME NEW r \in Rule, Type(r) = "snipe", NEW st, NEW q, NEW h, NEW t, NEW d,
         d = Evaluate(Params[r], st, q, h, t), d.intent # NoIntent
  PROVE  d.intent.side = "buy"
<1>1. d = Snipe(Params[r], st, q, h)
  BY DEF Evaluate, Type
<1> QED
  BY <1>1 DEF Snipe, Wait, Buy

(* Only the three rules are ever in the table.                             *)
Mine == {SnipeRule, ProfitRule, StopRule}
Unarmed == \A r \in Rule \ Mine : store[r].status = "absent"

LEMMA UnarmedStep ==
  ASSUME RunnerInv, Unarmed, [WorkerNext]_allVars
  PROVE  Unarmed'
<1>t. store \in [Rule -> RuleState] /\ cur \in [Tick -> Rule]
  BY DEF RunnerInv, Typed, TypeOK
<1>1. ASSUME UNCHANGED store PROVE Unarmed'
  BY <1>1 DEF Unarmed
<1>2. ASSUME NEW r \in Mine, NEW e, Upsert(r, e) PROVE Unarmed'
  BY <1>2, <1>t DEF Upsert, Unarmed
<1>3. CASE UNCHANGED allVars \/ Detect \/ SniperLooks \/ ArmerReads \/ RunnerStarts \/ PriceMoves \/ Restart
  BY <1>1, <1>3 DEF allVars, vars, Detect, SniperLooks, ArmerReads, RunnerStarts, Start,
     PriceMoves, Restart
<1>4. CASE SniperArms \/ ArmsProfit \/ ArmsStop
  BY <1>2, <1>4 DEF SniperArms, ArmsProfit, ArmsStop, Mine
<1>5. ASSUME NEW k \in Tick, TickStarts(k) \/ Emit(k) PROVE Unarmed'
  BY <1>1, <1>5 DEF TickStarts, Fire, Emit, Publish
<1>6. ASSUME NEW k \in Tick, TickStep(k) PROVE Unarmed'
  <2>1. CASE AskPrice(k) \/ Decide(k)
    BY <1>1, <2>1 DEF AskPrice, Decide
  <2>2. CASE Save(k)
    <3>1. cur[k] \in todo[k] /\ store' = [store EXCEPT ![cur[k]] = plan[k].next]
      BY <2>2 DEF Save, RunnerInv, Typed, TypeOK
    <3>2. store[cur[k]].status = "active"
      BY <3>1 DEF RunnerInv, Listed
    <3>3. cur[k] \in Mine
      BY <1>t, <3>2 DEF Unarmed
    <3> QED
      BY <1>t, <3>1, <3>3 DEF Unarmed
  <2> QED
    BY <1>6, <2>1, <2>2 DEF TickStep
<1>7. ASSUME NEW s \in Sides, Take(s) \/ Trade(s) \/ TradeFails(s) PROVE Unarmed'
  BY <1>1, <1>7 DEF Take, Trade, TradeFails, vars
<1> QED
  BY <1>3, <1>4, <1>5, <1>6, <1>7 DEF WorkerNext, Sniper, Armer

-----------------------------------------------------------------------------
(* Until a trade fails or the process ends there is one buy: asked for,    *)
(* under way or done.                                                      *)
Bought  == fills # <<>> \/ armer # Resting \/ armed[StopRule] > 0
SellOut == requests["sell"] # <<>> \/ trading["sell"] # NoIntent

OneBuy ==
  /\ Len(requests["buy"]) <= 1
  /\ requests["buy"] # <<>> => emitted[SnipeRule] = 1 /\ trading["buy"] = NoIntent /\ ~Bought
  /\ trading["buy"] # NoIntent => emitted[SnipeRule] = 1 /\ ~Bought
  /\ Bought => emitted[SnipeRule] = 1

(* Its exits are armed once, while the pool is known.                      *)
OneArming ==
  /\ fills # <<>> => Len(fills) = 1 /\ armer = Resting /\ armed[StopRule] = 0
  /\ armer # Resting => armed[StopRule] = 0
  /\ armed[StopRule] = 0 => store[StopRule].status = "absent"
  /\ held \in {0, Fill} /\ (held > 0 => Bought)
  /\ sniper = "arming" \/ armed[SnipeRule] > 0 => registry

(* What is sold is all that was bought.                                    *)
AllSold ==
  /\ requests["sell"] \in Seq({Fill})
  /\ trading["sell"] # NoIntent => trading["sell"].amount = Fill
  /\ \A k \in Tick : phase[k] = "publish" =>
       IF cur[k] = SnipeRule THEN plan[k].intent.side = "buy" ELSE plan[k].intent = Sell(Fill)

(* The stop is in force until a sell is out, and is retired only then or   *)
(* when nothing is held.                                                   *)
StopKept ==
  /\ armed[StopRule] > 0 /\ held > 0 => store[StopRule].status = "active" \/ SellOut
  /\ \A k \in Tick : phase[k] = "save" /\ cur[k] = StopRule /\ plan[k].next.status # "active" =>
       Bought /\ (held = 0 \/ SellOut)

StopParts == OneBuy /\ OneArming /\ AllSold /\ StopKept
Quiet   == failures = 0 /\ crashes = 0
StopInv == Quiet => StopParts

WorkerInv == RunnerInv /\ SnipeArmedOnce /\ Unarmed

(* The pool stays known once something was bought.                         *)
LEMMA QuietFacts ==
  ASSUME WorkerInv, StopParts, Quiet
  PROVE  /\ emitted[SnipeRule] \in Nat /\ emitted[SnipeRule] <= armed[SnipeRule]
         /\ armed[SnipeRule] \in Nat /\ armed[SnipeRule] <= 1
         /\ armed[StopRule] \in Nat /\ Fill \in Nat /\ Fill # 0
         /\ emitted[SnipeRule] = 1 => registry
         /\ \A k \in Tick : \A r \in todo[k] : r \in Mine /\ store[r].status = "active"
<1>1. /\ emitted[SnipeRule] \in Nat /\ armed[SnipeRule] \in Nat /\ armed[StopRule] \in Nat
      /\ Fill \in Nat /\ Fill # 0
  BY ArmedRules, RunnerAssumption, WorkerAssumption DEF WorkerInv, RunnerInv, Typed, TypeOK
<1>2. emitted[SnipeRule] <= Allowance(SnipeRule) + crashes
  BY ArmedRules DEF WorkerInv, RunnerInv, Affordable, NeverRefires
<1>3. Allowance(SnipeRule) = armed[SnipeRule]
  BY ArmedRules DEF Allowance
<1>4. emitted[SnipeRule] <= armed[SnipeRule] /\ armed[SnipeRule] <= 1
  BY <1>1, <1>2, <1>3 DEF Quiet, WorkerInv, SnipeArmedOnce
<1>5. emitted[SnipeRule] = 1 => registry
  BY <1>1, <1>4 DEF StopParts, OneArming
<1>6. \A k \in Tick : \A r \in todo[k] : r \in Rule /\ store[r].status = "active"
  BY DEF WorkerInv, RunnerInv, Typed, TypeOK, Listed
<1>7. \A k \in Tick : \A r \in todo[k] : r \in Mine
  BY <1>6 DEF WorkerInv, Unarmed
<1> QED
  BY <1>1, <1>4, <1>5, <1>6, <1>7

(* Steps elsewhere; the pool may become known.                             *)
LEMMA StopElsewhere ==
  ASSUME StopParts, UNCHANGED <<store, armed, emitted, phase, cur, plan, held>>,
         UNCHANGED <<requests, trading, fills, armer>>,
         registry => registry', sniper' = "arming" => sniper = "arming" \/ registry'
  PROVE  StopParts'
<1>1. Bought' = Bought /\ SellOut' = SellOut
  BY DEF Bought, SellOut
<1>2. OneBuy'
  BY <1>1 DEF StopParts, OneBuy
<1>3. OneArming'
  BY <1>1 DEF StopParts, OneArming
<1>4. AllSold' /\ StopKept'
  BY <1>1 DEF StopParts, AllSold, StopKept
<1> QED
  BY <1>2, <1>3, <1>4 DEF StopParts

(* The sniper or the armer stores a rule other than the stop.              *)
LEMMA StopOtherRule ==
  ASSUME WorkerInv, StopParts, NEW r \in Mine \ {StopRule}, NEW e, Upsert(r, e),
         UNCHANGED <<emitted, phase, cur, plan, held>>,
         UNCHANGED <<requests, trading, fills, registry>>,
         armer' = armer \/ (armer # Resting /\ armer' # Resting),
         sniper' # "arming" \/ sniper' = sniper, r = SnipeRule => registry
  PROVE  StopParts'
<1>1. /\ store'[StopRule] = store[StopRule] /\ armed'[StopRule] = armed[StopRule]
      /\ r # SnipeRule => armed'[SnipeRule] = armed[SnipeRule]
  BY ArmedRules DEF Upsert, WorkerInv, RunnerInv, Typed, TypeOK
<1>2. Bought' = Bought /\ SellOut' = SellOut
  BY <1>1 DEF Bought, SellOut
<1>3. OneBuy'
  BY <1>2 DEF StopParts, OneBuy
<1>4. OneArming'
  BY <1>1, <1>2 DEF StopParts, OneArming
<1>5. AllSold' /\ StopKept'
  BY <1>1, <1>2 DEF StopParts, AllSold, StopKept
<1> QED
  BY <1>3, <1>4, <1>5 DEF StopParts

(* The exit armer reads the one fill.                                      *)
LEMMA StopArmerReads ==
  ASSUME WorkerInv, StopParts, Quiet, ArmerReads
  PROVE  StopParts'
<1>1. /\ fills # <<>> /\ armer = Resting /\ fills' = Tail(fills)
      /\ armer' = IF registry THEN [step |-> "profit", entry |-> Head(fills)] ELSE Resting
      /\ UNCHANGED <<store, armed, emitted, phase, cur, plan, held>>
      /\ UNCHANGED <<requests, trading, registry, sniper>>
  BY DEF ArmerReads, vars, tickVars, world, history
<1>2. Len(fills) = 1 /\ armed[StopRule] = 0 /\ fills \in Seq(Price)
  BY <1>1 DEF StopParts, OneArming, WorkerInv, RunnerInv, OwnTypes
<1>3. fills' = <<>>
  BY <1>1, <1>2
<1>4. Bought /\ emitted[SnipeRule] = 1
  BY <1>1 DEF Bought, StopParts, OneBuy
<1>5. armer' # Resting
  BY <1>1, <1>4, QuietFacts DEF Resting
<1>6. Bought' /\ SellOut' = SellOut
  BY <1>1, <1>5 DEF Bought, SellOut
<1>7. OneBuy'
  BY <1>1, <1>4, <1>6 DEF StopParts, OneBuy
<1>8. OneArming'
  BY <1>1, <1>2, <1>3, <1>4, <1>6 DEF StopParts, OneArming
<1>9. AllSold' /\ StopKept'
  BY <1>1, <1>4, <1>6 DEF StopParts, AllSold, StopKept
<1> QED
  BY <1>7, <1>8, <1>9 DEF StopParts

(* It stores the stop, which is active from then on.                       *)
LEMMA StopArmsStop ==
  ASSUME WorkerInv, StopParts, Quiet, ArmsStop
  PROVE  StopParts'
<1>1. /\ armer.step = "stop" /\ Upsert(StopRule, armer.entry) /\ armer' = Resting
      /\ UNCHANGED <<emitted, phase, todo, cur, plan, held>>
      /\ UNCHANGED <<requests, trading, registry, sniper, fills>>
  BY DEF ArmsStop, tickVars, world
<1>2. /\ store'[StopRule].status = "active" /\ armed'[StopRule] = armed[StopRule] + 1
      /\ armed'[SnipeRule] = armed[SnipeRule]
  BY <1>1, ArmedRules DEF Upsert, Stored, Fresh, WorkerInv, RunnerInv, Typed, TypeOK
<1>3. armer # Resting
  BY <1>1 DEF Resting
<1>4. armed[StopRule] = 0 /\ store[StopRule].status = "absent" /\ fills = <<>> /\ Bought
  BY <1>3 DEF StopParts, OneArming, Bought
<1>5. armed'[StopRule] = 1
  BY <1>2, <1>4
<1>6. Bought' /\ SellOut' = SellOut
  BY <1>1, <1>5 DEF Bought, SellOut
<1>7. OneBuy'
  BY <1>1, <1>4, <1>6 DEF StopParts, OneBuy
<1>8. OneArming'
  BY <1>1, <1>2, <1>4, <1>5, <1>6 DEF StopParts, OneArming
<1>9. \A k \in Tick : ~(phase[k] = "save" /\ cur[k] = StopRule)
  BY <1>4, QuietFacts DEF WorkerInv, RunnerInv, Typed, TypeOK
<1>10. AllSold' /\ StopKept'
  BY <1>1, <1>2, <1>6, <1>9 DEF StopParts, AllSold, StopKept
<1> QED
  BY <1>7, <1>8, <1>10 DEF StopParts

(* A tick that starts, asks for a price or goes on has nothing to save.    *)
LEMMA StopTickOn ==
  ASSUME WorkerInv, StopParts, NEW k \in Tick, UNCHANGED <<store, armed, emitted, held>>,
         UNCHANGED <<requests, trading, fills, armer, registry, sniper>>,
         phase'[k] \notin {"publish", "save"},
         \A j \in Tick \ {k} : phase'[j] = phase[j] /\ cur'[j] = cur[j] /\ plan'[j] = plan[j]
  PROVE  StopParts'
<1>1. Bought' = Bought /\ SellOut' = SellOut
  BY DEF Bought, SellOut
<1>2. OneBuy' /\ OneArming'
  BY <1>1 DEF StopParts, OneBuy, OneArming
<1>3. AllSold'
  BY DEF StopParts, AllSold
<1>4. StopKept'
  BY <1>1 DEF StopParts, StopKept
<1> QED
  BY <1>2, <1>3, <1>4 DEF StopParts

(* An exit decides to sell all there is, or to retire as there is nothing. *)
LEMMA StopDecide ==
  ASSUME WholeExits, WorkerInv, StopParts, Quiet, NEW k \in Tick, Decide(k), UNCHANGED workerVars
  PROVE  StopParts'
<1> DEFINE r == cur[k]
           decision == Evaluate(Params[r], copy[k][r], quote[k], held, now)
<1>1. /\ phase[k] = "position" /\ UNCHANGED <<store, armed, emitted, held>>
      /\ UNCHANGED <<requests, trading, fills, armer, registry, sniper>>
  BY DEF Decide, world, history, workerVars
<1>2. r \in todo[k] /\ r \in Rule /\ copy[k][r] \in RuleState /\ copy[k][r].status = "active"
      /\ quote[k] \in Price \cup {NoPrice} /\ held \in Nat
  BY <1>1 DEF WorkerInv, RunnerInv, Typed, TypeOK, ListOK
<1>3. r \in Mine /\ store[r].status = "active"
  BY <1>2, QuietFacts
<1>4. CASE decision = Wait(copy[k][r])
  <2>1. Proceed(k)
    BY <1>4 DEF Decide
  <2> QED
    BY <1>1, <2>1, ProceedTyped, StopTickOn DEF WorkerInv, RunnerInv
<1>5. CASE decision # Wait(copy[k][r])
  <2>1. /\ plan' = [plan EXCEPT ![k] = decision]
        /\ phase' = [phase EXCEPT ![k] = IF decision.intent = NoIntent THEN "save" ELSE "publish"]
        /\ cur' = cur
    BY <1>5 DEF Decide
  <2>2. /\ plan'[k] = decision
        /\ phase'[k] = IF decision.intent = NoIntent THEN "save" ELSE "publish"
        /\ \A j \in Tick \ {k} : phase'[j] = phase[j] /\ plan'[j] = plan[j]
    BY <2>1 DEF WorkerInv, RunnerInv, Typed, TypeOK, PlanOK
  <2>3. r # SnipeRule =>
          /\ decision.intent = NoIntent /\ decision.next.status # "active" => held = 0
          /\ decision.intent # NoIntent => decision.intent = Sell(held) /\ held # 0
    <3>1. SUFFICES ASSUME r # SnipeRule
                   PROVE  /\ decision.intent = NoIntent /\ decision.next.status # "active" => held = 0
                          /\ decision.intent # NoIntent => decision.intent = Sell(held) /\ held # 0
      OBVIOUS
    <3>2. Type(r) \in Exits /\ Params[r].sellFractionBps = BPS
      BY <1>3, <3>1, ArmedRules DEF Mine, WholeExits, Exits
    <3>3. \A d : d = decision =>
            /\ d.intent = NoIntent /\ d.next.status # "active" => held = 0
            /\ d.intent # NoIntent => d.intent = Sell(held) /\ held # 0
      BY <1>2, <3>2, ExitDecisions
    <3> HIDE DEF decision
    <3> QED
      BY <3>3
  <2>4. r = SnipeRule /\ decision.intent # NoIntent => decision.intent.side = "buy"
    BY <1>2, ArmedRules, SnipeDecisions
  <2>5. held \in {0, Fill}
    BY DEF StopParts, OneArming
  <2>6. r = StopRule => Bought
    BY <1>2, <1>3, QuietFacts DEF StopParts, OneArming, Bought
  <2>7. Bought' = Bought /\ SellOut' = SellOut
    BY <1>1 DEF Bought, SellOut
  <2>8. OneBuy' /\ OneArming'
    BY <1>1, <2>7 DEF StopParts, OneBuy, OneArming
  <2> HIDE DEF decision
  <2>9. AllSold'
    <3>1. ASSUME NEW j \in Tick, phase'[j] = "publish"
          PROVE  IF cur[j] = SnipeRule THEN plan'[j].intent.side = "buy" ELSE plan'[j].intent = Sell(Fill)
      <4>1. CASE j = k
        BY <2>2, <2>3, <2>4, <2>5, <3>1, <4>1
      <4>2. CASE j # k
        BY <2>2, <3>1, <4>2 DEF StopParts, AllSold
      <4> QED
        BY <4>1, <4>2
    <3> QED
      BY <1>1, <2>1, <3>1 DEF StopParts, AllSold
  <2>10. StopKept'
    <3>1. ASSUME NEW j \in Tick, phase'[j] = "save", cur[j] = StopRule, plan'[j].next.status # "active"
          PROVE  Bought /\ (held = 0 \/ SellOut)
      <4>1. CASE j = k
        BY <2>2, <2>3, <2>6, <3>1, <4>1, ArmedRules
      <4>2. CASE j # k
        BY <2>2, <3>1, <4>2 DEF StopParts, StopKept
      <4> QED
        BY <4>1, <4>2
    <3> QED
      BY <1>1, <2>1, <2>7, <3>1 DEF StopParts, StopKept
  <2> QED
    BY <2>8, <2>9, <2>10 DEF StopParts
<1> QED
  BY <1>4, <1>5

(* The sniper's intent is the first; an exit's is a sell of everything.    *)
LEMMA StopEmit ==
  ASSUME WorkerInv, StopParts, Quiet, NEW k \in Tick, Emit(k)
  PROVE  StopParts'
<1> DEFINE r == cur[k]
<1>1. /\ phase[k] = "publish" /\ phase' = [phase EXCEPT ![k] = "save"]
      /\ emitted' = [emitted EXCEPT ![r] = @ + 1]
      /\ requests' = [requests EXCEPT ![plan[k].intent.side] = Append(@, plan[k].intent.amount)]
      /\ UNCHANGED <<store, armed, cur, plan, held>>
      /\ UNCHANGED <<trading, fills, armer, registry, sniper>>
  BY DEF Emit, Publish, world
<1>2. r \in todo[k] /\ r \in Mine /\ store[r].status = "active"
  BY <1>1, QuietFacts DEF WorkerInv, RunnerInv, Typed, TypeOK
<1>3. /\ phase'[k] = "save" /\ \A j \in Tick \ {k} : phase'[j] = phase[j]
      /\ requests \in [Sides -> Seq(Nat)] /\ emitted \in [Rule -> Nat] /\ r \in Rule
  BY <1>1 DEF WorkerInv, RunnerInv, Typed, TypeOK, OwnTypes
<1>4. Bought' = Bought
  BY <1>1 DEF Bought
<1>5. OneArming'
  BY <1>1, <1>4 DEF StopParts, OneArming
<1>6. CASE r = SnipeRule
  <2>1. plan[k].intent.side = "buy" /\ plan[k].intent.amount \in Nat
    BY <1>1, <1>6 DEF StopParts, AllSold, WorkerInv, RunnerInv, Typed, PlanOK
  <2>2. emitted[SnipeRule] = 0
    <3>1. /\ Left(SnipeRule, plan[k].next) \in Nat /\ Budget(SnipeRule) \in Nat
      BY ArmedRules, Numbers DEF WorkerInv, RunnerInv, Typed, PlanOK
    <3>2. emitted[r] + 1 + Left(r, plan[k].next) <= Budget(r)
      BY <1>1 DEF WorkerInv, RunnerInv, Affordable, PlansAffordable
    <3>3. Budget(SnipeRule) = armed[SnipeRule]
      BY ArmedRules, QuietFacts DEF Budget, Allowance, Quiet
    <3> QED
      BY <1>6, <3>1, <3>2, <3>3, QuietFacts
  <2>3. requests["buy"] = <<>> /\ trading["buy"] = NoIntent /\ ~Bought
    BY <2>2 DEF StopParts, OneBuy
  <2>4. requests'["buy"] = Append(<<>>, plan[k].intent.amount) /\ requests'["sell"] = requests["sell"]
    BY <1>1, <1>3, <2>1, <2>3 DEF Sides
  <2>5. Len(requests'["buy"]) = 1
    BY <2>1, <2>4
  <2>6. emitted'[SnipeRule] = 1
    BY <1>1, <1>3, <1>6, <2>2
  <2>7. OneBuy'
    BY <1>1, <1>4, <2>3, <2>5, <2>6 DEF OneBuy
  <2>8. SellOut' = SellOut
    BY <1>1, <2>4 DEF SellOut
  <2>9. AllSold'
    BY <1>1, <1>3, <2>4 DEF StopParts, AllSold
  <2>10. StopKept'
    BY <1>1, <1>3, <1>4, <1>6, <2>8, ArmedRules DEF StopParts, StopKept
  <2> QED
    BY <1>5, <2>7, <2>9, <2>10 DEF StopParts
<1>7. CASE r # SnipeRule
  <2>1. plan[k].intent = Sell(Fill)
    BY <1>1, <1>7 DEF StopParts, AllSold
  <2>2. plan[k].intent.side = "sell" /\ plan[k].intent.amount = Fill
    BY <2>1 DEF Sell
  <2>3. requests'["sell"] = Append(requests["sell"], Fill) /\ requests'["buy"] = requests["buy"]
    BY <1>1, <1>3, <2>2 DEF Sides
  <2>4. requests["sell"] \in Seq({Fill})
    BY DEF StopParts, AllSold
  <2>5. requests'["sell"] \in Seq({Fill}) /\ requests'["sell"] # <<>>
    BY <2>3, <2>4
  <2>6. emitted'[SnipeRule] = emitted[SnipeRule]
    BY <1>1, <1>3, <1>7, ArmedRules
  <2>7. OneBuy'
    BY <1>1, <1>4, <2>3, <2>6 DEF StopParts, OneBuy
  <2>8. SellOut'
    BY <2>5 DEF SellOut
  <2>9. AllSold'
    BY <1>1, <1>3, <2>5 DEF StopParts, AllSold
  <2>10. r = StopRule => Bought
    BY <1>2, QuietFacts DEF StopParts, OneArming, Bought
  <2>11. StopKept'
    BY <1>1, <1>3, <1>4, <2>8, <2>10 DEF StopParts, StopKept
  <2> QED
    BY <1>5, <2>7, <2>9, <2>11 DEF StopParts
<1> QED
  BY <1>6, <1>7

(* What is stored for the stop retires it only with a sell out.            *)
LEMMA StopSave ==
  ASSUME WorkerInv, StopParts, Quiet, NEW k \in Tick, Save(k), UNCHANGED workerVars
  PROVE  StopParts'
<1>1. /\ phase[k] = "save" /\ store' = [store EXCEPT ![cur[k]] = plan[k].next] /\ Proceed(k)
      /\ UNCHANGED <<armed, emitted, held, requests, trading, fills, armer, registry, sniper>>
  BY DEF Save, world, history, workerVars
<1>2. cur[k] \in todo[k] /\ cur[k] \in Mine /\ store[cur[k]].status = "active"
  BY <1>1, QuietFacts DEF WorkerInv, RunnerInv, Typed, TypeOK
<1>3. /\ phase'[k] \in {"idle", "next"}
      /\ \A j \in Tick \ {k} : phase'[j] = phase[j] /\ cur'[j] = cur[j] /\ plan'[j] = plan[j]
  BY <1>1, ProceedTyped DEF WorkerInv, RunnerInv
<1>4. store'[StopRule] = IF cur[k] = StopRule THEN plan[k].next ELSE store[StopRule]
  BY <1>1, ArmedRules DEF WorkerInv, RunnerInv, Typed, TypeOK
<1>5. cur[k] = StopRule => armed[StopRule] > 0
  BY <1>2, QuietFacts DEF StopParts, OneArming
<1>6. Bought' = Bought /\ SellOut' = SellOut
  BY <1>1 DEF Bought, SellOut
<1>7. OneBuy'
  BY <1>1, <1>6 DEF StopParts, OneBuy
<1>8. OneArming'
  BY <1>1, <1>4, <1>5, <1>6, QuietFacts DEF StopParts, OneArming
<1>9. AllSold'
  BY <1>1, <1>3 DEF StopParts, AllSold
<1>10. StopKept'
  BY <1>1, <1>3, <1>4, <1>6 DEF StopParts, StopKept
<1> QED
  BY <1>7, <1>8, <1>9, <1>10 DEF StopParts

(* The engine takes a request: of the pool it knows since the buy.         *)
LEMMA StopTake ==
  ASSUME WorkerInv, StopParts, Quiet, NEW s \in Sides, Take(s)
  PROVE  StopParts'
<1>1. /\ trading[s] = NoIntent /\ requests[s] # <<>>
      /\ requests' = [requests EXCEPT ![s] = Tail(@)]
      /\ trading' = [trading EXCEPT ![s] = IF registry THEN [side |-> s, amount |-> Head(requests[s])]
                                                       ELSE NoIntent]
      /\ UNCHANGED <<store, armed, emitted, phase, cur, plan, held, registry, sniper, fills, armer>>
  BY DEF Take, vars, tickVars, world, history
<1>2. requests \in [Sides -> Seq(Nat)] /\ DOMAIN trading = Sides
  BY DEF WorkerInv, RunnerInv, OwnTypes
<1>3. Bought' = Bought
  BY <1>1 DEF Bought
<1>4. OneArming'
  BY <1>1, <1>3 DEF StopParts, OneArming
<1>5. CASE s = "buy"
  <2>1. emitted[SnipeRule] = 1 /\ ~Bought /\ Len(requests["buy"]) <= 1 /\ requests["buy"] # <<>>
    BY <1>1, <1>5 DEF StopParts, OneBuy
  <2>2. Len(requests'["buy"]) = 0 /\ requests'["buy"] = <<>>
    <3>1. ASSUME NEW q \in Seq(Nat), q # <<>>, Len(q) <= 1 PROVE Tail(q) = <<>> /\ Len(Tail(q)) = 0
      <4>1. Len(q) \in Nat \ {0} /\ Tail(q) \in Seq(Nat) /\ Len(Tail(q)) = Len(q) - 1
        BY <3>1, EmptySeq, HeadTailProperties
      <4>2. Len(Tail(q)) = 0
        BY <3>1, <4>1
      <4> QED
        BY <4>1, <4>2, EmptySeq
    <3>2. requests["buy"] \in Seq(Nat) /\ requests'["buy"] = Tail(requests["buy"])
      BY <1>1, <1>2, <1>5
    <3> QED
      BY <2>1, <3>1, <3>2
  <2>3. requests'["sell"] = requests["sell"] /\ trading'["sell"] = trading["sell"]
    BY <1>1, <1>2, <1>5 DEF Sides
  <2>4. OneBuy'
    BY <1>1, <1>3, <2>1, <2>2 DEF OneBuy
  <2>5. SellOut' = SellOut
    BY <2>3 DEF SellOut
  <2>6. AllSold' /\ StopKept'
    BY <1>1, <1>3, <2>3, <2>5 DEF StopParts, AllSold, StopKept
  <2> QED
    BY <1>4, <2>4, <2>6 DEF StopParts
<1>6. CASE s = "sell"
  <2>1. requests["sell"] \in Seq({Fill}) /\ requests["sell"] # <<>>
    BY <1>1, <1>6 DEF StopParts, AllSold
  <2>2. Head(requests["sell"]) = Fill /\ Tail(requests["sell"]) \in Seq({Fill})
    BY <2>1
  <2>3. requests'["buy"] = requests["buy"] /\ trading'["buy"] = trading["buy"]
    BY <1>1, <1>2, <1>6 DEF Sides
  <2>4. requests'["sell"] = Tail(requests["sell"])
        /\ trading'["sell"] = IF registry THEN [side |-> s, amount |-> Fill] ELSE NoIntent
    BY <1>1, <1>2, <1>6, <2>2
  <2>5. OneBuy'
    BY <1>1, <1>3, <2>3 DEF StopParts, OneBuy
  <2>6. Bought => SellOut'
    <3>1. Bought => registry
      BY QuietFacts DEF StopParts, OneBuy
    <3>2. [side |-> s, amount |-> Fill] # NoIntent
      BY QuietFacts DEF NoIntent
    <3> QED
      BY <2>4, <3>1, <3>2 DEF SellOut
  <2>7. AllSold'
    BY <1>1, <2>2, <2>4 DEF StopParts, AllSold
  <2>8. StopKept'
    <3>1. armed[StopRule] > 0 => Bought
      BY DEF Bought
    <3> QED
      BY <1>1, <1>3, <2>6, <3>1 DEF StopParts, StopKept
  <2> QED
    BY <1>4, <2>5, <2>7, <2>8 DEF StopParts
<1> QED
  BY <1>5, <1>6 DEF Sides

(* The one buy fills an empty book; a sell empties it.                     *)
LEMMA StopTrade ==
  ASSUME WorkerInv, StopParts, Quiet, NEW s \in Sides, Trade(s)
  PROVE  StopParts'
<1>1. /\ trading[s] # NoIntent /\ trading' = [trading EXCEPT ![s] = NoIntent]
      /\ UNCHANGED <<store, armed, emitted, phase, cur, plan, registry, sniper, requests, armer>>
  BY DEF Trade, tickVars, history
<1>2. DOMAIN trading = Sides /\ fills \in Seq(Price) /\ price \in Price /\ Fill \in Nat /\ Fill # 0
  BY QuietFacts DEF WorkerInv, RunnerInv, OwnTypes, Typed, TypeOK
<1>3. CASE s = "buy"
  <2>1. emitted[SnipeRule] = 1 /\ ~Bought /\ requests["buy"] = <<>>
    BY <1>1, <1>3 DEF StopParts, OneBuy
  <2>2. fills = <<>> /\ armer = Resting /\ armed[StopRule] = 0 /\ held = 0
    <3>1. fills = <<>> /\ armer = Resting /\ ~(armed[StopRule] > 0) /\ ~(held > 0)
      BY <2>1 DEF Bought, StopParts, OneArming
    <3>2. held \in {0, Fill}
      BY DEF StopParts, OneArming
    <3> QED
      BY <1>2, <3>1, <3>2, QuietFacts
  <2>3. held' = held + Fill /\ fills' = Append(fills, price)
    BY <1>3 DEF Trade
  <2>4. held' = Fill /\ fills' = Append(<<>>, price)
    BY <1>2, <2>2, <2>3
  <2>5. Len(fills') = 1 /\ fills' # <<>>
    BY <1>2, <2>4
  <2>6. trading'["buy"] = NoIntent /\ trading'["sell"] = trading["sell"]
    BY <1>1, <1>2, <1>3 DEF Sides
  <2>7. Bought' /\ SellOut' = SellOut
    BY <1>1, <2>5, <2>6 DEF Bought, SellOut
  <2>8. OneBuy'
    BY <1>1, <2>1, <2>6, <2>7 DEF StopParts, OneBuy
  <2>9. OneArming'
    BY <1>1, <2>2, <2>4, <2>5, <2>7 DEF StopParts, OneArming
  <2>10. AllSold'
    BY <1>1, <2>6 DEF StopParts, AllSold
  <2>11. StopKept'
    BY <1>1, <2>1, <2>2 DEF StopParts, StopKept
  <2> QED
    BY <2>8, <2>9, <2>10, <2>11 DEF StopParts
<1>4. CASE s = "sell"
  <2>1. trading["sell"].amount = Fill /\ held \in {0, Fill}
    BY <1>1, <1>4 DEF StopParts, AllSold, OneArming
  <2>2. fills' = fills /\ held' = IF trading[s].amount < held THEN held - trading[s].amount ELSE 0
    BY <1>4 DEF Trade
  <2>3. held' = 0
    BY <1>2, <1>4, <2>1, <2>2
  <2>4. trading'["buy"] = trading["buy"] /\ trading'["sell"] = NoIntent
    BY <1>1, <1>2, <1>4 DEF Sides
  <2>5. Bought' = Bought
    BY <1>1, <2>2 DEF Bought
  <2>6. OneBuy'
    BY <1>1, <2>4, <2>5 DEF StopParts, OneBuy
  <2>7. OneArming'
    BY <1>1, <2>2, <2>3, <2>5 DEF StopParts, OneArming
  <2>8. AllSold'
    BY <1>1, <2>4 DEF StopParts, AllSold
  <2>9. StopKept'
    BY <1>1, <2>3, <2>5 DEF StopParts, StopKept
  <2> QED
    BY <2>6, <2>7, <2>8, <2>9 DEF StopParts
<1> QED
  BY <1>3, <1>4 DEF Sides

LEMMA StopStep ==
  ASSUME WholeExits, WorkerInv, StopInv, [WorkerNext]_allVars, Quiet'
  PROVE  StopParts'
<1>0. Quiet /\ StopParts
  <2>1. failures \in Nat /\ crashes \in Nat
    BY WorkerAssumption, RunnerAssumption DEF WorkerInv, RunnerInv, Typed, TypeOK, OwnTypes
  <2>2. failures' \in {failures, failures + 1} /\ crashes' \in {crashes, crashes + 1}
    BY DEF WorkerNext, allVars, vars, workerVars, Detect, Sniper, SniperLooks, SniperArms, Armer,
       ArmerReads, ArmsProfit, ArmsStop, RunnerStarts, Start, Restart, ProcessEnds, PriceMoves,
       TickStarts, Fire, TickStep, AskPrice, Decide, Save, Emit, Publish, Take, Trade, TradeFails
  <2>3. failures = 0 /\ crashes = 0
    BY <2>1, <2>2 DEF Quiet
  <2> QED
    BY <2>3 DEF Quiet, StopInv
<1>1. CASE UNCHANGED allVars \/ Detect \/ SniperLooks \/ RunnerStarts \/ PriceMoves
  BY <1>0, <1>1, StopElsewhere DEF allVars, vars, tickVars, world, history, workerVars, Detect,
     SniperLooks, RunnerStarts, Start, PriceMoves
<1>2. CASE SniperArms
  <2>1. Upsert(SnipeRule, 0) /\ sniper = "arming" /\ sniper' = "idle"
        /\ UNCHANGED <<emitted, phase, cur, plan, held, requests, trading, fills, registry, armer>>
    BY <1>2 DEF SniperArms, tickVars, world
  <2>2. registry
    BY <1>0, <2>1 DEF StopParts, OneArming
  <2> QED
    <3>1. SnipeRule \in Mine \ {StopRule}
      BY ArmedRules DEF Mine
    <3>2. UNCHANGED <<emitted, phase, cur, plan, held>> /\ UNCHANGED <<requests, trading, fills, registry>>
          /\ armer' = armer /\ sniper' # "arming"
      BY <2>1
    <3> QED
      BY <1>0, <2>1, <2>2, <3>1, <3>2, StopOtherRule
<1>3. CASE ArmerReads
  BY <1>0, <1>3, StopArmerReads
<1>4. CASE ArmsProfit
  <2>1. Upsert(ProfitRule, armer.entry) /\ armer.step = "profit" /\ armer' = [armer EXCEPT !.step = "stop"]
        /\ UNCHANGED <<emitted, phase, cur, plan, held, requests, trading, fills, registry, sniper>>
    BY <1>4 DEF ArmsProfit, tickVars, world
  <2>2. armer # Resting /\ armer' # Resting
    BY <2>1 DEF Resting, WorkerInv, RunnerInv, OwnTypes
  <2> QED
    BY <1>0, <2>1, <2>2, ArmedRules, StopOtherRule DEF Mine
<1>5. CASE ArmsStop
  BY <1>0, <1>5, StopArmsStop
<1>6. ASSUME NEW k \in Tick, Fire(k) \/ AskPrice(k), UNCHANGED workerVars PROVE StopParts'
  <2>1. /\ UNCHANGED <<store, armed, emitted, held, requests, trading, fills, armer, registry, sniper>>
        /\ phase'[k] \notin {"publish", "save"}
        /\ \A j \in Tick \ {k} : phase'[j] = phase[j] /\ cur'[j] = cur[j] /\ plan'[j] = plan[j]
    BY <1>6 DEF Fire, AskPrice, world, history, workerVars, WorkerInv, RunnerInv, Typed, TypeOK
  <2> QED
    BY <1>0, <2>1, StopTickOn
<1>7. ASSUME NEW k \in Tick, TickStarts(k) \/ TickStep(k) \/ Emit(k) PROVE StopParts'
  BY <1>0, <1>6, <1>7, StopDecide, StopSave, StopEmit DEF TickStarts, TickStep
<1>8. ASSUME NEW s \in Sides, Take(s) \/ Trade(s) PROVE StopParts'
  BY <1>0, <1>8, StopTake, StopTrade
<1>9. ASSUME NEW s \in Sides, TradeFails(s) PROVE FALSE
  BY <1>0, <1>9 DEF TradeFails, Quiet
<1>10. CASE Restart
  BY <1>0, <1>10 DEF Restart, ProcessEnds, Quiet
<1> QED
  BY <1>1, <1>2, <1>3, <1>4, <1>5, <1>7, <1>8, <1>9, <1>10 DEF WorkerNext, Sniper, Armer

LEMMA WorkerInvInit == WorkerInit => WorkerInv /\ StopInv
<1> SUFFICES ASSUME WorkerInit PROVE WorkerInv /\ StopInv
  OBVIOUS
<1>1. Absent.status = "absent"
  BY DEF Absent, Fresh, Stored
<1>2. WorkerInv
  BY <1>1, RunnerInvInit, ArmedRules DEF WorkerInit, WorkerInv, SnipeArmedOnce, Unarmed
<1>3. /\ requests["buy"] = <<>> /\ requests["sell"] = <<>> /\ trading["buy"] = NoIntent
      /\ trading["sell"] = NoIntent /\ fills = <<>> /\ armer = Resting /\ held = 0
      /\ armed[StopRule] = 0 /\ armed[SnipeRule] = 0 /\ sniper = "idle"
      /\ store[StopRule].status = "absent" /\ \A k \in Tick : phase[k] = "idle"
  BY <1>1, ArmedRules DEF WorkerInit, Rested, Sides
<1>4. Len(requests["buy"]) = 0 /\ requests["sell"] \in Seq({Fill}) /\ ~Bought
  BY <1>3 DEF Bought
<1>5. StopParts
  BY <1>3, <1>4 DEF StopParts, OneBuy, OneArming, AllSold, StopKept
<1> QED
  BY <1>2, <1>5 DEF StopInv

(* Until a trade fails or the process ends, an open position has its stop: *)
(* in force, about to be stored, or overtaken by a sell on its way.  For   *)
(* any prices, any amounts, either kind of stop, and exits that sell all.  *)
THEOREM PositionKeepsStop ==
  ASSUME OneTick, WholeExits
  PROVE  WorkerSpec => []StopStands
<1>1. WorkerInv /\ StopInv /\ [WorkerNext]_allVars => (WorkerInv /\ StopInv)'
  <2>1. WorkerInv /\ [WorkerNext]_allVars => WorkerInv'
    BY RunnerInvNext, SnipeStep, UnarmedStep DEF WorkerInv
  <2>2. WorkerInv /\ StopInv /\ [WorkerNext]_allVars => StopInv'
    BY StopStep DEF StopInv
  <2> QED
    BY <2>1, <2>2
<1>2. WorkerInv /\ StopInv => StopStands
  <2> SUFFICES ASSUME WorkerInv, StopParts, Quiet, held > 0 PROVE Guarded
    BY DEF StopInv, StopStands, Guarded, Quiet
  <2>1. Bought
    BY DEF StopParts, OneArming
  <2>2. armed[StopRule] > 0 => store[StopRule].status = "active" \/ SellOut
    BY DEF StopParts, StopKept
  <2> QED
    BY <2>1, <2>2 DEF Bought, SellOut, Guarded, SellUnderWay
<1> QED
  BY <1>1, <1>2, WorkerInvInit, PTL DEF WorkerSpec
=============================================================================
