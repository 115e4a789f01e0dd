------------------------- MODULE TradingEngineProofs -------------------------
(***************************************************************************)
(* TradingEngine, proved for every set of intents and tokens and every     *)
(* limit: its typing; that the portfolio guard, which checks the book long *)
(* before the buy is folded into it, still keeps the number of open        *)
(* positions and the quote deployed in them within their ceilings while    *)
(* sells rewrite the book; and that the book of every mode is the fold of  *)
(* the fills that were stored.                                             *)
(***************************************************************************)
EXTENDS TradingEngine, FoldLemmas

(* The share of a cost that goes with a part of a position is a part of it. *)
LEMMA ShareOfCost ==
  ASSUME NEW c \in Nat, NEW s \in Nat, NEW a \in Nat, a > 0, s <= a
  PROVE  (c * s) \div a \in 0..c
<1> DEFINE q == (c * s) \div a
<1>1. c * s \in Nat
  OBVIOUS
<1>2. q \in Int /\ a * q <= c * s
  BY <1>1
<1>3. c * s <= c * a
  OBVIOUS
<1>4. q >= 0
  BY <1>1
<1>5. ~(q > c)
  <2> SUFFICES ASSUME q >= c + 1 PROVE FALSE
    BY <1>2
  <2>1. a * q >= a * (c + 1)
    BY <1>2
  <2>2. a * (c + 1) = a * c + a
    OBVIOUS
  <2> QED
    BY <1>2, <1>3, <2>1, <2>2
<1> QED
  BY <1>2, <1>4, <1>5

(* Folding a trade into a position gives a position, in applyTrade and in  *)
(* the history.                                                            *)
LEMMA FoldedTyped ==
  ASSUME NEW l \in Side, NEW p \in Position, NEW x \in Nat, NEW y \in Nat
  PROVE  Folded(l, p, x, y) \in Position /\ Settled(l, p, x, y) \in Position
<1>1. p.amount \in Nat /\ p.cost \in Nat
  BY DEF Position
<1>2. Flat \in Position
  BY DEF Flat, Position
<1>3. AddBuy(p, x, y) \in Position
  BY <1>1 DEF AddBuy, Position
<1>4. ASSUME p.amount > 0, x <= p.amount
      PROVE  [amount |-> p.amount - x, cost |-> p.cost - ((p.cost * x) \div p.amount)] \in Position
  <2>1. (p.cost * x) \div p.amount \in 0..p.cost
    BY <1>1, <1>4, ShareOfCost
  <2>2. p.cost - ((p.cost * x) \div p.amount) \in Nat
    BY <1>1, <2>1
  <2>3. p.amount - x \in Nat
    BY <1>1, <1>4
  <2> QED
    BY <2>2, <2>3 DEF Position
<1>5. TakeSell(p, x) \in Position
  <2>1. CASE p.amount = 0
    BY <2>1 DEF TakeSell
  <2>2. CASE p.amount # 0 /\ x >= p.amount
    BY <1>1, <1>2, <2>2 DEF TakeSell
  <2>3. CASE p.amount # 0 /\ x < p.amount
    <3>1. TakeSell(p, x) = [amount |-> p.amount - x, cost |-> p.cost - ((p.cost * x) \div p.amount)]
      BY <1>1, <2>3 DEF TakeSell
    <3> QED
      BY <1>1, <1>4, <2>3, <3>1
  <2> QED
    BY <1>1, <2>1, <2>2, <2>3
<1>6. Folded(l, p, x, y) \in Position
  BY <1>3, <1>5 DEF Folded
<1>7. Settled(l, p, x, y) \in Position
  <2>1. CASE l = "buy"
    BY <1>1, <2>1 DEF Settled, Position
  <2>2. CASE l # "buy" /\ x >= p.amount
    BY <1>2, <2>2 DEF Settled, Side
  <2>3. CASE l # "buy" /\ x < p.amount
    <3>1. Settled(l, p, x, y) = [amount |-> p.amount - x, cost |-> p.cost - ((p.cost * x) \div p.amount)]
      BY <1>1, <2>3 DEF Settled, Side
    <3> QED
      BY <1>1, <1>4, <2>3, <3>1
  <2> QED
    BY <1>1, <2>1, <2>2, <2>3
<1> QED
  BY <1>6, <1>7

(* SomeIntent, what a loop's job is between two intents, is an intent.     *)
LEMMA SomeIntentIsIntent == SomeIntent \in Intent
  BY EngineAssumption DEF SomeIntent

(* Goto, Conclude, Return, Forget and Fold keep the types of what they     *)
(* assign.                                                                 *)
LEMMA GotoTyped ==
  ASSUME TypeOK, NEW l \in Side, NEW label \in Phases, Goto(l, label)
  PROVE  pc' \in [Side -> Phases] /\ \A m \in Side : m # l => pc'[m] = pc[m]
  BY DEF TypeOK, Goto

LEMMA ConcludeTyped ==
  ASSUME TypeOK, NEW l \in Side, NEW r \in Results, Conclude(l, r)
  PROVE  /\ pc' \in [Side -> Phases] /\ \A m \in Side : m # l => pc'[m] = pc[m]
         /\ done' \in [Intent -> Results]
  BY DEF TypeOK, Goto, Conclude, Phases

LEMMA FoldTyped ==
  ASSUME TypeOK, NEW l \in Side, Fold(l)
  PROVE  book' \in [BOOLEAN -> [Token -> Position]]
<1>1. job[l] \in Intent /\ TokenIn(l) \in Token /\ AmountOf[job[l]] \in Nat
  BY EngineAssumption DEF TypeOK, TokenIn
<1>2. Folded(l, seen[l], AmountOf[job[l]], out[l]) \in Position
  BY <1>1, FoldedTyped DEF TypeOK
<1>3. book \in [BOOLEAN -> [Token -> Position]]
  BY DEF TypeOK
<1>4. \A v \in Position, t \in Token :
        [book EXCEPT ![~Live][t] = v] \in [BOOLEAN -> [Token -> Position]]
  <2> SUFFICES ASSUME NEW v \in Position, NEW t \in Token, NEW s \in BOOLEAN
               PROVE  [book EXCEPT ![s][t] = v] \in [BOOLEAN -> [Token -> Position]]
    OBVIOUS
  <2> QED
    BY <1>3
<1> QED
  BY <1>1, <1>2, <1>3, <1>4 DEF Fold, Record

(* TypeOK is inductive: every step of the handlers keeps it.                *)
LEMMA TypeStep == TypeOK /\ [Next]_vars => TypeOK'
<1> SUFFICES ASSUME TypeOK, [Next]_vars PROVE TypeOK'
  OBVIOUS
<1> USE EngineAssumption
<1>1. ASSUME NEW l \in Side, NEW i \in Intent, Deliver(l, i) PROVE TypeOK'
  <2>1. delivered' \in [Intent -> Nat]
    BY <1>1 DEF TypeOK, Deliver
  <2>2. CASE answer' = [answer EXCEPT ![i] = "failed"] /\ UNCHANGED loopVars
    BY <1>1, <2>1, <2>2 DEF TypeOK, Deliver, Results, loopVars
  <2>3. CASE ~(answer' = [answer EXCEPT ![i] = "failed"] /\ UNCHANGED loopVars)
    <3>1. PICK label \in Phases : Goto(l, label)
      BY <1>1, <2>3 DEF Deliver, Phases
    <3>2. job' = [job EXCEPT ![l] = i] /\ UNCHANGED <<attempt, out, seen, answer>>
      BY <1>1, <2>3 DEF Deliver
    <3>3. pc' \in [Side -> Phases] /\ \A m \in Side : m # l => pc'[m] = pc[m]
      BY <3>1, GotoTyped
    <3> QED
      BY <1>1, <2>1, <3>2, <3>3 DEF TypeOK, Deliver
  <2> QED
    BY <2>2, <2>3
<1>2. ASSUME NEW l \in Side, Gate(l) PROVE TypeOK'
  <2>1. CASE Goto(l, "guard") /\ UNCHANGED done
    BY <1>2, <2>1 DEF TypeOK, Gate, Goto, Phases, history
  <2>2. CASE Conclude(l, "rejected")
    BY <1>2, <2>2 DEF TypeOK, Gate, Goto, Conclude, Phases, Results, history
  <2> QED
    BY <1>2, <2>1, <2>2 DEF Gate
<1>3. ASSUME NEW l \in Side, GateThrows(l) PROVE TypeOK'
  BY <1>3, SomeIntentIsIntent DEF TypeOK, GateThrows, Return, Goto, Phases, Fault, history
<1>4. ASSUME NEW l \in Side, Guard(l) PROVE TypeOK'
  BY <1>4 DEF TypeOK, Guard, Goto, Conclude, Phases, Results, history
<1>5. ASSUME NEW l \in Side, Refused(l) PROVE TypeOK'
  BY <1>5 DEF TypeOK, Refused, Goto, Conclude, Phases, Results, history
<1>6. ASSUME NEW l \in Side, InfraFails(l) PROVE TypeOK'
  <2>1. CASE Conclude(l, "failed") /\ UNCHANGED attempt
    BY <1>6, <2>1 DEF TypeOK, InfraFails, Goto, Conclude, Phases, Results, history
  <2>2. CASE attempt[l] < MaxRetries /\ attempt' = [attempt EXCEPT ![l] = @ + 1]
             /\ Goto(l, IF l = "buy" THEN "guard" ELSE "execute") /\ UNCHANGED done
    <3>1. attempt' \in [Side -> 0..MaxRetries]
      BY <2>2 DEF TypeOK
    <3>2. (IF l = "buy" THEN "guard" ELSE "execute") \in Phases
      BY DEF Phases
    <3>3. pc' \in [Side -> Phases] /\ \A m \in Side : m # l => pc'[m] = pc[m]
      BY <2>2, <3>2, GotoTyped
    <3> QED
      BY <1>6, <2>2, <3>1, <3>3 DEF TypeOK, InfraFails, history
  <2> QED
    BY <1>6, <2>1, <2>2 DEF InfraFails
<1>7. ASSUME NEW l \in Side, NEW y \in Fill, pc[l] = "execute", Trades(l, y)
      PROVE  /\ fills' \in [Intent -> Nat] /\ ledger' \in [Token -> Position]
             /\ astray' \subseteq Token /\ UNCHANGED <<delivered, answer, restarts>> /\ y \in Nat
  <2>1. job[l] \in Intent /\ TokenIn(l) \in Token /\ AmountOf[job[l]] \in Nat /\ y \in Nat
    BY <1>7 DEF TypeOK, TokenIn
  <2>2. Settled(l, ledger[TokenIn(l)], AmountOf[job[l]], y) \in Position
    BY <2>1, FoldedTyped DEF TypeOK
  <2> QED
    BY <1>7, <2>1, <2>2 DEF TypeOK, Trades
<1>8. ASSUME NEW l \in Side, Executes(l) PROVE TypeOK'
  <2>1. PICK y \in Fill : Trades(l, y) /\ out' = [out EXCEPT ![l] = y]
    BY <1>8 DEF Executes
  <2>2. /\ fills' \in [Intent -> Nat] /\ ledger' \in [Token -> Position]
        /\ astray' \subseteq Token /\ UNCHANGED <<delivered, answer, restarts>> /\ y \in Nat
    BY <1>7, <1>8, <2>1 DEF Executes
  <2> QED
    BY <1>8, <2>1, <2>2 DEF TypeOK, Executes, Goto, Phases, Folding
<1>9. ASSUME NEW l \in Side, ReceiptLost(l) PROVE TypeOK'
  <2>1. PICK y \in Fill : Trades(l, y)
    BY <1>9 DEF ReceiptLost
  <2>2. /\ fills' \in [Intent -> Nat] /\ ledger' \in [Token -> Position]
        /\ astray' \subseteq Token /\ UNCHANGED <<delivered, answer, restarts>>
    BY <1>7, <1>9, <2>1 DEF ReceiptLost
  <2>3. faults' \in 0..MaxFaults
    BY <1>9 DEF TypeOK, ReceiptLost, Fault
  <2> QED
    BY <1>9, <2>2, <2>3, ConcludeTyped DEF TypeOK, ReceiptLost, Results
<1>10. ASSUME NEW l \in Side, ReadPosition(l) PROVE TypeOK'
  <2>1. book[~Live][TokenIn(l)] \in Position
    BY DEF TypeOK, TokenIn
  <2> QED
    BY <1>10, <2>1 DEF TypeOK, ReadPosition, Goto, Phases, Folding, history
<1>11. ASSUME NEW l \in Side, WritePosition(l) PROVE TypeOK'
  <2>1. book' \in [BOOLEAN -> [Token -> Position]]
    BY <1>11, FoldTyped DEF WritePosition
  <2>2. Flat \in Position
    BY DEF Flat, Position
  <2> QED
    BY <1>11, <2>1, <2>2
    DEF TypeOK, WritePosition, Forget, Goto, Conclude, Phases, Results, history
<1>12. ASSUME NEW l \in Side, StoreFails(l) PROVE TypeOK'
  <2>1. book' \in [BOOLEAN -> [Token -> Position]]
    BY <1>12, FoldTyped DEF StoreFails, TypeOK
  <2>2. Flat \in Position
    BY DEF Flat, Position
  <2> QED
    BY <1>12, <2>1, <2>2
    DEF TypeOK, StoreFails, Forget, Goto, Conclude, Phases, Results, Fault, Folding, history
<1>13. ASSUME NEW l \in Side, Publish(l) PROVE TypeOK'
  BY <1>13, SomeIntentIsIntent DEF TypeOK, Publish, Return, Goto, Phases
<1>14. ASSUME NEW l \in Side, PublishFails(l) PROVE TypeOK'
  BY <1>14, SomeIntentIsIntent DEF TypeOK, PublishFails, Return, Goto, Phases, Fault, history
<1>15. CASE Restart
  <2>1. Flat \in Position
    BY DEF Flat, Position
  <2> QED
    BY <1>15, <2>1, SomeIntentIsIntent DEF TypeOK, Restart, Phases, Results, Fault, history
<1>16. CASE UNCHANGED vars
  BY <1>16 DEF TypeOK, vars, loopVars, history
<1>17. ASSUME NEW l \in Side, WriteRefused(l) PROVE TypeOK'
  <2>1. Flat \in Position
    BY DEF Flat, Position
  <2>2. TokenIn(l) \in Token
    BY DEF TypeOK, TokenIn
  <2> QED
    BY <1>17, <2>1, <2>2 DEF TypeOK, WriteRefused, Forget, Goto, Conclude, Phases, Results
<1> QED
  BY <1>1, <1>2, <1>3, <1>4, <1>5, <1>6, <1>8, <1>9, <1>10, <1>11, <1>12, <1>13, <1>14,
     <1>15, <1>16, <1>17 DEF Next, Work, Failure

(* The engine never leaves its types: in particular no loop serves the     *)
(* other loop's side, no retry goes past maxRetries, and no sell, however  *)
(* large or stale, takes a position below zero.                            *)
THEOREM TypeCorrect == Spec => []TypeOK
<1>1. Init => TypeOK
  BY SomeIntentIsIntent, EngineAssumption
  DEF Init, TypeOK, Side, Phases, Results, Flat, Position
<1> QED
  BY <1>1, TypeStep, PTL DEF Spec

-----------------------------------------------------------------------------
(* Every intent is stamped for the executor's own book.                    *)
OneBook == \A i \in Intent : Simulated[i] = ~Live

Open == OpenIn(~Live)

(* Past the guard, a buy has a place in the book reserved for it: it is    *)
(* the only buy, and sells open nothing.                                   *)
Reserved ==
  pc["buy"] \in {"execute", "read", "write"} =>
    Cardinality(Open \cup {TokenIn("buy")}) <= MaxOpen

(* What a fold has read may be stale, but not about this: a position the   *)
(* sell read open is still open, and one the buy read closed is still      *)
(* closed.                                                                 *)
ReadsHold ==
  /\ (pc["sell"] = "write" /\ seen["sell"].amount > 0) => TokenIn("sell") \in Open
  /\ (pc["buy"] = "write" /\ seen["buy"].amount = 0) => TokenIn("buy") \notin Open

CapInv ==
  /\ TypeOK
  /\ OpenIn(Live) = {}
  /\ MaxOpen > 0 => Cardinality(Open) <= MaxOpen /\ Reserved
  /\ ReadsHold

(* Open is finite, and so is what a buy adds to it.                        *)
LEMMA OpenFinite ==
  ASSUME NEW S, S \subseteq Token
  PROVE  /\ IsFiniteSet(S) /\ Cardinality(S) \in Nat
         /\ \A U : U \subseteq S => Cardinality(U) <= Cardinality(S)
         /\ \A x \in Token : /\ IsFiniteSet(S \cup {x})
                             /\ x \notin S => Cardinality(S \cup {x}) = Cardinality(S) + 1
                             /\ x \in S => S \cup {x} = S
<1>1. IsFiniteSet(S)
  BY FS_Subset, EngineAssumption
<1>2. Cardinality(S) \in Nat
  BY <1>1, FS_CardinalityType
<1>3. \A U : U \subseteq S => Cardinality(U) <= Cardinality(S)
  BY <1>1, FS_Subset
<1>4. \A x \in Token : /\ IsFiniteSet(S \cup {x})
                       /\ x \notin S => Cardinality(S \cup {x}) = Cardinality(S) + 1
  BY <1>1, FS_AddElement
<1> QED
  BY <1>1, <1>2, <1>3, <1>4

(* A fold of a trade on token t touches t alone, in the executor's book.   *)
LEMMA FoldTouches ==
  ASSUME TypeOK, NEW l \in Side, Fold(l)
  PROVE  /\ \A u \in Token : u # TokenIn(l) => (u \in Open <=> u \in Open')
         /\ OpenIn(Live)' = OpenIn(Live)
         /\ (l = "sell" /\ seen[l].amount = 0) => Open' = Open
         /\ (l = "buy" /\ seen[l].amount > 0) => TokenIn(l) \in Open'
<1> DEFINE t == TokenIn(l)
           v == Folded(l, seen[l], AmountOf[job[l]], out[l])
<1>1. t \in Token /\ AmountOf[job[l]] \in Nat /\ out[l] \in Nat /\ seen[l] \in Position
  BY EngineAssumption DEF TypeOK, TokenIn
<1>2. \A s \in BOOLEAN : \A u \in Token :
        book'[s][u] = IF s = ~Live /\ u = t /\ ~(l = "sell" /\ seen[l].amount = 0)
                      THEN v ELSE book[s][u]
  <2>1. book \in [BOOLEAN -> [Token -> Position]]
    BY DEF TypeOK
  <2>2. CASE l = "sell" /\ seen[l].amount = 0
    BY <2>2 DEF Fold
  <2>3. CASE ~(l = "sell" /\ seen[l].amount = 0)
    <3>1. book' = [book EXCEPT ![~Live][t] = v]
      BY <2>3 DEF Fold, Record
    <3> QED
      BY <2>1, <2>3, <3>1, <1>1
  <2> QED
    BY <2>2, <2>3
<1>3. Live \in BOOLEAN /\ (Live # ~Live)
  BY EngineAssumption
<1>4. \A u \in Token : book'[Live][u] = book[Live][u]
  BY <1>2, <1>3
<1>5. \A u \in Token : u # t => book'[~Live][u] = book[~Live][u]
  BY <1>2
<1>6. (l = "sell" /\ seen[l].amount = 0) => \A u \in Token : book'[~Live][u] = book[~Live][u]
  BY <1>2
<1>7. (l = "buy" /\ seen[l].amount > 0) => book'[~Live][t].amount > 0
  <2> SUFFICES ASSUME l = "buy", seen[l].amount > 0 PROVE book'[~Live][t].amount > 0
    OBVIOUS
  <2>1. book'[~Live][t] = v
    BY <1>1, <1>2
  <2>2. v.amount = seen[l].amount + out[l]
    BY DEF Folded, AddBuy
  <2> QED
    BY <1>1, <2>1, <2>2 DEF Position
<1> QED
  BY <1>1, <1>4, <1>5, <1>6, <1>7 DEF Open, OpenIn

Placing == {"execute", "read", "write"}

(* A step that leaves the book alone keeps CapInv, if a buy gets past the  *)
(* guard only within the limits and a fold reads what the book says.       *)
LEMMA QuietStep ==
  ASSUME OneBook, CapInv, TypeOK', UNCHANGED book,
         pc'["buy"] \in Placing =>
           /\ job'["buy"] = job["buy"]
           /\ pc["buy"] \in Placing \/ WithinLimits(job["buy"]),
         \A l \in Side : pc'[l] = "write" =>
           /\ job'[l] = job[l]
           /\ \/ pc[l] = "write" /\ seen'[l] = seen[l]
              \/ seen'[l] = book[~Live][TokenIn(l)]
  PROVE  CapInv'
<1>1. Open' = Open /\ OpenIn(Live)' = OpenIn(Live) /\ Open \subseteq Token
  BY DEF Open, OpenIn
<1>2. ASSUME MaxOpen > 0 PROVE Reserved'
  <2> SUFFICES ASSUME pc'["buy"] \in Placing
               PROVE  Cardinality(Open \cup {TokenIn("buy")}) <= MaxOpen
    BY <1>1 DEF Reserved, Placing, TokenIn
  <2>1. CASE pc["buy"] \in Placing
    BY <1>2, <2>1 DEF CapInv, Reserved, Placing
  <2>2. CASE WithinLimits(job["buy"])
    <3>1. job["buy"] \in Intent /\ TokenIn("buy") \in Token
      BY EngineAssumption DEF CapInv, TypeOK, Side, TokenIn
    <3>2. TokenIn("buy") \notin Open => Cardinality(Open) < MaxOpen
      BY <1>2, <2>2, <3>1 DEF WithinLimits, OneBook, Open, TokenIn
    <3>3. Cardinality(Open) <= MaxOpen /\ MaxOpen \in Nat
      BY <1>2, EngineAssumption DEF CapInv
    <3>4. CASE TokenIn("buy") \in Open
      BY <1>1, <3>1, <3>3, <3>4, OpenFinite
    <3>5. CASE TokenIn("buy") \notin Open
      <4>1. Cardinality(Open) \in Nat /\ Cardinality(Open \cup {TokenIn("buy")}) = Cardinality(Open) + 1
        BY <1>1, <3>1, <3>5, OpenFinite
      <4> QED
        BY <3>2, <3>3, <3>5, <4>1
    <3> QED
      BY <3>4, <3>5
  <2> QED
    BY <2>1, <2>2
<1>3. ReadsHold'
  <2>1. \A l \in Side : pc'[l] = "write" =>
          \/ pc[l] = "write" /\ seen'[l] = seen[l] /\ TokenIn(l)' = TokenIn(l)
          \/ seen'[l] = book[~Live][TokenIn(l)] /\ TokenIn(l)' = TokenIn(l)
    BY DEF TokenIn
  <2>2. \A l \in Side : TokenIn(l) \in Token /\ book[~Live][TokenIn(l)] \in Position
    BY EngineAssumption DEF CapInv, TypeOK, TokenIn
  <2>3. \A l \in Side : TokenIn(l) \in Open <=> book[~Live][TokenIn(l)].amount > 0
    BY <2>2 DEF Open, OpenIn
  <2>4. (pc'["sell"] = "write" /\ seen'["sell"].amount > 0) => TokenIn("sell")' \in Open
    BY <2>1, <2>3 DEF CapInv, ReadsHold, Side
  <2>5. (pc'["buy"] = "write" /\ seen'["buy"].amount = 0) => TokenIn("buy")' \notin Open
    BY <2>1, <2>3 DEF CapInv, ReadsHold, Side
  <2> QED
    BY <1>1, <2>4, <2>5 DEF ReadsHold
<1> QED
  BY <1>1, <1>2, <1>3 DEF CapInv

(* Folding a trade keeps CapInv: a sell opens nothing, and a buy opens     *)
(* only what was reserved for it.                                          *)
LEMMA FoldStep ==
  ASSUME CapInv, TypeOK', NEW l \in Side, pc[l] = "write", Fold(l), UNCHANGED job,
         pc'[l] = "publish",
         \A m \in Side : m # l => pc'[m] = pc[m] /\ seen'[m] = seen[m]
  PROVE  CapInv'
<1>0. TypeOK
  BY DEF CapInv
<1>1. /\ \A u \in Token : u # TokenIn(l) => (u \in Open <=> u \in Open')
      /\ OpenIn(Live)' = OpenIn(Live)
      /\ (l = "sell" /\ seen[l].amount = 0) => Open' = Open
      /\ (l = "buy" /\ seen[l].amount > 0) => TokenIn(l) \in Open'
  BY <1>0, FoldTouches
<1>2. Open \subseteq Token /\ Open' \subseteq Token /\ MaxOpen \in Nat
  BY EngineAssumption DEF Open, OpenIn
<1>3. \A m \in Side : TokenIn(m)' = TokenIn(m) /\ TokenIn(m) \in Token /\ seen[m] \in Position
  BY <1>0, EngineAssumption DEF TypeOK, TokenIn
<1>4. CASE l = "sell"
  <2>1. Open' \subseteq Open
    <3>1. seen[l].amount > 0 => TokenIn(l) \in Open
      BY <1>4 DEF CapInv, ReadsHold
    <3>2. seen[l].amount = 0 \/ seen[l].amount > 0
      BY <1>3 DEF Position
    <3> QED
      BY <1>1, <1>2, <1>4, <3>1, <3>2
  <2>2. ASSUME MaxOpen > 0 PROVE Cardinality(Open') <= MaxOpen /\ Reserved'
    <3>1. Cardinality(Open') <= Cardinality(Open) /\ Cardinality(Open') \in Nat /\ Cardinality(Open) \in Nat
      BY <1>2, <2>1, OpenFinite
    <3>2. Cardinality(Open) <= MaxOpen
      BY <2>2 DEF CapInv
    <3>3. ASSUME pc'["buy"] \in Placing PROVE Cardinality(Open' \cup {TokenIn("buy")}) <= MaxOpen
      <4>1. Cardinality(Open \cup {TokenIn("buy")}) <= MaxOpen
        BY <1>4, <2>2, <3>3 DEF CapInv, Reserved, Placing, Side
      <4>2. Open \cup {TokenIn("buy")} \subseteq Token
        BY <1>2, <1>3 DEF Side
      <4>3. Open' \cup {TokenIn("buy")} \subseteq Open \cup {TokenIn("buy")}
        BY <2>1
      <4>4. /\ Cardinality(Open' \cup {TokenIn("buy")}) <= Cardinality(Open \cup {TokenIn("buy")})
            /\ Cardinality(Open \cup {TokenIn("buy")}) \in Nat
        BY <4>2, <4>3, OpenFinite
      <4>5. Cardinality(Open' \cup {TokenIn("buy")}) \in Nat
        BY <1>2, <4>2, <4>3, OpenFinite
      <4> QED
        BY <1>2, <4>1, <4>4, <4>5
    <3>4. TokenIn("buy")' = TokenIn("buy")
      BY <1>3 DEF Side
    <3> QED
      BY <1>2, <3>1, <3>2, <3>3, <3>4 DEF Reserved, Placing
  <2>3. ReadsHold'
    BY <1>3, <1>4, <2>1 DEF CapInv, ReadsHold, Side
  <2> QED
    BY <1>1, <2>2, <2>3 DEF CapInv
<1>5. CASE l = "buy"
  <2>1. Open' \subseteq Open \cup {TokenIn("buy")}
    BY <1>1, <1>2, <1>5
  <2>2. ASSUME MaxOpen > 0 PROVE Cardinality(Open') <= MaxOpen
    <3>1. Cardinality(Open \cup {TokenIn("buy")}) <= MaxOpen
      BY <1>5, <2>2 DEF CapInv, Reserved, Placing
    <3>2. Open \cup {TokenIn("buy")} \subseteq Token
      BY <1>2, <1>3 DEF Side
    <3>3. /\ Cardinality(Open') <= Cardinality(Open \cup {TokenIn("buy")})
          /\ Cardinality(Open \cup {TokenIn("buy")}) \in Nat
      BY <2>1, <3>2, OpenFinite
    <3>4. Cardinality(Open') \in Nat
      BY <1>2, OpenFinite
    <3> QED
      BY <1>2, <3>1, <3>3, <3>4
  <2>3. Reserved'
    BY <1>5 DEF Reserved
  <2>4. ReadsHold'
    <3>1. ASSUME pc'["sell"] = "write", seen'["sell"].amount > 0 PROVE TokenIn("sell") \in Open'
      <4>1. TokenIn("sell") \in Open
        BY <1>5, <3>1 DEF CapInv, ReadsHold, Side
      <4>2. CASE TokenIn("sell") # TokenIn("buy")
        BY <1>1, <1>3, <1>5, <4>1, <4>2 DEF Side
      <4>3. CASE TokenIn("sell") = TokenIn("buy")
        <5>1. seen["buy"].amount # 0
          BY <1>5, <4>1, <4>3 DEF CapInv, ReadsHold
        <5>2. seen["buy"].amount > 0
          BY <1>3, <5>1 DEF Position, Side
        <5> QED
          BY <1>1, <1>5, <4>3, <5>2
      <4> QED
        BY <4>2, <4>3
    <3> QED
      BY <1>3, <1>5, <3>1 DEF ReadsHold, Side
  <2> QED
    BY <1>1, <2>2, <2>3, <2>4 DEF CapInv
<1> QED
  BY <1>4, <1>5 DEF Side

(* CapInv is inductive.                                                    *)
LEMMA CapStep ==
  ASSUME OneBook
  PROVE  CapInv /\ [Next]_vars => CapInv'
<1> SUFFICES ASSUME CapInv, [Next]_vars PROVE CapInv'
  OBVIOUS
<1>0. TypeOK /\ TypeOK'
  BY TypeStep DEF CapInv
<1>t. /\ pc \in [Side -> Phases] /\ job \in [Side -> Intent] /\ seen \in [Side -> Position]
      /\ \A l \in Side : pc[l] # "idle" => SideOf[job[l]] = l
  BY <1>0 DEF TypeOK
<1> DEFINE Quiet ==
      /\ UNCHANGED book
      /\ pc'["buy"] \in Placing =>
            /\ job'["buy"] = job["buy"]
            /\ pc["buy"] \in Placing \/ WithinLimits(job["buy"])
      /\ \A l \in Side : pc'[l] = "write" =>
            /\ job'[l] = job[l]
            /\ \/ pc[l] = "write" /\ seen'[l] = seen[l]
               \/ seen'[l] = book[~Live][TokenIn(l)]
<1>q. ASSUME Quiet PROVE CapInv'
  BY <1>0, <1>q, QuietStep
<1>1. ASSUME NEW l \in Side, NEW i \in Intent, Deliver(l, i) PROVE Quiet
  BY <1>1, <1>t DEF Deliver, Goto, loopVars, Placing, Side, history
<1>2. ASSUME NEW l \in Side, Gate(l) PROVE Quiet
  BY <1>2, <1>t DEF Gate, Goto, Conclude, Placing, Side, history
<1>3. ASSUME NEW l \in Side, GateThrows(l) PROVE Quiet
  BY <1>3, <1>t DEF GateThrows, Return, Goto, Placing, Side, history
<1>4. ASSUME NEW l \in Side, Guard(l) PROVE Quiet
  BY <1>4, <1>t DEF Guard, Goto, Conclude, Placing, Side, history
<1>5. ASSUME NEW l \in Side, Executes(l) PROVE Quiet
  BY <1>5, <1>t DEF Executes, Goto, Placing, Side, history
<1>6. ASSUME NEW l \in Side, Refused(l) PROVE Quiet
  BY <1>6, <1>t DEF Refused, Goto, Conclude, Placing, Side, history
<1>7. ASSUME NEW l \in Side, InfraFails(l) PROVE Quiet
  BY <1>7, <1>t DEF InfraFails, Goto, Conclude, Placing, Side, history
<1>8. ASSUME NEW l \in Side, ReceiptLost(l) PROVE Quiet
  BY <1>8, <1>t DEF ReceiptLost, Goto, Conclude, Placing, Side, history
<1>9. ASSUME NEW l \in Side, ReadPosition(l) PROVE Quiet
  BY <1>9, <1>t DEF ReadPosition, Goto, Placing, Side, history
<1>10. ASSUME NEW l \in Side, Publish(l) PROVE Quiet
  BY <1>10, <1>t DEF Publish, Return, Goto, Placing, Side, history
<1>11. ASSUME NEW l \in Side, PublishFails(l) PROVE Quiet
  BY <1>11, <1>t DEF PublishFails, Return, Goto, Placing, Side, history
<1>12. ASSUME NEW l \in Side, WritePosition(l) PROVE CapInv'
  <2>1. /\ pc[l] = "write" /\ Fold(l) /\ UNCHANGED job /\ pc'[l] = "publish"
        /\ \A m \in Side : m # l => pc'[m] = pc[m] /\ seen'[m] = seen[m]
    BY <1>12, <1>t DEF WritePosition, Conclude, Goto, Forget
  <2> QED
    BY <1>0, <2>1, FoldStep
<1>13. ASSUME NEW l \in Side, StoreFails(l) PROVE CapInv'
  <2>1. /\ UNCHANGED job /\ pc'[l] = "publish"
        /\ \A m \in Side : m # l => pc'[m] = pc[m] /\ seen'[m] = seen[m]
    BY <1>13, <1>t DEF StoreFails, Conclude, Goto, Forget
  <2>2. CASE UNCHANGED book
    <3>1. Quiet
      BY <2>1, <2>2, <1>t DEF Placing, Side
    <3> QED
      BY <1>q, <3>1
  <2>3. CASE pc[l] = "write" /\ Fold(l)
    BY <1>0, <2>1, <2>3, FoldStep
  <2> QED
    BY <1>13, <2>2, <2>3 DEF StoreFails
<1>14. ASSUME Restart PROVE Quiet
  BY <1>14 DEF Restart, Placing, Side, history
<1>15. ASSUME UNCHANGED vars PROVE Quiet
  BY <1>15 DEF vars, loopVars, Placing
<1>w. ASSUME NEW l \in Side, WriteRefused(l) PROVE Quiet
  BY <1>w, <1>t DEF WriteRefused, Conclude, Goto, Forget, Placing, Side
<1>16. CASE Next
  BY <1>16, <1>q, <1>w, <1>1, <1>2, <1>3, <1>4, <1>5, <1>6, <1>7, <1>8, <1>9, <1>10, <1>11, <1>12,
     <1>13, <1>14 DEF Next, Work, Failure
<1> QED
  BY <1>16, <1>15, <1>q

(* The number of open positions never exceeds the ceiling, in either book, *)
(* through interleaved sells, retries, failures and restarts - provided    *)
(* the intents carry the executor's own book, which is what the guard      *)
(* counts in.                                                              *)
THEOREM OpenPositionsCapped ==
  ASSUME OneBook
  PROVE  Spec => []OpenPositionsWithinCap
<1>1. Init => CapInv
  <2> SUFFICES ASSUME Init PROVE CapInv
    OBVIOUS
  <2>1. TypeOK
    BY SomeIntentIsIntent, EngineAssumption
    DEF Init, TypeOK, Side, Phases, Results, Flat, Position
  <2>2. \A s \in BOOLEAN : OpenIn(s) = {}
    BY DEF Init, OpenIn, Flat
  <2>3. OpenIn(Live) = {} /\ Open = {}
    BY <2>2, EngineAssumption DEF Open
  <2>4. Cardinality(Open) <= MaxOpen
    BY <2>3, FS_EmptySet, EngineAssumption
  <2>5. Reserved /\ ReadsHold
    BY DEF Init, Reserved, ReadsHold, Side
  <2> QED
    BY <2>1, <2>3, <2>4, <2>5 DEF CapInv
<1>2. CapInv => OpenPositionsWithinCap
  <2> SUFFICES ASSUME CapInv, MaxOpen > 0, NEW s \in BOOLEAN
               PROVE  Cardinality(OpenIn(s)) <= MaxOpen
    BY DEF OpenPositionsWithinCap
  <2>1. CASE s = Live
    <3>1. OpenIn(s) = {}
      BY <2>1 DEF CapInv
    <3>2. Cardinality(OpenIn(s)) = 0
      BY <3>1, FS_EmptySet
    <3> QED
      BY <2>1, <3>2, EngineAssumption
  <2>2. CASE s = ~Live
    BY <2>2 DEF CapInv, Open
  <2> QED
    BY <2>1, <2>2, EngineAssumption
<1>3. CapInv /\ [Next]_vars => CapInv'
  BY CapStep
<1> QED
  BY <1>1, <1>2, <1>3, PTL DEF Spec

-----------------------------------------------------------------------------
(* An intent that traded in this life of the process is cached, or its     *)
(* loop is folding the trade; one whose loop has not traded it yet is not  *)
(* cached.                                                                 *)
OneFill(i) ==
  /\ fills[i] <= restarts + 1
  /\ (done[i] = "none" /\ fills[i] = restarts + 1) =>
       job[SideOf[i]] = i /\ pc[SideOf[i]] \in Folding
  /\ (job[SideOf[i]] = i /\ pc[SideOf[i]] \in {"gate", "guard", "execute"}) =>
       done[i] = "none" /\ fills[i] <= restarts

FillInv == TypeOK /\ \A i \in Intent : OneFill(i)

(* FillInv is inductive.                                                   *)
LEMMA FillStep == FillInv /\ [Next]_vars => FillInv'
<1> SUFFICES ASSUME FillInv, [Next]_vars, NEW i \in Intent
             PROVE  OneFill(i)'
  BY TypeStep DEF FillInv
<1> DEFINE m == SideOf[i]
<1>t. /\ pc \in [Side -> Phases] /\ job \in [Side -> Intent] /\ done \in [Intent -> Results]
      /\ fills \in [Intent -> Nat] /\ restarts \in Nat /\ m \in Side
      /\ \A l \in Side : pc[l] # "idle" => SideOf[job[l]] = l
  BY EngineAssumption DEF FillInv, TypeOK, Side
<1>z. OneFill(i)
  BY DEF FillInv
<1>1. ASSUME NEW l \in Side, NEW j \in Intent, Deliver(l, j) PROVE OneFill(i)'
  <2>1. OneFill(i) /\ UNCHANGED <<fills, done, restarts>>
    BY <1>1, <1>z DEF Deliver
  <2>2. CASE UNCHANGED loopVars
    BY <2>1, <2>2 DEF OneFill, loopVars
  <2>3. CASE l # m /\ job'[m] = job[m] /\ pc'[m] = pc[m]
    BY <2>1, <2>3 DEF OneFill
  <2>4. CASE l = m /\ job'[m] = j /\ (pc'[m] = "publish" \/ done[j] = "none")
    BY <1>1, <2>1, <2>4, <1>t DEF OneFill, Deliver, Folding
  <2> QED
    BY <1>1, <2>2, <2>3, <2>4, <1>t DEF Deliver, Goto
<1>2. ASSUME NEW l \in Side, Gate(l) PROVE OneFill(i)'
  <2>1. OneFill(i) /\ UNCHANGED <<fills, restarts>>
    BY <1>2, <1>z DEF Gate, history
  <2> QED
    BY <1>2, <2>1, <1>t DEF OneFill, Gate, Goto, Conclude, Folding, Results
<1>3. ASSUME NEW l \in Side, Guard(l) PROVE OneFill(i)'
  <2>1. OneFill(i) /\ UNCHANGED <<fills, restarts>>
    BY <1>3, <1>z DEF Guard, history
  <2> QED
    BY <1>3, <2>1, <1>t DEF OneFill, Guard, Goto, Conclude, Folding, Results
<1>4. ASSUME NEW l \in Side, Executes(l) PROVE OneFill(i)'
  <2>1. PICK y \in Fill : Trades(l, y)
    BY <1>4 DEF Executes
  <2>2. /\ OneFill(i) /\ UNCHANGED <<done, job, restarts>> /\ pc[l] = "execute"
        /\ pc' = [pc EXCEPT ![l] = "read"] /\ fills' = [fills EXCEPT ![job[l]] = @ + 1]
    BY <1>4, <1>z, <2>1 DEF Executes, Goto, Trades
  <2>3. CASE job[l] = i
    BY <2>2, <2>3, <1>t DEF OneFill, Folding
  <2>4. CASE job[l] # i
    BY <2>2, <2>4, <1>t DEF OneFill, Folding
  <2> QED
    BY <2>3, <2>4
<1>5. ASSUME NEW l \in Side, Refused(l) PROVE OneFill(i)'
  <2>1. OneFill(i) /\ UNCHANGED <<fills, restarts>>
    BY <1>5, <1>z DEF Refused, history
  <2> QED
    BY <1>5, <2>1, <1>t DEF OneFill, Refused, Goto, Conclude, Folding, Results
<1>6. ASSUME NEW l \in Side, InfraFails(l) PROVE OneFill(i)'
  <2>1. OneFill(i) /\ UNCHANGED <<fills, restarts>>
    BY <1>6, <1>z DEF InfraFails, history
  <2> QED
    BY <1>6, <2>1, <1>t DEF OneFill, InfraFails, Goto, Conclude, Folding, Results
<1>7. ASSUME NEW l \in Side, ReadPosition(l) PROVE OneFill(i)'
  <2>1. OneFill(i) /\ UNCHANGED <<fills, restarts>>
    BY <1>7, <1>z DEF ReadPosition, history
  <2> QED
    BY <1>7, <2>1, <1>t DEF OneFill, ReadPosition, Goto, Folding, Results
<1>8. ASSUME NEW l \in Side, WritePosition(l) PROVE OneFill(i)'
  <2>1. OneFill(i) /\ UNCHANGED <<fills, restarts>>
    BY <1>8, <1>z DEF WritePosition, history
  <2> QED
    BY <1>8, <2>1, <1>t DEF OneFill, WritePosition, Goto, Conclude, Folding, Results
<1>9. ASSUME NEW l \in Side, Publish(l) PROVE OneFill(i)'
  <2>1. OneFill(i) /\ UNCHANGED <<fills, restarts>>
    BY <1>9, <1>z DEF Publish, history
  <2> QED
    BY <1>9, <2>1, <1>t DEF OneFill, Publish, Return, Goto, Folding, Results
<1>10. ASSUME NEW l \in Side, GateThrows(l) PROVE OneFill(i)'
  <2>1. OneFill(i) /\ UNCHANGED <<fills, restarts>>
    BY <1>10, <1>z DEF GateThrows, history
  <2> QED
    BY <1>10, <2>1, <1>t DEF OneFill, GateThrows, Return, Goto, Folding
<1>11. ASSUME NEW l \in Side, ReceiptLost(l) PROVE OneFill(i)'
  <2>1. PICK y \in Fill : Trades(l, y)
    BY <1>11 DEF ReceiptLost
  <2>2. /\ OneFill(i) /\ UNCHANGED <<job, restarts>> /\ pc[l] = "execute"
        /\ pc' = [pc EXCEPT ![l] = "publish"] /\ done' = [done EXCEPT ![job[l]] = "failed"]
        /\ fills' = [fills EXCEPT ![job[l]] = @ + 1]
    BY <1>11, <1>z, <2>1 DEF ReceiptLost, Conclude, Goto, Trades
  <2>3. CASE job[l] = i
    BY <2>2, <2>3, <1>t DEF OneFill, Folding
  <2>4. CASE job[l] # i
    BY <2>2, <2>4, <1>t DEF OneFill, Folding
  <2> QED
    BY <2>3, <2>4
<1>12. ASSUME NEW l \in Side, StoreFails(l) PROVE OneFill(i)'
  <2>1. OneFill(i) /\ UNCHANGED <<fills, restarts, job>> /\ pc[l] \in Folding /\ Conclude(l, "failed")
    BY <1>12, <1>z DEF StoreFails, history
  <2> QED
    BY <2>1, <1>t DEF OneFill, Goto, Conclude, Folding, Results
<1>13. ASSUME NEW l \in Side, PublishFails(l) PROVE OneFill(i)'
  <2>1. OneFill(i) /\ UNCHANGED <<fills, restarts>>
    BY <1>13, <1>z DEF PublishFails, history
  <2> QED
    BY <1>13, <2>1, <1>t DEF OneFill, PublishFails, Return, Goto, Folding
<1>14. CASE Restart
  <2>1. OneFill(i) /\ UNCHANGED fills /\ restarts' = restarts + 1 /\ pc'[m] = "idle"
    BY <1>14, <1>z, <1>t DEF Restart
  <2> QED
    BY <2>1, <1>t DEF OneFill, Folding
<1>15. CASE UNCHANGED vars
  BY <1>15, <1>z DEF OneFill, vars, loopVars, history
<1>16. ASSUME NEW l \in Side, WriteRefused(l) PROVE OneFill(i)'
  <2>1. OneFill(i) /\ UNCHANGED <<fills, restarts, job>> /\ pc[l] = "write" /\ Conclude(l, "failed")
    BY <1>16, <1>z DEF WriteRefused
  <2> QED
    BY <2>1, <1>t DEF OneFill, Goto, Conclude, Folding, Results
<1> QED
  BY <1>1, <1>2, <1>3, <1>4, <1>5, <1>6, <1>7, <1>8, <1>9, <1>10, <1>11, <1>12, <1>13, <1>14,
     <1>15, <1>16 DEF Next, Work, Failure

(* One intent trades at most once in each life of the process, however     *)
(* often the bus delivers it and the executor is retried, and whichever of *)
(* the gate, the receipt, the store and the publication fails.             *)
THEOREM TradedAtMostOnce == Spec => []SettledAtMostOnce
<1>1. Init => FillInv
  <2> SUFFICES ASSUME Init PROVE FillInv
    OBVIOUS
  <2>1. TypeOK
    BY SomeIntentIsIntent, EngineAssumption
    DEF Init, TypeOK, Side, Phases, Results, Flat, Position
  <2>2. \A i \in Intent : OneFill(i)
    BY EngineAssumption DEF Init, OneFill, Side
  <2> QED
    BY <2>1, <2>2 DEF FillInv
<1>2. FillInv => SettledAtMostOnce
  BY DEF FillInv, TypeOK, OneFill, SettledAtMostOnce
<1> QED
  BY <1>1, <1>2, FillStep, PTL DEF Spec

-----------------------------------------------------------------------------
(* A buy that is filled returns something.  The executors do not insist on *)
(* it: an amount too small for one unit of the token is filled with 0      *)
(* (quote.ts:37, live-executor.ts:120), and with Fill = {0, 2} TLC finds   *)
(* the ceiling passed.                                                     *)
NoEmptyFill == 0 \notin Fill

(* The cost of each position of the executor's book, and of all of them.   *)
Cost  == [t \in Token |-> book[~Live][t].cost]
Spent == SumFunctionOnSet(Cost, Token)

(* A closed position has no cost left.                                     *)
Dustless == \A t \in Token : book[~Live][t].amount = 0 => book[~Live][t].cost = 0

(* Past the guard, the quote of a buy fits under the ceiling, now and with *)
(* the position it read put back; sells meanwhile only take cost away.     *)
Room ==
  /\ Spent <= MaxTotal
  /\ pc["buy"] \in {"execute", "read"} => Spent + AmountOf[job["buy"]] <= MaxTotal
  /\ pc["buy"] = "write" =>
       /\ Cost[TokenIn("buy")] <= seen["buy"].cost
       /\ Spent - Cost[TokenIn("buy")] + seen["buy"].cost + AmountOf[job["buy"]] <= MaxTotal
  /\ (pc["sell"] = "write" /\ seen["sell"].amount > 0) =>
       seen["sell"].cost <= Cost[TokenIn("sell")]

CostInv ==
  /\ TypeOK
  /\ OpenIn(Live) = {}
  /\ Dustless
  /\ pc["buy"] \in Folding => out["buy"] > 0
  /\ MaxTotal > 0 => Room

LEMMA CostTyped ==
  ASSUME TypeOK
  PROVE  /\ IsFiniteSet(Token) /\ \A t \in Token : Cost[t] \in Nat /\ Cost[t] = book[~Live][t].cost
         /\ Spent \in Nat
<1>1. IsFiniteSet(Token) /\ \A t \in Token : Cost[t] \in Nat /\ Cost[t] = book[~Live][t].cost
  BY EngineAssumption DEF TypeOK, Cost, Position
<1>2. \A t \in Token : Cost[t] \in Int /\ Cost[t] >= 0
  BY <1>1
<1> HIDE DEF Cost
<1> QED
  BY <1>1, <1>2, SumTyped DEF Spent

(* What the guard adds up over the open positions is all that was spent.   *)
LEMMA DeployedIsSpent ==
  ASSUME TypeOK, Dustless
  PROVE  Deployed(~Live) = Spent
<1>1. Cost = [t \in Token |-> book[~Live][t].cost] /\ OpenIn(~Live) \subseteq Token
  BY DEF Cost, OpenIn
<1>2. IsFiniteSet(Token) /\ \A t \in Token : Cost[t] \in Nat /\ Cost[t] = book[~Live][t].cost
  BY CostTyped
<1>3. \A t \in Token : t \notin OpenIn(~Live) => Cost[t] = 0
  <2> SUFFICES ASSUME NEW t \in Token, ~(book[~Live][t].amount > 0) PROVE Cost[t] = 0
    BY DEF OpenIn
  <2>1. book[~Live][t].amount \in Nat
    BY DEF TypeOK, Position
  <2> QED
    BY <1>2, <2>1 DEF Dustless
<1>4. Deployed(~Live) = SumFunctionOnSet(Cost, OpenIn(~Live))
  BY <1>1 DEF Deployed
<1> HIDE DEF Cost
<1>5. \A t \in Token : Cost[t] \in Int /\ Cost[t] >= 0
  BY <1>2
<1>6. SumFunctionOnSet(Cost, OpenIn(~Live)) = SumFunctionOnSet(Cost, Token)
  BY <1>1, <1>2, <1>3, <1>5, SumIgnoresZeros
<1> QED
  BY <1>4, <1>6 DEF Spent

(* A fold of a trade changes the cost of its token alone, to what it       *)
(* records.                                                                *)
LEMMA FoldCosts ==
  ASSUME TypeOK, TypeOK', NEW l \in Side, Fold(l)
  PROVE  /\ \A u \in Token : u # TokenIn(l) => Cost'[u] = Cost[u]
         /\ (l = "sell" /\ seen[l].amount = 0) => book' = book
         /\ ~(l = "sell" /\ seen[l].amount = 0) =>
               book'[~Live][TokenIn(l)] = Record(l) /\ Cost'[TokenIn(l)] = Record(l).cost
         /\ Spent' = Spent - Cost[TokenIn(l)] + Cost'[TokenIn(l)]
         /\ OpenIn(Live)' = OpenIn(Live)
         /\ \A u \in Token : u # TokenIn(l) => book'[~Live][u] = book[~Live][u]
<1> DEFINE t == TokenIn(l)
<1>1. t \in Token /\ book \in [BOOLEAN -> [Token -> Position]] /\ Live \in BOOLEAN
  BY EngineAssumption DEF TypeOK, TokenIn
<1>2. (l = "sell" /\ seen[l].amount = 0) => book' = book
  BY DEF Fold
<1>3. ~(l = "sell" /\ seen[l].amount = 0) =>
        book'[~Live][t] = Record(l)
  BY <1>1 DEF Fold
<1>4. \A u \in Token : u # t => book'[~Live][u] = book[~Live][u]
  BY <1>1 DEF Fold
<1>5. OpenIn(Live)' = OpenIn(Live)
  BY FoldTouches
<1>6. \A u \in Token : Cost'[u] = book'[~Live][u].cost /\ Cost[u] = book[~Live][u].cost
  BY DEF Cost
<1>7. \A u \in Token : u # t => Cost'[u] = Cost[u]
  BY <1>4, <1>6
<1>8. /\ IsFiniteSet(Token) /\ \A u \in Token : Cost[u] \in Nat
      /\ \A u \in Token : Cost'[u] \in Nat
  <2>1. IsFiniteSet(Token) /\ \A u \in Token : Cost[u] \in Nat
    BY CostTyped
  <2>2. \A u \in Token : book'[~Live][u] \in Position
    BY <1>1 DEF TypeOK
  <2> QED
    BY <2>1, <2>2, <1>6 DEF Position
<1> DEFINE f == Cost
           g == Cost'
<1>9. SumFunctionOnSet(g, Token) = SumFunctionOnSet(f, Token) - f[t] + g[t]
  <2>1. \A u \in Token : f[u] \in Int /\ g[u] \in Int /\ (u # t => g[u] = f[u])
    BY <1>7, <1>8
  <2>2. t \in Token /\ IsFiniteSet(Token)
    BY <1>1, <1>8
  <2> HIDE DEF f, g, t
  <2> QED
    BY <2>1, <2>2, SumChanges
<1>10. Spent' = Spent - Cost[t] + Cost'[t]
  BY <1>9 DEF Spent
<1> QED
  BY <1>2, <1>3, <1>4, <1>5, <1>6, <1>7, <1>10, <1>1

(* A step that leaves the book alone keeps CostInv, under the conditions   *)
(* of QuietStep and if a fill is not 0.                                    *)
LEMMA QuietCostStep ==
  ASSUME OneBook, CostInv, TypeOK', UNCHANGED book,
         pc'["buy"] \in {"execute", "read"} =>
           /\ job'["buy"] = job["buy"]
           /\ pc["buy"] \in {"execute", "read"} \/ WithinLimits(job["buy"]),
         pc'["buy"] \in Folding => out'["buy"] > 0,
         \A l \in Side : pc'[l] = "write" =>
           /\ job'[l] = job[l]
           /\ \/ pc[l] = "write" /\ seen'[l] = seen[l]
              \/ pc[l] = "read" /\ seen'[l] = book[~Live][TokenIn(l)]
  PROVE  CostInv'
<1>1. OpenIn(Live)' = OpenIn(Live) /\ Dustless' /\ Cost' = Cost /\ Spent' = Spent
  BY DEF CostInv, OpenIn, Dustless, Cost, Spent
<1>2. TypeOK /\ Dustless
  BY DEF CostInv
<1>3. Spent \in Nat /\ \A t \in Token : Cost[t] \in Nat /\ Cost[t] = book[~Live][t].cost
  BY <1>2, CostTyped
<1>4. \A l \in Side : TokenIn(l) \in Token /\ job[l] \in Intent /\ AmountOf[job[l]] \in Nat
  BY <1>2, EngineAssumption DEF TypeOK, TokenIn
<1>5. \A l \in Side : pc'[l] = "write" => TokenIn(l)' = TokenIn(l)
  BY DEF TokenIn
<1>6. ASSUME MaxTotal > 0 PROVE Room'
  <2>0. Room
    BY <1>6 DEF CostInv
  <2>1. ASSUME pc'["buy"] \in {"execute", "read"} PROVE Spent + AmountOf[job'["buy"]] <= MaxTotal
    <3>1. CASE pc["buy"] \in {"execute", "read"}
      BY <2>0, <2>1, <3>1 DEF Room
    <3>2. CASE WithinLimits(job["buy"])
      <4>1. Deployed(~Live) + AmountOf[job["buy"]] <= MaxTotal
        BY <1>4, <1>6, <3>2 DEF WithinLimits, OneBook, Side
      <4>2. Deployed(~Live) = Spent
        BY <1>2, DeployedIsSpent
      <4> QED
        BY <2>1, <4>1, <4>2
    <3> QED
      BY <2>1, <3>1, <3>2
  <2>2. ASSUME pc'["buy"] = "write"
        PROVE  /\ Cost[TokenIn("buy")] <= seen'["buy"].cost
               /\ Spent - Cost[TokenIn("buy")] + seen'["buy"].cost + AmountOf[job["buy"]] <= MaxTotal
               /\ job'["buy"] = job["buy"]
    <3>1. CASE pc["buy"] = "write" /\ seen'["buy"] = seen["buy"]
      BY <2>0, <2>2, <3>1 DEF Room, Side
    <3>2. CASE pc["buy"] = "read" /\ seen'["buy"] = book[~Live][TokenIn("buy")]
      <4>1. Spent + AmountOf[job["buy"]] <= MaxTotal
        BY <2>0, <3>2 DEF Room
      <4>2. seen'["buy"].cost = Cost[TokenIn("buy")] /\ Cost[TokenIn("buy")] \in Nat
        BY <1>3, <1>4, <3>2 DEF Side
      <4>3. Spent - Cost[TokenIn("buy")] + Cost[TokenIn("buy")] + AmountOf[job["buy"]]
              = Spent + AmountOf[job["buy"]]
        BY <1>3, <1>4, <4>2 DEF Side
      <4> QED
        BY <2>2, <4>1, <4>2, <4>3 DEF Side
    <3> QED
      BY <2>2, <3>1, <3>2 DEF Side
  <2>3. ASSUME pc'["sell"] = "write", seen'["sell"].amount > 0
        PROVE  seen'["sell"].cost <= Cost[TokenIn("sell")]
    <3>1. CASE pc["sell"] = "write" /\ seen'["sell"] = seen["sell"]
      BY <2>0, <2>3, <3>1 DEF Room
    <3>2. CASE pc["sell"] = "read" /\ seen'["sell"] = book[~Live][TokenIn("sell")]
      <4>1. seen'["sell"].cost = Cost[TokenIn("sell")] /\ Cost[TokenIn("sell")] \in Nat
        BY <1>3, <1>4, <3>2 DEF Side
      <4> QED
        BY <4>1
    <3> QED
      BY <2>3, <3>1, <3>2 DEF Side
  <2>4. Spent <= MaxTotal
    BY <2>0 DEF Room
  <2> HIDE DEF Cost, Spent
  <2> QED
    BY <1>1, <1>5, <2>1, <2>2, <2>3, <2>4 DEF Room, Side
<1> QED
  BY <1>1, <1>6 DEF CostInv

(* What a fold records: a buy adds its quote and opens the position, a     *)
(* sell adds no cost, and a position it closes has none.                   *)
LEMMA RecordedCost ==
  ASSUME TypeOK, NEW l \in Side, l = "buy" => out[l] > 0, l = "sell" => seen[l].amount > 0
  PROVE  /\ Record(l) \in Position
         /\ Record(l).amount = 0 => Record(l).cost = 0
         /\ l = "buy" => Record(l).cost = seen[l].cost + AmountOf[job[l]]
         /\ l = "sell" => Record(l).cost <= seen[l].cost
<1>1. /\ seen[l] \in Position /\ out[l] \in Nat /\ AmountOf[job[l]] \in Nat
      /\ seen[l].amount \in Nat /\ seen[l].cost \in Nat
  BY EngineAssumption DEF TypeOK, Position
<1>2. Record(l) \in Position
  BY <1>1, FoldedTyped DEF Record
<1>3. CASE l = "buy"
  <2>1. Record(l) = [amount |-> seen[l].amount + out[l], cost |-> seen[l].cost + AmountOf[job[l]]]
    BY <1>3 DEF Record, Folded, AddBuy
  <2>2. Record(l).amount = seen[l].amount + out[l] /\ Record(l).cost = seen[l].cost + AmountOf[job[l]]
    BY <2>1
  <2> QED
    BY <1>1, <1>2, <1>3, <2>2
<1>4. CASE l = "sell"
  <2> DEFINE p == seen[l]
             x == AmountOf[job[l]]
  <2>1. Record(l) = TakeSell(p, x)
    BY <1>4 DEF Record, Folded
  <2>2. CASE x >= p.amount
    <3>1. Record(l) = Flat
      <4>1. p.amount # 0 /\ (x <= p.amount => x = p.amount)
        BY <1>1, <1>4, <2>2
      <4> HIDE DEF p, x
      <4> QED
        BY <2>1, <4>1 DEF TakeSell
    <3>2. Record(l).cost = 0
      BY <3>1 DEF Flat
    <3> QED
      BY <1>1, <1>2, <1>4, <3>2
  <2>3. CASE x < p.amount
    <3>1. Record(l) = [amount |-> p.amount - x, cost |-> p.cost - ((p.cost * x) \div p.amount)]
      BY <1>1, <1>4, <2>1, <2>3 DEF TakeSell
    <3>2. (p.cost * x) \div p.amount \in 0..p.cost
      BY <1>1, <1>4, <2>3, ShareOfCost
    <3>3. Record(l).amount = p.amount - x /\ Record(l).cost = p.cost - ((p.cost * x) \div p.amount)
      BY <3>1
    <3>4. Record(l).amount # 0
      BY <1>1, <2>3, <3>3
    <3>5. Record(l).cost <= p.cost
      BY <1>1, <3>2, <3>3
    <3> QED
      BY <1>2, <1>4, <3>4, <3>5
  <2> QED
    BY <1>1, <2>2, <2>3
<1> QED
  BY <1>3, <1>4 DEF Side

(* A fold keeps CostInv: a buy puts what it had room for in the place of   *)
(* what it read, a sell only takes cost away.                              *)
LEMMA FoldCostStep ==
  ASSUME CostInv, TypeOK', NEW l \in Side, pc[l] = "write", Fold(l), UNCHANGED job,
         pc'[l] = "publish",
         \A m \in Side : m # l => pc'[m] = pc[m] /\ seen'[m] = seen[m] /\ out'[m] = out[m]
  PROVE  CostInv'
<1>0. TypeOK
  BY DEF CostInv
<1> DEFINE t == TokenIn(l)
           silent == l = "sell" /\ seen[l].amount = 0
<1>1. /\ \A u \in Token : u # t => Cost'[u] = Cost[u]
      /\ silent => book' = book
      /\ ~silent => book'[~Live][t] = Record(l) /\ Cost'[t] = Record(l).cost
      /\ Spent' = Spent - Cost[t] + Cost'[t]
      /\ OpenIn(Live)' = OpenIn(Live)
      /\ \A u \in Token : u # t => book'[~Live][u] = book[~Live][u]
  BY <1>0, FoldCosts
<1>2. Spent \in Nat /\ \A u \in Token : Cost[u] \in Nat
  BY <1>0, CostTyped
<1>3. \A m \in Side : /\ TokenIn(m)' = TokenIn(m) /\ TokenIn(m) \in Token
                      /\ AmountOf[job[m]] \in Nat /\ seen[m].cost \in Nat /\ seen[m].amount \in Nat
  BY <1>0, EngineAssumption DEF TypeOK, TokenIn, Position
<1>4. ~silent => /\ Record(l) \in Position
                 /\ Record(l).amount = 0 => Record(l).cost = 0
                 /\ l = "buy" => Record(l).cost = seen[l].cost + AmountOf[job[l]]
                 /\ l = "sell" => Record(l).cost <= seen[l].cost
  <2>1. ~silent => (l = "sell" => seen[l].amount > 0)
    BY <1>3
  <2>2. l = "buy" => out[l] > 0
    BY DEF CostInv, Folding
  <2> QED
    BY <1>0, <2>1, <2>2, RecordedCost
<1>5. Dustless'
  <2>1. silent => Dustless'
    BY <1>1 DEF CostInv, Dustless
  <2>2. ~silent => Dustless'
    BY <1>1, <1>4 DEF CostInv, Dustless
  <2> QED
    BY <2>1, <2>2
<1>6. pc'["buy"] \in Folding => out'["buy"] > 0
  BY DEF CostInv, Folding, Side
<1>7. \A u \in Token : Cost'[u] \in Nat
  BY <1>1, <1>2, <1>4, <1>3 DEF Position, Cost
<1>8. ASSUME MaxTotal > 0 PROVE Room'
  <2>0. Room
    BY <1>8 DEF CostInv
  <2> HIDE DEF Cost, Spent
  <2>1. CASE l = "buy"
    <3>1. Cost'[t] = seen["buy"].cost + AmountOf[job["buy"]] /\ Cost[t] <= seen["buy"].cost
      BY <2>0, <2>1, <1>1, <1>4 DEF Room
    <3>2. Spent' <= MaxTotal
      BY <2>0, <2>1, <3>1, <1>1, <1>2, <1>3 DEF Room
    <3>3. \A u \in Token : Cost[u] <= Cost'[u]
      BY <1>1, <1>2, <1>3, <2>1, <3>1
    <3>4. (pc'["sell"] = "write" /\ seen'["sell"].amount > 0) =>
            seen'["sell"].cost <= Cost'[TokenIn("sell")]
      <4> SUFFICES ASSUME pc["sell"] = "write", seen["sell"].amount > 0
                   PROVE  seen["sell"].cost <= Cost'[TokenIn("sell")]
        BY <2>1 DEF Side
      <4>1. seen["sell"].cost <= Cost[TokenIn("sell")]
        BY <2>0 DEF Room
      <4>2. /\ Cost[TokenIn("sell")] <= Cost'[TokenIn("sell")] /\ Cost[TokenIn("sell")] \in Nat
            /\ Cost'[TokenIn("sell")] \in Nat /\ seen["sell"].cost \in Nat
        BY <1>2, <1>3, <1>7, <3>3 DEF Side
      <4> QED
        BY <4>1, <4>2
    <3>5. TokenIn("sell")' = TokenIn("sell")
      BY <1>3 DEF Side
    <3> QED
      BY <2>1, <3>2, <3>4, <3>5 DEF Room
  <2>2. CASE l = "sell"
    <3>1. Cost'[t] <= Cost[t] /\ Cost'[t] \in Nat /\ Cost[t] \in Nat
      <4>1. Cost'[t] \in Nat /\ Cost[t] \in Nat
        BY <1>2, <1>3, <1>7
      <4>2. CASE silent
        BY <4>1, <4>2, <1>1 DEF Cost
      <4>3. CASE ~silent
        <5>1. seen["sell"].amount > 0
          BY <1>3, <2>2, <4>3
        <5>2. seen["sell"].cost <= Cost[t]
          BY <2>0, <2>2, <5>1 DEF Room
        <5>3. Cost'[t] <= seen["sell"].cost
          BY <1>1, <1>4, <2>2, <4>3
        <5> QED
          BY <4>1, <5>2, <5>3, <1>3 DEF Side
      <4> QED
        BY <4>2, <4>3
    <3>2. Spent' <= Spent /\ Spent' \in Int
      BY <1>1, <1>2, <3>1
    <3>3. Spent' <= MaxTotal
      BY <2>0, <3>2, <1>2, EngineAssumption DEF Room
    <3>b. /\ pc'["buy"] = pc["buy"] /\ seen'["buy"] = seen["buy"] /\ job' = job
          /\ TokenIn("buy")' = TokenIn("buy") /\ TokenIn("buy") \in Token
          /\ AmountOf[job["buy"]] \in Nat /\ seen["buy"].cost \in Nat /\ MaxTotal \in Nat
      BY <1>3, <2>2, EngineAssumption DEF Side
    <3>4. ASSUME pc["buy"] \in {"execute", "read"} PROVE Spent' + AmountOf[job["buy"]] <= MaxTotal
      <4>1. Spent + AmountOf[job["buy"]] <= MaxTotal
        BY <2>0, <3>4 DEF Room
      <4> QED
        BY <4>1, <3>2, <3>b, <1>2
    <3>5. ASSUME pc["buy"] = "write"
          PROVE  /\ Cost'[TokenIn("buy")] <= seen["buy"].cost
                 /\ Spent' - Cost'[TokenIn("buy")] + seen["buy"].cost + AmountOf[job["buy"]] <= MaxTotal
      <4>1. /\ Cost[TokenIn("buy")] <= seen["buy"].cost
            /\ Spent - Cost[TokenIn("buy")] + seen["buy"].cost + AmountOf[job["buy"]] <= MaxTotal
        BY <2>0, <3>5 DEF Room
      <4>2. CASE TokenIn("buy") = t
        BY <4>1, <4>2, <3>1, <3>b, <1>1, <1>2
      <4>3. CASE TokenIn("buy") # t
        <5>1. Cost'[TokenIn("buy")] = Cost[TokenIn("buy")] /\ Cost[TokenIn("buy")] \in Nat
          BY <4>3, <3>b, <1>1, <1>2
        <5> QED
          BY <4>1, <5>1, <3>2, <3>b, <1>2
      <4> QED
        BY <4>2, <4>3
    <3>6. pc'["sell"] # "write"
      BY <2>2
    <3> QED
      BY <3>3, <3>b, <3>4, <3>5, <3>6 DEF Room
  <2> QED
    BY <2>1, <2>2 DEF Side
<1> QED
  BY <1>1, <1>5, <1>6, <1>8 DEF CostInv

(* CostInv is inductive.                                                   *)
LEMMA CostStep ==
  ASSUME OneBook, NoEmptyFill
  PROVE  CostInv /\ [Next]_vars => CostInv'
<1> SUFFICES ASSUME CostInv, [Next]_vars PROVE CostInv'
  OBVIOUS
<1>0. TypeOK /\ TypeOK'
  BY TypeStep DEF CostInv
<1>t. /\ pc \in [Side -> Phases] /\ job \in [Side -> Intent] /\ seen \in [Side -> Position]
      /\ \A l \in Side : pc[l] # "idle" => SideOf[job[l]] = l
  BY <1>0 DEF TypeOK
<1>o. /\ out \in [Side -> Nat]
      /\ pc["buy"] \in Folding => out["buy"] > 0
      /\ \A y \in Fill : y > 0
  BY <1>0, EngineAssumption DEF TypeOK, CostInv, NoEmptyFill
<1> DEFINE Quiet ==
      /\ UNCHANGED book
      /\ pc'["buy"] \in {"execute", "read"} =>
            /\ job'["buy"] = job["buy"]
            /\ pc["buy"] \in {"execute", "read"} \/ WithinLimits(job["buy"])
      /\ pc'["buy"] \in Folding => out'["buy"] > 0
      /\ \A l \in Side : pc'[l] = "write" =>
            /\ job'[l] = job[l]
            /\ \/ pc[l] = "write" /\ seen'[l] = seen[l]
               \/ pc[l] = "read" /\ seen'[l] = book[~Live][TokenIn(l)]
<1>q. ASSUME Quiet PROVE CostInv'
  BY <1>0, <1>q, QuietCostStep
<1>1. ASSUME NEW l \in Side, NEW i \in Intent, Deliver(l, i) PROVE Quiet
  BY <1>1, <1>t, <1>o DEF Deliver, Goto, loopVars, Folding, Side, history
<1>2. ASSUME NEW l \in Side, Gate(l) PROVE Quiet
  BY <1>2, <1>t, <1>o DEF Gate, Goto, Conclude, Folding, Side, history
<1>3. ASSUME NEW l \in Side, GateThrows(l) PROVE Quiet
  BY <1>3, <1>t, <1>o DEF GateThrows, Return, Goto, Folding, Side, history
<1>4. ASSUME NEW l \in Side, Guard(l) PROVE Quiet
  BY <1>4, <1>t, <1>o DEF Guard, Goto, Conclude, Folding, Side, history
<1>5. ASSUME NEW l \in Side, Executes(l) PROVE Quiet
  BY <1>5, <1>t, <1>o DEF Executes, Goto, Folding, Side, history
<1>6. ASSUME NEW l \in Side, Refused(l) PROVE Quiet
  BY <1>6, <1>t, <1>o DEF Refused, Goto, Conclude, Folding, Side, history
<1>7. ASSUME NEW l \in Side, InfraFails(l) PROVE Quiet
  BY <1>7, <1>t, <1>o DEF InfraFails, Goto, Conclude, Folding, Side, history
<1>8. ASSUME NEW l \in Side, ReceiptLost(l) PROVE Quiet
  BY <1>8, <1>t, <1>o DEF ReceiptLost, Goto, Conclude, Folding, Side, history
<1>9. ASSUME NEW l \in Side, ReadPosition(l) PROVE Quiet
  BY <1>9, <1>t, <1>o DEF ReadPosition, Goto, Folding, Side, history
<1>10. ASSUME NEW l \in Side, Publish(l) PROVE Quiet
  BY <1>10, <1>t, <1>o DEF Publish, Return, Goto, Folding, Side, history
<1>11. ASSUME NEW l \in Side, PublishFails(l) PROVE Quiet
  BY <1>11, <1>t, <1>o DEF PublishFails, Return, Goto, Folding, Side, history
<1>12. ASSUME NEW l \in Side, WritePosition(l) PROVE CostInv'
  <2>1. /\ pc[l] = "write" /\ Fold(l) /\ UNCHANGED job /\ pc'[l] = "publish"
        /\ \A m \in Side : m # l => pc'[m] = pc[m] /\ seen'[m] = seen[m] /\ out'[m] = out[m]
    BY <1>12, <1>t, <1>o DEF WritePosition, Conclude, Goto, Forget
  <2> QED
    BY <1>0, <2>1, FoldCostStep
<1>13. ASSUME NEW l \in Side, StoreFails(l) PROVE CostInv'
  <2>1. /\ UNCHANGED job /\ pc'[l] = "publish"
        /\ \A m \in Side : m # l => pc'[m] = pc[m] /\ seen'[m] = seen[m] /\ out'[m] = out[m]
    BY <1>13, <1>t, <1>o DEF StoreFails, Conclude, Goto, Forget
  <2>2. CASE UNCHANGED book
    <3>1. Quiet
      BY <2>1, <2>2, <1>t, <1>o DEF Folding, Side
    <3> QED
      BY <1>q, <3>1
  <2>3. CASE pc[l] = "write" /\ Fold(l)
    BY <1>0, <2>1, <2>3, FoldCostStep
  <2> QED
    BY <1>13, <2>2, <2>3 DEF StoreFails
<1>14. ASSUME Restart PROVE Quiet
  BY <1>14, <1>o DEF Restart, Folding, Side, history
<1>15. ASSUME UNCHANGED vars PROVE Quiet
  BY <1>15, <1>o DEF vars, loopVars, Folding
<1>w. ASSUME NEW l \in Side, WriteRefused(l) PROVE Quiet
  BY <1>w, <1>t, <1>o DEF WriteRefused, Conclude, Goto, Forget, Folding, Side
<1>16. CASE Next
  BY <1>16, <1>q, <1>w, <1>1, <1>2, <1>3, <1>4, <1>5, <1>6, <1>7, <1>8, <1>9, <1>10, <1>11, <1>12,
     <1>13, <1>14 DEF Next, Work, Failure
<1> QED
  BY <1>16, <1>15, <1>q

(* The quote deployed in open positions never exceeds the ceiling, in      *)
(* either book, although the guard adds it up several awaits before the    *)
(* buy is folded and sells rewrite the book meanwhile - provided the       *)
(* intents carry the executor's own book, and no buy is filled for         *)
(* nothing: a position bought for nothing is not among those the guard     *)
(* counts, and the next buy of the token brings its cost back.             *)
THEOREM DeployedCapped ==
  ASSUME OneBook, NoEmptyFill
  PROVE  Spec => []DeployedWithinCap
<1>1. Init => CostInv
  <2> SUFFICES ASSUME Init PROVE CostInv
    OBVIOUS
  <2>1. TypeOK
    BY SomeIntentIsIntent, EngineAssumption
    DEF Init, TypeOK, Side, Phases, Results, Flat, Position
  <2>2. OpenIn(Live) = {} /\ Dustless
    BY EngineAssumption DEF Init, OpenIn, Flat, Dustless
  <2>3. \A l \in Side : pc[l] = "idle"
    BY DEF Init
  <2>4. Spent = 0
    <3>1. OpenIn(~Live) = {}
      BY DEF Init, OpenIn, Flat
    <3>2. Deployed(~Live) = Spent
      BY <2>1, <2>2, DeployedIsSpent
    <3>3. Cost = [u \in Token |-> book[~Live][u].cost]
      BY DEF Cost
    <3>4. Deployed(~Live) = SumFunctionOnSet(Cost, {})
      BY <3>1, <3>3 DEF Deployed
    <3>5. IsFiniteSet({}) /\ \A x \in {} : Cost[x] \in Int
      BY FS_EmptySet
    <3> HIDE DEF Cost
    <3>6. SumFunctionOnSet(Cost, {}) = 0
      BY <3>5, SumStep
    <3> QED
      BY <3>2, <3>4, <3>6
  <2> QED
    BY <2>1, <2>2, <2>3, <2>4, EngineAssumption DEF CostInv, Room, Side, Folding
<1>2. CostInv => DeployedWithinCap
  <2> SUFFICES ASSUME CostInv, MaxTotal > 0, NEW s \in BOOLEAN PROVE Deployed(s) <= MaxTotal
    BY DEF DeployedWithinCap
  <2>1. CASE s = Live
    <3> DEFINE f == [u \in Token |-> book[s][u].cost]
    <3>1. Deployed(s) = SumFunctionOnSet(f, {})
      BY <2>1 DEF CostInv, Deployed
    <3>2. IsFiniteSet({}) /\ \A x \in {} : f[x] \in Int
      BY FS_EmptySet
    <3> HIDE DEF f
    <3>3. SumFunctionOnSet(f, {}) = 0
      BY <3>2, SumStep
    <3> QED
      BY <3>1, <3>3, EngineAssumption
  <2>2. CASE s = ~Live
    <3>1. Deployed(~Live) = Spent
      BY DeployedIsSpent DEF CostInv
    <3> QED
      BY <2>2, <3>1 DEF CostInv, Room
  <2> QED
    BY <2>1, <2>2, EngineAssumption
<1>3. CostInv /\ [Next]_vars => CostInv'
  BY CostStep
<1> QED
  BY <1>1, <1>2, <1>3, PTL DEF Spec

-----------------------------------------------------------------------------
(* Loop l is folding a trade of token t.                                   *)
Folds(l, t) == pc[l] \in Folding /\ TokenIn(l) = t

(* Between folds the position of t is what its fills amount to; during one *)
(* it is what they amounted to before the trade, the fold has read nothing *)
(* else, and the other loop is not folding a trade of t.                   *)
Matches(t) ==
  /\ (\A l \in Side : ~Folds(l, t)) => book[~Live][t] = ledger[t]
  /\ \A l \in Side : Folds(l, t) =>
       /\ ~Folds(Other(l), t)
       /\ (pc[l] = "write" => seen[l] = book[~Live][t])
       /\ ledger[t] = Settled(l, book[~Live][t], AmountOf[job[l]], out[l])

MatchInv == TypeOK /\ (faults = 0 => \A t \in Token \ astray : Matches(t))

(* applyTrade makes of a position what the history makes of it.            *)
LEMMA FoldedIsSettled ==
  ASSUME NEW l \in Side, NEW p \in Position, NEW x \in Nat \ {0}, NEW y \in Nat
  PROVE  /\ Folded(l, p, x, y) = Settled(l, p, x, y)
         /\ (l = "sell" /\ p.amount = 0) => Settled(l, p, x, y) = p
<1>1. p.amount \in Nat /\ p.cost \in Nat
  BY DEF Position
<1>2. CASE l = "buy"
  BY <1>2 DEF Folded, Settled, AddBuy
<1>3. CASE l = "sell" /\ x >= p.amount
  <2>1. Settled(l, p, x, y) = IF p.amount = 0 THEN p ELSE Flat
    BY <1>3 DEF Settled
  <2>2. (x <= p.amount => x = p.amount) /\ Folded(l, p, x, y) = TakeSell(p, x)
    BY <1>1, <1>3 DEF Folded
  <2>3. TakeSell(p, x) = IF p.amount = 0 THEN p ELSE Flat
    BY <1>1, <2>2 DEF TakeSell
  <2> QED
    BY <1>3, <2>1, <2>2, <2>3
<1>4. CASE l = "sell" /\ x < p.amount
  <2>1. p.amount # 0 /\ x # p.amount /\ x <= p.amount /\ ~(x >= p.amount) /\ l # "buy"
    BY <1>1, <1>4
  <2>2. Settled(l, p, x, y)
          = [amount |-> p.amount - x, cost |-> p.cost - ((p.cost * x) \div p.amount)]
    BY <1>4, <2>1 DEF Settled
  <2>3. TakeSell(p, x)
          = [amount |-> p.amount - x, cost |-> p.cost - ((p.cost * x) \div p.amount)]
    BY <2>1 DEF TakeSell
  <2> QED
    BY <1>4, <2>1, <2>2, <2>3 DEF Folded
<1> QED
  BY <1>1, <1>2, <1>3, <1>4 DEF Side

(* A step that folds nothing and trades nothing keeps what was matched.    *)
LEMMA QuietMatchStep ==
  ASSUME TypeOK, NEW t \in Token, Matches(t), UNCHANGED <<book, ledger>>,
         \A l \in Side : pc'[l] \in Folding =>
           /\ pc[l] \in Folding /\ UNCHANGED <<job[l], out[l]>>
           /\ \/ pc'[l] = "write" => pc[l] = "write" /\ seen'[l] = seen[l]
              \/ seen'[l] = book[~Live][TokenIn(l)],
         \A l \in Side : pc[l] \in Folding => pc'[l] \in Folding
  PROVE  Matches(t)'
<1>1. \A l \in Side : Folds(l, t)' <=> Folds(l, t)
  BY DEF Folds, TokenIn
<1>2. \A l \in Side : Other(l) \in Side
  BY DEF Other, Side
<1>3. \A l \in Side : Folds(l, t) => TokenIn(l) = t /\ pc'[l] \in Folding
  BY <1>1 DEF Folds
<1> QED
  BY <1>1, <1>2, <1>3 DEF Matches, Folding

(* MatchInv is inductive.                                                  *)
LEMMA MatchStep == MatchInv /\ [Next]_vars => MatchInv'
<1> SUFFICES ASSUME MatchInv, [Next]_vars, faults' = 0, NEW t \in Token \ astray'
             PROVE  Matches(t)'
  BY TypeStep DEF MatchInv
<1>0. TypeOK /\ TypeOK'
  BY TypeStep DEF MatchInv
<1>t. /\ pc \in [Side -> Phases] /\ job \in [Side -> Intent] /\ seen \in [Side -> Position]
      /\ out \in [Side -> Nat] /\ faults \in Nat /\ ledger \in [Token -> Position]
      /\ book \in [BOOLEAN -> [Token -> Position]] /\ Live \in BOOLEAN
      /\ \A l \in Side : TokenIn(l) \in Token /\ AmountOf[job[l]] \in Nat \ {0}
      /\ \A l \in Side : Other(l) \in Side /\ Other(l) # l
  BY <1>0, EngineAssumption DEF TypeOK, TokenIn, Other, Side
<1> DEFINE Quiet ==
      /\ UNCHANGED <<book, ledger>> /\ t \notin astray /\ faults = 0
      /\ \A l \in Side : pc'[l] \in Folding =>
           /\ pc[l] \in Folding /\ UNCHANGED <<job[l], out[l]>>
           /\ \/ pc'[l] = "write" => pc[l] = "write" /\ seen'[l] = seen[l]
              \/ seen'[l] = book[~Live][TokenIn(l)]
      /\ \A l \in Side : pc[l] \in Folding => pc'[l] \in Folding
<1>q. ASSUME Quiet PROVE Matches(t)'
  <2>1. Matches(t)
    BY <1>q DEF MatchInv
  <2> QED
    BY <1>0, <1>q, <2>1, QuietMatchStep
<1>1. ASSUME NEW l \in Side, NEW i \in Intent, Deliver(l, i) PROVE Quiet
  BY <1>1, <1>t DEF Deliver, Goto, loopVars, Folding
<1>2. ASSUME NEW l \in Side, Gate(l) PROVE Quiet
  BY <1>2, <1>t DEF Gate, Goto, Conclude, Folding, history
<1>3. ASSUME NEW l \in Side, Guard(l) PROVE Quiet
  BY <1>3, <1>t DEF Guard, Goto, Conclude, Folding, history
<1>4. ASSUME NEW l \in Side, Refused(l) PROVE Quiet
  BY <1>4, <1>t DEF Refused, Goto, Conclude, Folding, history
<1>5. ASSUME NEW l \in Side, InfraFails(l) PROVE Quiet
  BY <1>5, <1>t DEF InfraFails, Goto, Conclude, Folding, history
<1>6. ASSUME NEW l \in Side, ReadPosition(l) PROVE Quiet
  BY <1>6, <1>t DEF ReadPosition, Goto, Folding, history
<1>7. ASSUME NEW l \in Side, Publish(l) PROVE Quiet
  BY <1>7, <1>t DEF Publish, Return, Goto, Folding
<1>8. ASSUME NEW l \in Side, Failure(l) PROVE FALSE
  BY <1>8, <1>t DEF Failure, GateThrows, ReceiptLost, StoreFails, PublishFails, Fault
<1>9. ASSUME Restart PROVE FALSE
  BY <1>9, <1>t DEF Restart, Fault
<1>10. ASSUME UNCHANGED vars PROVE Quiet
  BY <1>10, <1>t DEF vars, loopVars, history, Folding
<1>11. ASSUME NEW l \in Side, Executes(l) PROVE Matches(t)'
  <2> DEFINE u == TokenIn(l)
             m == Other(l)
  <2>1. PICK y \in Fill : Trades(l, y) /\ out' = [out EXCEPT ![l] = y]
    BY <1>11 DEF Executes
  <2>2. /\ pc[l] = "execute" /\ pc' = [pc EXCEPT ![l] = "read"]
        /\ UNCHANGED <<job, seen, book, faults>> /\ y \in Nat
        /\ ledger' = [ledger EXCEPT ![u] = Settled(l, @, AmountOf[job[l]], y)]
        /\ astray' = astray \cup {v \in {u} : pc[m] \in Folding /\ TokenIn(m) = v}
    BY <1>11, <2>1, EngineAssumption DEF Executes, Goto, Trades
  <2>3. Matches(t) /\ (t = u => ~Folds(m, t))
    BY <2>2 DEF MatchInv, Folds
  <2>4. \A k \in Side : k = l \/ k = m
    BY DEF Side, Other
  <2>5. CASE t = u
    <3>1. ~Folds(l, t) /\ book[~Live][t] = ledger[t]
      BY <2>2, <2>3, <2>4, <2>5 DEF Folds, Folding, Matches
    <3>2. ~Folds(m, t)' /\ Folds(l, t)'
      BY <1>t, <2>2, <2>3, <2>5 DEF Folds, Folding, TokenIn
    <3>3. ledger'[t] = Settled(l, book'[~Live][t], AmountOf[job'[l]], out'[l])
      BY <1>t, <2>1, <2>2, <2>5, <3>1
    <3>4. pc'[l] # "write"
      BY <1>t, <2>2
    <3> QED
      BY <2>4, <3>2, <3>3, <3>4 DEF Matches
  <2>6. CASE t # u
    <3>1. ledger'[t] = ledger[t] /\ ~Folds(l, t) /\ ~Folds(l, t)'
      BY <1>t, <2>2, <2>6 DEF Folds, TokenIn
    <3>2. Folds(m, t)' <=> Folds(m, t)
      BY <1>t, <2>2 DEF Folds, TokenIn
    <3>3. pc'[m] = pc[m] /\ seen'[m] = seen[m] /\ out'[m] = out[m] /\ Other(m) = l
      BY <1>t, <2>1, <2>2 DEF Other, Side
    <3>4. Folds(m, t) => /\ pc[m] = "write" => seen[m] = book[~Live][t]
                         /\ ledger[t] = Settled(m, book[~Live][t], AmountOf[job[m]], out[m])
      BY <1>t, <2>3 DEF Matches
    <3>5. ~Folds(m, t) => book[~Live][t] = ledger[t]
      BY <2>3, <2>4, <3>1 DEF Matches
    <3>6. Folds(m, t)' => /\ pc'[m] = "write" => seen'[m] = book'[~Live][t]
                          /\ ledger'[t] = Settled(m, book'[~Live][t], AmountOf[job'[m]], out'[m])
      BY <2>2, <3>1, <3>2, <3>3, <3>4
    <3>7. ~Folds(m, t)' => book'[~Live][t] = ledger'[t]
      BY <2>2, <3>1, <3>2, <3>5
    <3> QED
      BY <1>t, <2>4, <3>1, <3>3, <3>6, <3>7 DEF Matches
  <2> QED
    BY <2>5, <2>6
<1>12. ASSUME NEW l \in Side, WritePosition(l) PROVE Matches(t)'
  <2> DEFINE u == TokenIn(l)
             m == Other(l)
  <2>1. /\ pc[l] = "write" /\ pc' = [pc EXCEPT ![l] = "publish"] /\ Fold(l)
        /\ UNCHANGED <<job, ledger, astray, faults>>
        /\ seen'[m] = seen[m] /\ out'[m] = out[m] /\ pc'[m] = pc[m]
    BY <1>12, <1>t DEF WritePosition, Conclude, Goto, Forget, history
  <2>2. Matches(t)
    BY <2>1 DEF MatchInv
  <2>3. \A k \in Side : k = l \/ k = m
    BY DEF Side, Other
  <2>4. ~Folds(l, t)' /\ (Folds(m, t)' <=> Folds(m, t))
    BY <1>t, <2>1 DEF Folds, Folding, TokenIn
  <2>5. CASE t = u
    <3>1. Folds(l, t)
      BY <2>1, <2>5 DEF Folds, Folding
    <3>2. /\ ~Folds(m, t) /\ seen[l] = book[~Live][t]
          /\ ledger[t] = Settled(l, seen[l], AmountOf[job[l]], out[l])
      BY <2>1, <2>2, <3>1 DEF Matches
    <3>3. book'[~Live][t] = ledger[t]
      <4>1. /\ Record(l) = Settled(l, seen[l], AmountOf[job[l]], out[l])
            /\ (l = "sell" /\ seen[l].amount = 0)
                 => Settled(l, seen[l], AmountOf[job[l]], out[l]) = seen[l]
        <5>1. seen[l] \in Position /\ AmountOf[job[l]] \in Nat \ {0} /\ out[l] \in Nat
          BY <1>t
        <5>2. /\ Folded(l, seen[l], AmountOf[job[l]], out[l])
                   = Settled(l, seen[l], AmountOf[job[l]], out[l])
              /\ (l = "sell" /\ seen[l].amount = 0)
                   => Settled(l, seen[l], AmountOf[job[l]], out[l]) = seen[l]
          BY <5>1, FoldedIsSettled
        <5> QED
          BY <5>2 DEF Record
      <4>2. CASE l = "sell" /\ seen[l].amount = 0
        BY <2>1, <3>2, <4>1, <4>2 DEF Fold
      <4>3. CASE ~(l = "sell" /\ seen[l].amount = 0)
        <5>1. book' = [book EXCEPT ![~Live][u] = Record(l)]
          BY <2>1, <4>3 DEF Fold
        <5>2. book'[~Live][u] = Record(l)
          BY <1>t, <5>1
        <5> QED
          BY <2>5, <3>2, <4>1, <5>2
      <4> QED
        BY <4>2, <4>3
    <3> QED
      BY <2>1, <2>3, <2>4, <3>2, <3>3 DEF Matches
  <2>6. CASE t # u
    <3>1. book'[~Live][t] = book[~Live][t] /\ ~Folds(l, t)
      BY <1>t, <2>1, <2>6 DEF Fold, Folds
    <3>2. Other(m) = l
      BY DEF Other, Side
    <3>3. Folds(m, t) => /\ pc[m] = "write" => seen[m] = book[~Live][t]
                         /\ ledger[t] = Settled(m, book[~Live][t], AmountOf[job[m]], out[m])
      BY <1>t, <2>2 DEF Matches
    <3>4. ~Folds(m, t) => book[~Live][t] = ledger[t]
      BY <2>2, <2>3, <3>1 DEF Matches
    <3>5. Folds(m, t)' => /\ pc'[m] = "write" => seen'[m] = book'[~Live][t]
                          /\ ledger'[t] = Settled(m, book'[~Live][t], AmountOf[job'[m]], out'[m])
      BY <2>1, <2>4, <3>1, <3>3
    <3>6. ~Folds(m, t)' => book'[~Live][t] = ledger'[t]
      BY <2>1, <2>4, <3>1, <3>4
    <3> QED
      BY <1>t, <2>3, <2>4, <3>2, <3>5, <3>6 DEF Matches
  <2> QED
    BY <2>5, <2>6
<1>13. ASSUME NEW l \in Side, WriteRefused(l) PROVE Matches(t)'
  <2> DEFINE m == Other(l)
  <2>1. /\ pc[l] = "write" /\ pc' = [pc EXCEPT ![l] = "publish"] /\ t # TokenIn(l)
        /\ UNCHANGED <<job, book, ledger, faults>> /\ t \notin astray
        /\ seen'[m] = seen[m] /\ out'[m] = out[m] /\ pc'[m] = pc[m]
    BY <1>13, <1>t DEF WriteRefused, Conclude, Goto, Forget
  <2>2. Matches(t)
    BY <2>1 DEF MatchInv
  <2>3. \A k \in Side : k = l \/ k = m
    BY DEF Side, Other
  <2>4. ~Folds(l, t) /\ ~Folds(l, t)' /\ (Folds(m, t)' <=> Folds(m, t)) /\ Other(m) = l
    BY <1>t, <2>1 DEF Folds, Folding, TokenIn, Other, Side
  <2>5. Folds(m, t) => /\ pc[m] = "write" => seen[m] = book[~Live][t]
                       /\ ledger[t] = Settled(m, book[~Live][t], AmountOf[job[m]], out[m])
    BY <1>t, <2>2 DEF Matches
  <2>6. ~Folds(m, t) => book[~Live][t] = ledger[t]
    BY <2>2, <2>3, <2>4 DEF Matches
  <2>7. Folds(m, t)' => /\ pc'[m] = "write" => seen'[m] = book'[~Live][t]
                        /\ ledger'[t] = Settled(m, book'[~Live][t], AmountOf[job'[m]], out'[m])
    BY <2>1, <2>4, <2>5
  <2>8. ~Folds(m, t)' => book'[~Live][t] = ledger'[t]
    BY <2>1, <2>4, <2>6
  <2> QED
    BY <1>t, <2>3, <2>4, <2>7, <2>8 DEF Matches
<1>14. CASE Next
  BY <1>14, <1>q, <1>1, <1>2, <1>3, <1>4, <1>5, <1>6, <1>7, <1>8, <1>9, <1>11, <1>12, <1>13
  DEF Next, Work
<1> QED
  BY <1>14, <1>10, <1>q

(* While no call has failed, the book is what the trades amount to: for    *)
(* every token with no fold under way its position is its fills folded in  *)
(* the order they happened, unless the two loops traded it at once or a    *)
(* number did not fit its column.                                          *)
THEOREM BookFollowsFills == Spec => []BookMatchesFills
<1>1. Init => MatchInv
  <2> SUFFICES ASSUME Init PROVE MatchInv
    OBVIOUS
  <2>1. TypeOK
    BY SomeIntentIsIntent, EngineAssumption
    DEF Init, TypeOK, Side, Phases, Results, Flat, Position
  <2>2. \A t \in Token : Matches(t)
    BY EngineAssumption DEF Init, Matches, Folds, Folding
  <2> QED
    BY <2>1, <2>2 DEF MatchInv
<1>2. MatchInv => BookMatchesFills
  BY DEF MatchInv, Matches, Folds, BookMatchesFills
<1> QED
  BY <1>1, <1>2, MatchStep, PTL DEF Spec
=============================================================================
