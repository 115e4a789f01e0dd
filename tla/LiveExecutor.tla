---------------------------- MODULE LiveExecutor ----------------------------
(***************************************************************************)
(* LiveExecutor (packages/engine-core/src/live-executor.ts) on top of      *)
(* WalletServiceSigner (apps/worker/src/signer.ts): the engine's two       *)
(* handlers trade with one wallet, each await of one call of execute() is  *)
(* a step, and between the steps blocks are mined and others trade.        *)
(*                                                                         *)
(* The quote and the swap are those of a constant-product pool.  A node    *)
(* may not have heard of a pooled transaction, so the pending nonce it     *)
(* answers may be taken already, and it may accept two transactions of one *)
(* nonce; a replacement is the case that the later one is mined.           *)
(***************************************************************************)
EXTENDS Integers, FiniteSets

CONSTANTS
  Order,        \* calls of execute()
  BuySide,      \* those of the buy.requested handler
  AmountIn, SlippageBps,
  ReservePairs, \* what the pool may hold: <<quote asset, token>>
  FeeBps,
  MaxLost       \* bound: calls that fail, or whose answer is lost

ASSUME ExecutorAssumption ==
  /\ BuySide \subseteq Order /\ AmountIn \in Nat \ {0}
  /\ SlippageBps \in 0..9999 /\ FeeBps \in 0..9999
  /\ ReservePairs \subseteq (Nat \ {0}) \X (Nat \ {0})
  /\ MaxLost \in Nat

VARIABLES
  order,     \* each call: its stage, the transaction in hand, its floor, its nonce
  reserves,
  approved,  \* sides whose input token the router may spend
  mined,     \* the wallet's nonce on the chain
  mempool,   \* transactions that were broadcast and are not mined
  receipt,   \* what became of those that were mined
  answer,    \* what execute() returned: an amount, Failed, or Running
  lost       \* history: orders of which a call failed after a broadcast

executorVars == <<order, reserves, approved, mined, mempool, receipt, answer, lost>>

Side(o) == IF o \in BuySide THEN "buy" ELSE "sell"
Sides == {"buy", "sell"}
Kinds == {"approve", "swap"}
RunningAnswer == -1
FailedAnswer  == -2
Refused == [status |-> "reverted", delivered |-> 0, seen |-> FALSE]

(* getAmountOutV2; a quote of nothing cannot be built into a swap.         *)
AmountOutV2(in, reserveIn, reserveOut) ==
  LET inWithFee == in * (10000 - FeeBps)
  IN  (inWithFee * reserveOut) \div (reserveIn * 10000 + inWithFee)

ApplySlippage(out, bps) == (out * (10000 - bps)) \div 10000

(* tokenInFor and counterToken: which reserve is paid into.                *)
OutNow(o) == IF o \in BuySide THEN AmountOutV2(AmountIn, reserves[1], reserves[2])
                              ELSE AmountOutV2(AmountIn, reserves[2], reserves[1])

(* Would the transaction of an order succeed as the chain stands?          *)
Succeeds(o, kind, floor) == kind = "approve" \/ (Side(o) \in approved /\ OutNow(o) >= floor)

ExecutorInit ==
  /\ order = [o \in Order |-> [stage |-> "idle", kind |-> "approve", floor |-> 0, nonce |-> 0]]
  /\ reserves \in ReservePairs /\ approved \in SUBSET Sides
  /\ mined = 0 /\ mempool = {} /\ receipt = [t \in {} |-> Refused]
  /\ answer = [o \in Order |-> RunningAnswer] /\ lost = {}

chainVars == <<reserves, approved, mined, mempool, receipt>>
Move(o, stage) == order' = [order EXCEPT ![o].stage = stage]
Throw(o) == Move(o, "done") /\ answer' = [answer EXCEPT ![o] = FailedAnswer]

(* Each handler has one intent at a time, and the other one has its own.   *)
(* The quote and the call data built from it.                              *)
QuoteAndBuild(o) ==
  /\ order[o].stage = "idle"
  /\ \A p \in Order \ {o} : Side(p) = Side(o) => order[p].stage \in {"idle", "done"}
  /\ IF OutNow(o) = 0 THEN Throw(o)
     ELSE /\ order' = [order EXCEPT ![o].stage = "allowance",
                                    ![o].floor = ApplySlippage(OutNow(o), SlippageBps)]
          /\ UNCHANGED answer
  /\ UNCHANGED <<chainVars, lost>>

(* #ensureAllowance: approve only if the allowance is short.               *)
EnsureAllowance(o) ==
  /\ order[o].stage = "allowance"
  /\ order' = [order EXCEPT ![o].stage = "prepare",
                            ![o].kind = IF Side(o) \in approved THEN "swap" ELSE "approve"]
  /\ UNCHANGED <<chainVars, answer, lost>>

(* sendTransaction, up to its signature: the pending nonce as some node    *)
(* knows it, and a gas estimate that rejects a call bound to revert.       *)
PendingNonces == {mined} \cup {t.nonce + 1 : t \in mempool}
Prepare(o) ==
  /\ order[o].stage = "prepare"
  /\ IF Succeeds(o, order[o].kind, order[o].floor)
     THEN /\ \E n \in PendingNonces :
               order' = [order EXCEPT ![o].stage = "send", ![o].nonce = n]
          /\ UNCHANGED answer
     ELSE Throw(o)
  /\ UNCHANGED <<chainVars, lost>>

Broadcast(o) ==
  mempool' = mempool \cup {[of |-> o, kind |-> order[o].kind, nonce |-> order[o].nonce]}

(* sendRawTransaction is refused for a nonce that is spent, and may be for *)
(* one that is taken.                                                      *)
Send(o) ==
  /\ order[o].stage = "send"
  /\ \/ order[o].nonce >= mined /\ Broadcast(o) /\ Move(o, "wait") /\ UNCHANGED answer
     \/ /\ order[o].nonce < mined \/ \E t \in mempool : t.nonce = order[o].nonce
        /\ Throw(o) /\ UNCHANGED mempool
  /\ UNCHANGED <<reserves, approved, mined, receipt, lost>>

(* The node took it but its answer is lost: sent again to the next         *)
(* endpoint the transaction is `already known', and the call rejects.      *)
SendUnanswered(o) ==
  /\ order[o].stage = "send" /\ order[o].nonce >= mined /\ Cardinality(lost) < MaxLost
  /\ Broadcast(o) /\ Throw(o) /\ lost' = lost \cup {o}
  /\ UNCHANGED <<reserves, approved, mined, receipt>>

(* waitForSuccess: the client follows the nonce, so the receipt is that of *)
(* the transaction that was mined with it, be it another one.              *)
Taker(o) == CHOOSE t \in DOMAIN receipt : t.nonce = order[o].nonce
Wait(o) ==
  /\ order[o].stage = "wait" /\ \E t \in DOMAIN receipt : t.nonce = order[o].nonce
  /\ IF receipt[Taker(o)].status = "reverted" THEN Throw(o)
     ELSE /\ IF order[o].kind = "swap" THEN Move(o, "receipt")
             ELSE order' = [order EXCEPT ![o].stage = "prepare", ![o].kind = "swap"]
          /\ UNCHANGED answer
  /\ UNCHANGED <<chainVars, lost>>

(* Mutants of Realized: the fill is that of the receipt the wait returned; *)
(* a fill of which no transfer is seen is an error.                        *)
RealizedOfNonce(o) ==
  LET r == receipt[Taker(o)] IN IF r.seen THEN r.delivered ELSE order[o].floor
RealizedSeenOnly(o) ==
  LET own == {t \in DOMAIN receipt : t.of = o /\ t.kind = "swap" /\ receipt[t].seen}
  IN  IF own = {} THEN FailedAnswer ELSE receipt[CHOOSE t \in own : TRUE].delivered

(* The receipt of the order's own hash: what reached the wallet, or the    *)
(* floor when no transfer to it is seen; not found if it was not mined.    *)
Realized(o) ==
  LET own == {t \in DOMAIN receipt : t.of = o /\ t.kind = "swap"}
      r   == receipt[CHOOSE t \in own : TRUE]
  IN  IF own = {} THEN FailedAnswer ELSE IF r.seen THEN r.delivered ELSE order[o].floor

ReadReceipt(o) ==
  /\ order[o].stage = "receipt"
  /\ Move(o, "done") /\ answer' = [answer EXCEPT ![o] = Realized(o)]
  /\ UNCHANGED <<chainVars, lost>>

(* Any call of an order rejects: no endpoint, a wait that times out, a     *)
(* receipt that the node asked does not have yet.                          *)
CallRejects(o) ==
  /\ order[o].stage \notin {"idle", "done"} /\ Cardinality(lost) < MaxLost
  /\ Throw(o) /\ lost' = lost \cup {o}
  /\ UNCHANGED chainVars

(* A block takes the wallet's next transaction, and drops the others of    *)
(* its nonce; a swap may come too late, and a token may keep a part of     *)
(* what it transfers or log it in a way of its own.  A transfer of nothing *)
(* shows nothing.                                                          *)
MineAs(t, ok, seen, taxed) ==
  LET out == OutNow(t.of) IN
  /\ t.nonce = mined
  /\ ok => Succeeds(t.of, t.kind, order[t.of].floor)
  /\ t.kind = "approve" => ok /\ ~seen /\ ~taxed
  /\ ~ok => ~seen /\ ~taxed
  /\ taxed => out > 0
  /\ seen => out > IF taxed THEN 1 ELSE 0
  /\ receipt' = [u \in DOMAIN receipt \cup {t} |->
       IF u # t THEN receipt[u]
       ELSE IF ~ok THEN Refused
       ELSE [status |-> "success", seen |-> seen,
             delivered |-> IF t.kind = "approve" THEN 0 ELSE IF taxed THEN out - 1 ELSE out]]
  /\ approved' = IF t.kind = "approve" THEN approved \cup {Side(t.of)} ELSE approved
  /\ mined' = mined + 1 /\ mempool' = {u \in mempool : u.nonce > mined}
  /\ reserves' \in ReservePairs
  /\ UNCHANGED <<order, answer, lost>>

Mine == \E t \in mempool, ok, seen, taxed \in BOOLEAN : MineAs(t, ok, seen, taxed)

OthersTrade == /\ reserves' \in ReservePairs
               /\ UNCHANGED <<order, approved, mined, mempool, receipt, answer, lost>>

ExecutorNext ==
  \/ Mine \/ OthersTrade
  \/ \E o \in Order : \/ QuoteAndBuild(o) \/ EnsureAllowance(o) \/ Prepare(o)
                      \/ Send(o) \/ SendUnanswered(o) \/ Wait(o) \/ ReadReceipt(o)
                      \/ CallRejects(o)

ExecutorSpec == ExecutorInit /\ [][ExecutorNext]_executorVars

-----------------------------------------------------------------------------
Stages  == {"idle", "allowance", "prepare", "send", "wait", "receipt", "done"}
Tx      == [of : Order, kind : Kinds, nonce : Nat]
Receipt == [status : {"success", "reverted"}, delivered : Nat, seen : BOOLEAN]

ExecutorTypeOK ==
  /\ order \in [Order -> [stage : Stages, kind : Kinds, floor : Nat, nonce : Nat]]
  /\ reserves \in ReservePairs /\ approved \subseteq Sides
  /\ mined \in Nat /\ mempool \subseteq Tx
  /\ DOMAIN receipt \subseteq Tx /\ receipt \in [DOMAIN receipt -> Receipt]
  /\ answer \in [Order -> Nat \cup {RunningAnswer, FailedAnswer}] /\ lost \subseteq Order

OwnSwaps(o) == {t \in DOMAIN receipt : t.of = o /\ t.kind = "swap"
                                       /\ receipt[t].status = "success"}

(* Two handlers may send with one nonce (signer.ts:76 says they do not),   *)
(* and the wait then answers with the other's receipt: still an order is   *)
(* reported executed only when its own swap was mined, with what that swap *)
(* delivered, or with its floor if it showed no transfer.                  *)
CreditedOnlyOwnSwap ==
  \A o \in Order : answer[o] >= 0 =>
    \E t \in OwnSwaps(o) :
      answer[o] = IF receipt[t].seen THEN receipt[t].delivered ELSE order[o].floor

(* A swap that was mined for an order reported as failed is in no book:    *)
(* that takes a call that failed after the swap was broadcast, and never   *)
(* comes from a shared nonce, a refused broadcast or the fill itself.      *)
UnreportedOnlyByLostCall ==
  \A o \in Order : answer[o] = FailedAnswer /\ OwnSwaps(o) # {} => o \in lost
=============================================================================
