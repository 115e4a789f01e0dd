------------------------------ MODULE CopyRules ------------------------------
(***************************************************************************)
(* What copy trading computes (packages/copy-core/src): the swaps a leader *)
(* made, read off the token transfers of his transactions (decode.ts), and *)
(* the size of the trade that copies one (policy.ts).  Tokens are numbers, *)
(* ordered as their addresses are.                                         *)
(***************************************************************************)
EXTENDS Integers

CONSTANT Reference       \* referenceTokens: what a swap is paid in

BPS == 10000

-----------------------------------------------------------------------------
(* The largest leg; of equal ones that of the lower address, then the one  *)
(* the logs list first.                                                    *)
PickLeg(legs) ==
  LET Beats(l, k) == \/ l.value > k.value
                     \/ l.value = k.value /\ l.token < k.token
                     \/ l.value = k.value /\ l.token = k.token /\ l.log <= k.log
  IN  CHOOSE l \in legs : \A k \in legs : Beats(l, k)

(* What the wallet did in one transaction.  A transfer to itself is no leg *)
(* of a swap, and what looks like a buy and a sell, or like neither, is    *)
(* not guessed at.                                                         *)
DecodeTx(address, tx, block, logs) ==
  LET sent == {l \in logs : l.from = address /\ l.to # address}
      recv == {l \in logs : l.to = address /\ l.from # address}
      Ref(legs)   == {l \in legs : l.token \in Reference}
      Other(legs) == legs \ Ref(legs)
      isBuy  == Ref(sent) # {} /\ Other(recv) # {}
      isSell == Ref(recv) # {} /\ Other(sent) # {}
      Swap(side, token, paid, ref) ==
        {[side |-> side, token |-> token.token, amountIn |-> paid.value,
          tx |-> tx, block |-> block, log |-> ref.log]}
      ref == PickLeg(Ref(IF isBuy THEN sent ELSE recv))
  IN
  IF isBuy = isSell THEN {}
  ELSE IF isBuy THEN Swap("buy", PickLeg(Other(recv)), ref, ref)
  ELSE Swap("sell", PickLeg(Other(sent)), PickLeg(Other(sent)), ref)

(* Logs are grouped by transaction; the first one tells the block.         *)
DecodeSwaps(address, logs) ==
  UNION {DecodeTx(address, l.tx, l.block, {k \in logs : k.tx = l.tx}) : l \in logs}

(* The order the swaps of a range are handled in: by block, then by log.   *)
Earliest(swaps) ==
  CHOOSE s \in swaps : \A u \in swaps : s.block < u.block \/ (s.block = u.block /\ s.log <= u.log)

-----------------------------------------------------------------------------
(* A wallet's rule: mode, sizeBps, fixed (fixedAmountIn), min and max with *)
(* Unset when there is none, the allow and deny lists, and copySells.      *)
Unset == -1
Skip  == 0

(* The sizes a rule gives are amounts and a fraction.                     *)
RuleOK(rule) ==
  /\ rule.mode \in {"fixed", "percent"} /\ rule.sizeBps \in Nat /\ rule.fixed \in Nat
  /\ rule.min \in Nat \cup {Unset} /\ rule.max \in Nat \cup {Unset}

(* The deny-list comes first; an empty allow-list allows everything else.  *)
Copies(rule, token) == token \notin rule.deny /\ (rule.allow = {} \/ token \in rule.allow)

Wanted(rule, swap, held) ==
  CASE rule.mode = "fixed" -> IF swap.side = "buy" THEN rule.fixed ELSE held
    [] rule.mode = "percent" ->
         ((IF swap.side = "buy" THEN swap.amountIn ELSE held) * rule.sizeBps) \div BPS

(* A buy is clamped to the ceiling, then dropped below the floor.          *)
SizeBuy(rule, swap) ==
  LET amount == Wanted(rule, swap, 0)
      capped == IF rule.max # Unset /\ amount > rule.max THEN rule.max ELSE amount
  IN  IF rule.min # Unset /\ capped < rule.min THEN Skip ELSE capped

(* Mutant of SizeSell: a rate above 100% sells more than is held.          *)
SizeSellUncapped(rule, swap, held) == IF rule.copySells THEN Wanted(rule, swap, held) ELSE Skip

(* A sell comes out of our own position, and no more than all of it.       *)
SizeSell(rule, swap, held) ==
  LET amount == Wanted(rule, swap, held)
  IN  IF ~rule.copySells THEN Skip ELSE IF amount > held THEN held ELSE amount

(* defaultCopyPolicy: the amount of the copied trade, Skip for none.       *)
Evaluate(rule, swap, held) ==
  IF ~Copies(rule, swap.token) THEN Skip
  ELSE IF swap.side = "buy" THEN SizeBuy(rule, swap) ELSE SizeSell(rule, swap, held)
=============================================================================
