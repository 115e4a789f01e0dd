--------------------------- MODULE MCCopyTrading ---------------------------
(***************************************************************************)
(* CopyTrading for TLC: one leader buys and then sells, with the refund    *)
(* and the dust that a router leaves; tokens 0 (WETH), 1 and 2.            *)
(***************************************************************************)
EXTENDS CopyTrading

Leg(tx, block, log, token, sender, to, value) ==
  [tx |-> tx, block |-> block, log |-> log, token |-> token,
   from |-> sender, to |-> to, value |-> value]

MCAddress == [w \in Wallet |-> w]

MCTransfers ==
  {Leg(1, 2, 1, 0, "leader", "pool", 4),    \* a buy of token 1: WETH out
   Leg(1, 2, 2, 0, "leader", "pool", 1),    \*   and a fee
   Leg(1, 2, 3, 1, "pool", "leader", 9),
   Leg(2, 2, 4, 1, "leader", "pool", 9),    \* a sale of it
   Leg(2, 2, 5, 0, "pool", "leader", 5),
   Leg(3, 2, 6, 1, "leader", "pool", 1),    \* a swap of two tokens: no copy
   Leg(3, 2, 7, 2, "pool", "leader", 1)}

MCRule == [w \in Wallet |->
  [mode |-> "percent", sizeBps |-> 15000, fixed |-> 0, min |-> Unset, max |-> 5,
   allow |-> {}, deny |-> {2}, copySells |-> TRUE]]
=============================================================================
