------------------------------ MODULE CopyStore ------------------------------
(***************************************************************************)
(* Which leaders are followed: upsertWallet of DrizzleCopyStore and the    *)
(* follow cap of limit.ts (packages/copy-core/src).  The enabled wallets   *)
(* are counted in one query and the wallet is stored in another.           *)
(***************************************************************************)
EXTENDS Integers, FiniteSets

CONSTANTS
  Wallet,      \* ids of leaders
  MaxTracked,  \* MAX_TRACKED_WALLETS
  Request,     \* calls of upsertWallet that may be in flight together
  Nobody       \* no wallet

ASSUME StoreAssumption ==
  /\ MaxTracked \in Nat /\ Nobody \notin Wallet
  /\ IsFiniteSet(Wallet) /\ IsFiniteSet(Request) /\ Request # {}

VARIABLES
  followed,    \* the wallets stored as enabled
  request      \* the wallet each call has counted and is about to store

storeVars == <<followed, request>>

StoreInit == followed = {} /\ request = [r \in Request |-> Nobody]

(* assertWithinWalletLimit                                                 *)
WithinLimit(active, w) == w \in active \/ Cardinality(active) < MaxTracked

(* The query and the check; a call that is refused changes nothing.        *)
Follow(r, w) ==
  /\ request[r] = Nobody /\ WithinLimit(followed, w)
  /\ request' = [request EXCEPT ![r] = w]
  /\ UNCHANGED followed

(* The insert, or the update of the row that is there.                     *)
Store(r) ==
  /\ request[r] # Nobody
  /\ followed' = followed \cup {request[r]}
  /\ request' = [request EXCEPT ![r] = Nobody]

(* The insert fails.                                                       *)
StoreFails(r) ==
  /\ request[r] # Nobody
  /\ request' = [request EXCEPT ![r] = Nobody]
  /\ UNCHANGED followed

(* A wallet that is not enabled is stored without a count.                 *)
Unfollow(w) == w \in followed /\ followed' = followed \ {w} /\ UNCHANGED request

StoreNext == \/ \E r \in Request, w \in Wallet : Follow(r, w)
             \/ \E r \in Request : Store(r) \/ StoreFails(r)
             \/ \E w \in Wallet : Unfollow(w)

StoreSpec == StoreInit /\ [][StoreNext]_storeVars

-----------------------------------------------------------------------------
StoreTypeOK == followed \subseteq Wallet /\ request \in [Request -> Wallet \cup {Nobody}]

(* rules.ts:4 calls the cap hard: the wallets followed pass it by no more  *)
(* than the other calls that can be between their count and their store,   *)
(* so one call at a time keeps it.                                         *)
CapOverrun == Cardinality(followed) <= MaxTracked + Cardinality(Request) - 1
=============================================================================
