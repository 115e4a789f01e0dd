-------------------------- MODULE CopyTradingProofs --------------------------
(***************************************************************************)
(* Copy trading, proved for any wallets, transfers, ticks and requests: by *)
(* how much the follow cap can be passed; that a scan passes no block by;  *)
(* that a copy stays within the follower's rule and means; and that only a *)
(* race copies a transfer twice.                                           *)
(***************************************************************************)
EXTENDS CopyTrading, FoldLemmas

-----------------------------------------------------------------------------
(* The follow cap.  A call that has counted may store at any time, so what *)
(* is bounded is the wallets followed together with those about to be.     *)
Busy    == {r \in Request : request[r] # Nobody}
Pending == {request[r] : r \in Busy}
Bound   == MaxTracked + Cardinality(Request) - 1

CapInv == StoreTypeOK /\ Cardinality(followed \cup Pending) <= Bound

LEMMA PendingFinite ==
  ASSUME StoreTypeOK
  PROVE  /\ IsFiniteSet(Request) /\ Cardinality(Request) \in Nat \ {0}
         /\ IsFiniteSet(followed) /\ Cardinality(followed) \in Nat
         /\ Pending \subseteq Wallet /\ IsFiniteSet(Pending) /\ Cardinality(Pending) \in Nat
         /\ IsFiniteSet(Busy) /\ Cardinality(Busy) \in Nat
         /\ Cardinality(Pending) <= Cardinality(Busy)
         /\ IsFiniteSet(followed \cup Pending)
<1>1. IsFiniteSet(Request) /\ Cardinality(Request) \in Nat \ {0}
  BY FS_CardinalityType, FS_EmptySet, StoreAssumption
<1>2. IsFiniteSet(followed) /\ Cardinality(followed) \in Nat
  BY FS_Subset, FS_CardinalityType, StoreAssumption DEF StoreTypeOK
<1>3. IsFiniteSet(Busy) /\ Cardinality(Busy) \in Nat
  BY <1>1, FS_Subset, FS_CardinalityType DEF Busy
<1> DEFINE f == [r \in Busy |-> request[r]]
<1>4. f \in Surjection(Busy, Pending)
  BY DEF Surjection, Pending
<1>5. IsFiniteSet(Pending) /\ Cardinality(Pending) <= Cardinality(Busy)
  BY <1>3, <1>4, FS_Surjection
<1>6. Pending \subseteq Wallet
  BY DEF Pending, Busy, StoreTypeOK
<1>7. Cardinality(Pending) \in Nat
  BY <1>5, FS_CardinalityType
<1>8. IsFiniteSet(followed \cup Pending)
  BY <1>2, <1>5, FS_Union
<1> QED
  BY <1>1, <1>2, <1>3, <1>5, <1>6, <1>7, <1>8

LEMMA CapInit == StoreInit => CapInv
<1> SUFFICES ASSUME StoreInit PROVE CapInv
  OBVIOUS
<1>1. StoreTypeOK /\ followed \cup Pending = {}
  BY DEF StoreInit, StoreTypeOK, Pending, Busy
<1>2. Cardinality({}) = 0 /\ Cardinality(Request) \in Nat \ {0} /\ MaxTracked \in Nat
  BY <1>1, FS_EmptySet, PendingFinite, StoreAssumption
<1>3. 0 <= Bound
  BY <1>2 DEF Bound
<1>4. Cardinality(followed \cup Pending) = 0
  BY <1>1, <1>2
<1> QED
  BY <1>1, <1>3, <1>4 DEF CapInv

(* A call that passes the check adds one wallet to those the other calls   *)
(* are about to store; no other step adds any.                             *)
LEMMA CapStep == CapInv /\ [StoreNext]_storeVars => CapInv'
<1> SUFFICES ASSUME CapInv, [StoreNext]_storeVars PROVE CapInv'
  OBVIOUS
<1> USE DEF CapInv
<1>0. /\ Cardinality(Request) \in Nat \ {0} /\ MaxTracked \in Nat
      /\ IsFiniteSet(followed \cup Pending) /\ Cardinality(followed \cup Pending) \in Nat
  BY PendingFinite, FS_CardinalityType, StoreAssumption
<1>1. ASSUME StoreTypeOK', followed' \cup Pending' \subseteq followed \cup Pending
      PROVE  CapInv'
  <2>1. Cardinality(followed' \cup Pending') <= Cardinality(followed \cup Pending)
    BY <1>0, <1>1, FS_Subset
  <2>2. Cardinality(followed' \cup Pending') \in Nat
    BY <1>0, <1>1, FS_Subset, FS_CardinalityType
  <2> QED
    BY <1>0, <1>1, <2>1, <2>2 DEF Bound
<1>2. ASSUME NEW r \in Request, NEW w \in Wallet, Follow(r, w) PROVE CapInv'
  <2>1. StoreTypeOK'
    BY <1>2 DEF StoreTypeOK, Follow
  <2>2. /\ followed' = followed /\ Pending' = Pending \cup {w}
        /\ r \in Request /\ r \notin Busy /\ Busy \subseteq Request
    BY <1>2, StoreAssumption DEF Follow, Pending, Busy, StoreTypeOK
  <2>3. CASE w \in followed
    BY <1>1, <2>1, <2>2, <2>3
  <2>4. CASE Cardinality(followed) < MaxTracked
    <3>1. /\ Cardinality(Request \ {r}) = Cardinality(Request) - 1
          /\ IsFiniteSet(Request \ {r})
      BY PendingFinite, FS_RemoveElement
    <3>2. Cardinality(Busy) <= Cardinality(Request) - 1
      BY <2>2, <3>1, FS_Subset
    <3>3. /\ Cardinality(followed \cup Pending)
               = Cardinality(followed) + Cardinality(Pending) - Cardinality(followed \cap Pending)
          /\ Cardinality(followed \cap Pending) \in Nat
      BY PendingFinite, FS_Union, FS_Intersection, FS_CardinalityType
    <3>4. Cardinality(followed \cup Pending) <= MaxTracked - 1 + Cardinality(Request) - 1
      BY <1>0, <2>4, <3>2, <3>3, PendingFinite
    <3> DEFINE U == followed \cup Pending
    <3>5. followed' \cup Pending' = U \cup {w}
      BY <2>2
    <3>6. Cardinality(U \cup {w}) \in {Cardinality(U), Cardinality(U) + 1}
      <4> HIDE DEF U
      <4> QED
        BY <1>0, FS_AddElement DEF U
    <3>7. Cardinality(U \cup {w}) <= Bound
      BY <1>0, <3>4, <3>6 DEF Bound
    <3> QED
      BY <2>1, <3>5, <3>7
  <2> QED
    BY <1>2, <2>3, <2>4 DEF Follow, WithinLimit
<1>3. ASSUME NEW r \in Request, Store(r) PROVE CapInv'
  <2>1. StoreTypeOK' /\ followed' \cup Pending' \subseteq followed \cup Pending
    BY <1>3 DEF Store, StoreTypeOK, Pending, Busy
  <2> QED
    BY <1>1, <2>1
<1>4. ASSUME NEW r \in Request, StoreFails(r) PROVE CapInv'
  <2>1. StoreTypeOK' /\ followed' \cup Pending' \subseteq followed \cup Pending
    BY <1>4 DEF StoreFails, StoreTypeOK, Pending, Busy
  <2> QED
    BY <1>1, <2>1
<1>5. ASSUME NEW w \in Wallet, Unfollow(w) PROVE CapInv'
  <2>1. StoreTypeOK' /\ followed' \cup Pending' \subseteq followed \cup Pending
    BY <1>5 DEF Unfollow, StoreTypeOK, Pending, Busy
  <2> QED
    BY <1>1, <2>1
<1>6. CASE UNCHANGED storeVars
  <2>1. StoreTypeOK' /\ followed' \cup Pending' \subseteq followed \cup Pending
    BY <1>6 DEF storeVars, StoreTypeOK, Pending, Busy
  <2> QED
    BY <1>1, <2>1
<1> QED
  BY <1>2, <1>3, <1>4, <1>5, <1>6 DEF StoreNext

(* limit.ts: the wallets followed pass the cap by no more than the other   *)
(* calls that can be between their count and their store, for any cap and  *)
(* any number of calls; with one call at a time the cap holds.             *)
THEOREM CapOverrunBounded == StoreSpec => []CapOverrun
<1>1. CapInv => CapOverrun
  <2> SUFFICES ASSUME CapInv PROVE CapOverrun
    OBVIOUS
  <2>1. /\ Cardinality(followed) <= Cardinality(followed \cup Pending)
        /\ Cardinality(followed) \in Nat /\ Cardinality(followed \cup Pending) \in Nat
        /\ Cardinality(Request) \in Nat /\ MaxTracked \in Nat
    BY PendingFinite, FS_Subset, FS_CardinalityType, StoreAssumption DEF CapInv
  <2> QED
    BY <2>1 DEF CapInv, CapOverrun, Bound
<1> QED
  BY <1>1, CapInit, CapStep, PTL DEF StoreSpec

-----------------------------------------------------------------------------
(* The gap.  Beside what the cursor promises, a tick that has read the     *)
(* cursor and is about to scan relies on the same promise for what it read,*)
(* for another tick may have moved the cursor since.                       *)
Handling == {"decide", "publish", "mark"}
Fields   == {"at", "todo", "wallet", "safe", "start", "batch", "amount", "held"}

Accounted(p) == p \in copied \cup dropped \/ \E t \in Tick : p \in InHand(t)

CoveredTo(w, b) ==
  \A p \in AllSwaps : p[1] = w /\ p[2].block \in (from[w] + 1)..b => Accounted(p)

Shape(T) ==
  /\ T = [f \in Fields |-> T[f]]
  /\ T.safe \in Int /\ T.start \in Int /\ T.todo \subseteq Wallet
  /\ T.at \in {"cursor", "begin", "scan"} => T.wallet \in Wallet
  /\ T.at \notin Handling => T.batch = {}

GapInv ==
  /\ height \in Int /\ StoreTypeOK
  /\ cursor \in [Wallet -> Int] /\ from \in [Wallet -> Int]
  /\ tick = [t \in Tick |-> tick[t]]
  /\ \A t \in Tick : Shape(tick[t])
  /\ \A t \in Tick : tick[t].at = "scan" => CoveredTo(tick[t].wallet, tick[t].start)
  /\ \A w \in Wallet : CoveredTo(w, cursor[w])

LEMMA IdleShape == Shape(Idle) /\ Idle.batch = {} /\ Idle.at = "idle"
BY DEF Shape, Idle, Fields, Handling

LEMMA NextWalletShape ==
  ASSUME NEW todo \in SUBSET Wallet
  PROVE  LET T == NextWallet(todo)
         IN  Shape(T) /\ T.batch = {} /\ T.at \in {"idle", "head"}
<1>1. CASE todo = {}
  BY <1>1, IdleShape DEF NextWallet
<1>2. CASE todo # {}
  <2>1. NextWallet(todo) = [at |-> "head", todo |-> todo, wallet |-> Nobody, safe |-> 0,
                            start |-> 0, batch |-> {}, amount |-> 0, held |-> 0]
    BY <1>2 DEF NextWallet, Idle
  <2> QED
    BY <2>1 DEF Shape, Fields, Handling
<1> QED
  BY <1>1, <1>2

LEMMA NextSwapShape ==
  ASSUME NEW T, Shape(T), NEW rest
  PROVE  LET U == NextSwap(T, rest)
         IN  /\ Shape(U) /\ U.batch = rest /\ U.at # "scan"
             /\ rest # {} => U.wallet = T.wallet
<1>1. CASE rest = {}
  BY <1>1, NextWalletShape DEF NextSwap, Shape
<1>2. CASE rest # {}
  BY <1>2 DEF NextSwap, Shape, Fields, Handling
<1> QED
  BY <1>1, <1>2

LEMMA GapInit == Init => GapInv
<1> SUFFICES ASSUME Init PROVE GapInv
  OBVIOUS
<1>1. height \in Int /\ StoreTypeOK /\ cursor \in [Wallet -> Int] /\ from \in [Wallet -> Int]
  BY CopyAssumption DEF Init, NoCursor, StoreInit, StoreTypeOK
<1>2. tick = [t \in Tick |-> tick[t]] /\ \A t \in Tick : tick[t] = Idle
  BY DEF Init
<1>3. ASSUME NEW w \in Wallet PROVE CoveredTo(w, cursor[w])
  BY DEF Init, CoveredTo, NoCursor
<1> QED
  BY <1>1, <1>2, <1>3, IdleShape DEF GapInv

(* What was covered stays covered when nothing is lost sight of.           *)
LEMMA CoveredKept ==
  ASSUME NEW w, NEW b, CoveredTo(w, b), from' = from,
         \A p \in AllSwaps : Accounted(p) => Accounted(p)'
  PROVE  CoveredTo(w, b)'
BY DEF CoveredTo

(* A tick that moves, reads the cursor at most, and keeps its swaps or     *)
(* leaves them marked or dropped.                                          *)
LEMMA TickMoves ==
  ASSUME GapInv, NEW t \in Tick, NEW X, Shape(X), tick' = [tick EXCEPT ![t] = X],
         UNCHANGED <<height, storeVars, cursor, from>>,
         X.at = "scan" => X.start = cursor[X.wallet],
         copied \subseteq copied', dropped \subseteq dropped',
         \A p \in InHand(t) : p \in copied' \cup dropped' \/ (p[1] = X.wallet /\ p[2] \in X.batch)
  PROVE  GapInv'
<1>1. tick'[t] = X /\ \A u \in Tick \ {t} : tick'[u] = tick[u]
  BY DEF GapInv
<1>2. ASSUME NEW p \in AllSwaps, Accounted(p) PROVE Accounted(p)'
  <2>1. CASE p \in copied \cup dropped
    BY <2>1 DEF Accounted
  <2>2. CASE p \in InHand(t)
    <3>1. p = <<p[1], p[2]>>
      BY DEF AllSwaps
    <3> QED
      BY <1>1, <2>2, <3>1 DEF Accounted, InHand
  <2>3. ASSUME NEW u \in Tick \ {t}, p \in InHand(u) PROVE Accounted(p)'
    BY <1>1, <2>3 DEF Accounted, InHand
  <2> QED
    BY <1>2, <2>1, <2>2, <2>3 DEF Accounted
<1>3. ASSUME NEW w \in Wallet PROVE CoveredTo(w, cursor[w])'
  BY <1>2, <1>3, CoveredKept DEF GapInv
<1>4. ASSUME NEW u \in Tick, tick'[u].at = "scan" PROVE CoveredTo(tick[u].wallet, tick[u].start)'
  <2>1. CASE u = t
    <3>1. tick'[u] = X /\ X.wallet \in Wallet /\ X.start = cursor'[X.wallet]
      BY <1>1, <1>4, <2>1 DEF Shape
    <3>2. CoveredTo(X.wallet, cursor[X.wallet])'
      BY <1>3, <3>1 DEF CoveredTo
    <3> QED
      BY <3>1, <3>2 DEF CoveredTo
  <2>2. CASE u # t
    <3>1. tick'[u] = tick[u] /\ CoveredTo(tick[u].wallet, tick[u].start)
      BY <1>1, <1>4, <2>2 DEF GapInv
    <3> QED
      BY <1>2, <3>1 DEF CoveredTo
  <2> QED
    BY <2>1, <2>2
<1>5. StoreTypeOK' /\ tick' = [u \in Tick |-> tick'[u]] /\ \A u \in Tick : Shape(tick'[u])
  BY <1>1 DEF GapInv, StoreTypeOK, storeVars
<1> QED
  BY <1>3, <1>4, <1>5 DEF GapInv, Shape

LEMMA ShapeEdit ==
  ASSUME NEW T, Shape(T)
  PROVE  /\ Shape([T EXCEPT !.at = "list"]) \/ T.at \in Handling
         /\ Shape([T EXCEPT !.at = "begin"]) \/ T.at # "cursor"
         /\ Shape([T EXCEPT !.at = "mark"])
         /\ \A a, h : Shape([T EXCEPT !.at = "publish", !.amount = a, !.held = h])
         /\ \A c \in Int : Shape([T EXCEPT !.at = "scan", !.start = c]) \/ T.at # "cursor"
         /\ \A w \in Wallet, n \in Int :
              \/ T.at # "head"
              \/ Shape([T EXCEPT !.at = "cursor", !.todo = @ \ {w}, !.wallet = w, !.safe = n])
<1>1. \A f \in Fields : f \in DOMAIN T
  BY DEF Shape
<1>2. Shape([T EXCEPT !.at = "list"]) \/ T.at \in Handling
  BY <1>1 DEF Shape, Fields, Handling
<1>3. Shape([T EXCEPT !.at = "begin"]) \/ T.at # "cursor"
  BY <1>1 DEF Shape, Fields, Handling
<1>4. Shape([T EXCEPT !.at = "mark"])
  BY <1>1 DEF Shape, Fields, Handling
<1>5. ASSUME NEW a, NEW h PROVE Shape([T EXCEPT !.at = "publish", !.amount = a, !.held = h])
  BY <1>1 DEF Shape, Fields, Handling
<1>6. ASSUME NEW c \in Int, T.at = "cursor" PROVE Shape([T EXCEPT !.at = "scan", !.start = c])
  BY <1>1, <1>6 DEF Shape, Fields, Handling
<1>7. ASSUME NEW w \in Wallet, NEW n \in Int, T.at = "head"
      PROVE  Shape([T EXCEPT !.at = "cursor", !.todo = @ \ {w}, !.wallet = w, !.safe = n])
  BY <1>1, <1>7 DEF Shape, Fields, Handling
<1> QED
  BY <1>2, <1>3, <1>4, <1>5, <1>6, <1>7

(* The steps that leave the cursor alone.                                  *)
LEMMA QuietStep ==
  ASSUME GapInv, NEW t \in Tick,
         \/ StartTick(t) \/ ListWallets(t) \/ ReadHead(t) \/ ReadCursor(t)
         \/ Decide(t) \/ Publish(t) \/ Mark(t) \/ HeadFails(t) \/ Fail(t)
  PROVE  GapInv'
<1> DEFINE T == tick[t]
<1>1. Shape(T) /\ tick = [u \in Tick |-> tick[u]] /\ InHand(t) = {T.wallet} \X T.batch
  BY DEF GapInv, InHand
<1>2. ASSUME StartTick(t) PROVE GapInv'
  <2> DEFINE X == [T EXCEPT !.at = "list"]
  <2>1. Shape(X) /\ X.at = "list" /\ X.wallet = T.wallet /\ X.batch = T.batch
    BY <1>1, <1>2, ShapeEdit DEF StartTick, At, Handling, Shape, Fields
  <2>2. tick' = [tick EXCEPT ![t] = X] /\ UNCHANGED <<height, storeVars, cursor, copied, from, dropped>>
    BY <1>2 DEF StartTick, store, history
  <2> HIDE DEF X
  <2> QED
    BY <1>1, <2>1, <2>2, TickMoves
<1>3. ASSUME ListWallets(t) PROVE GapInv'
  <2> DEFINE X == NextWallet(followed)
  <2>1. Shape(X) /\ X.at # "scan" /\ T.batch = {}
    BY <1>1, <1>3, NextWalletShape DEF ListWallets, At, Handling, Shape, GapInv, StoreTypeOK
  <2>2. tick' = [tick EXCEPT ![t] = X] /\ UNCHANGED <<height, storeVars, cursor, copied, from, dropped>>
    BY <1>3 DEF ListWallets, store, history
  <2> HIDE DEF X
  <2> QED
    BY <1>1, <2>1, <2>2, TickMoves
<1>4. ASSUME ReadHead(t) PROVE GapInv'
  <2>1. PICK w \in T.todo, lag \in {0, 1} :
          tick' = [tick EXCEPT ![t].at = "cursor", ![t].todo = @ \ {w}, ![t].wallet = w,
                               ![t].safe = height - lag - Confirmations]
    BY <1>4 DEF ReadHead
  <2> DEFINE n == height - lag - Confirmations
             X == [T EXCEPT !.at = "cursor", !.todo = @ \ {w}, !.wallet = w, !.safe = n]
  <2>2. w \in Wallet /\ T.at = "head" /\ T.batch = {}
    BY <1>1, <1>4 DEF ReadHead, At, Handling, Shape
  <2>5. n \in Int
    BY CopyAssumption DEF GapInv
  <2>3. Shape(X) /\ X.at = "cursor"
    BY <1>1, <2>2, <2>5, ShapeEdit DEF Shape, Fields
  <2>4. tick' = [tick EXCEPT ![t] = X] /\ UNCHANGED <<height, storeVars, cursor, copied, from, dropped>>
    BY <1>1, <1>4, <2>1 DEF ReadHead, store, history
  <2> HIDE DEF X
  <2> QED
    BY <1>1, <2>2, <2>3, <2>4, TickMoves
<1>5. ASSUME ReadCursor(t) PROVE GapInv'
  <2> DEFINE c == cursor[T.wallet]
  <2>1. /\ T.at = "cursor" /\ T.batch = {} /\ c \in Int /\ T.todo \in SUBSET Wallet
        /\ UNCHANGED <<height, storeVars, cursor, copied, from, dropped>>
    BY <1>1, <1>5 DEF ReadCursor, At, Handling, Shape, GapInv, store, history
  <2>2. CASE tick' = [tick EXCEPT ![t].at = "begin"]
    <3> DEFINE X == [T EXCEPT !.at = "begin"]
    <3>1. Shape(X) /\ X.at = "begin" /\ tick' = [tick EXCEPT ![t] = X]
      BY <1>1, <2>1, <2>2, ShapeEdit DEF Shape, Fields
    <3> HIDE DEF X
    <3> QED
      BY <1>1, <2>1, <3>1, TickMoves
  <2>3. CASE WalletDone(t)
    <3> DEFINE X == NextWallet(T.todo)
    <3>1. Shape(X) /\ X.at # "scan" /\ tick' = [tick EXCEPT ![t] = X]
      BY <1>1, <2>1, <2>3, NextWalletShape DEF WalletDone
    <3> HIDE DEF X
    <3> QED
      BY <1>1, <2>1, <3>1, TickMoves
  <2>4. CASE tick' = [tick EXCEPT ![t].at = "scan", ![t].start = c]
    <3> DEFINE X == [T EXCEPT !.at = "scan", !.start = c]
    <3>1. Shape(X)
      BY <1>1, <2>1, ShapeEdit
    <3>2. X.start = c /\ X.wallet = T.wallet
      BY <1>1 DEF Shape, Fields
    <3>3. tick' = [tick EXCEPT ![t] = X]
      BY <1>1, <2>4
    <3> HIDE DEF X
    <3> QED
      BY <1>1, <2>1, <3>1, <3>2, <3>3, TickMoves
  <2> QED
    BY <1>5, <2>2, <2>3, <2>4 DEF ReadCursor
<1>6. ASSUME SwapDone(t), Key(t) \in copied', copied \subseteq copied',
             UNCHANGED <<height, storeVars, cursor, from, dropped>>
      PROVE  GapInv'
  <2> DEFINE X == NextSwap(T, T.batch \ {Now(t)})
  <2>1. Shape(X) /\ X.batch = T.batch \ {Now(t)} /\ X.at # "scan"
        /\ (T.batch \ {Now(t)} # {} => X.wallet = T.wallet)
    BY <1>1, NextSwapShape
  <2>2. tick' = [tick EXCEPT ![t] = X]
    BY <1>1, <1>6 DEF SwapDone
  <2>3. ASSUME NEW p \in InHand(t)
        PROVE  p \in copied' \cup dropped' \/ (p[1] = X.wallet /\ p[2] \in X.batch)
    <3>1. p = <<T.wallet, p[2]>> /\ p[2] \in T.batch
      BY <1>1
    <3>2. CASE p[2] = Now(t)
      BY <1>6, <3>1, <3>2 DEF Key
    <3>3. CASE p[2] # Now(t)
      BY <2>1, <3>1, <3>3
    <3> QED
      BY <3>2, <3>3
  <2> HIDE DEF X
  <2> QED
    BY <1>6, <2>1, <2>2, <2>3, TickMoves
<1>7. ASSUME Decide(t) PROVE GapInv'
  <2>1. UNCHANGED <<height, storeVars, cursor, copied, from, dropped>>
    BY <1>7 DEF Decide, store, history
  <2>2. CASE Decided(t) /\ SwapDone(t)
    BY <1>6, <2>1, <2>2 DEF Decided
  <2>3. CASE tick' = [tick EXCEPT ![t].at = "mark"]
    <3> DEFINE X == [T EXCEPT !.at = "mark"]
    <3>1. /\ Shape(X) /\ X.at = "mark" /\ X.wallet = T.wallet /\ X.batch = T.batch
          /\ tick' = [tick EXCEPT ![t] = X]
      BY <1>1, <2>3, ShapeEdit DEF Shape, Fields
    <3> HIDE DEF X
    <3> QED
      BY <1>1, <2>1, <3>1, TickMoves
  <2>4. ASSUME NEW a, NEW h,
               tick' = [tick EXCEPT ![t].at = "publish", ![t].amount = a, ![t].held = h]
        PROVE  GapInv'
    <3> DEFINE X == [T EXCEPT !.at = "publish", !.amount = a, !.held = h]
    <3>1. /\ Shape(X) /\ X.at = "publish" /\ X.wallet = T.wallet /\ X.batch = T.batch
          /\ tick' = [tick EXCEPT ![t] = X]
      BY <1>1, <2>4, ShapeEdit DEF Shape, Fields
    <3> HIDE DEF X
    <3> QED
      BY <1>1, <2>1, <3>1, TickMoves
  <2> QED
    BY <1>7, <2>2, <2>3, <2>4 DEF Decide
<1>8. ASSUME Publish(t) PROVE GapInv'
  <2> DEFINE X == [T EXCEPT !.at = "mark"]
  <2>1. /\ Shape(X) /\ X.at = "mark" /\ X.wallet = T.wallet /\ X.batch = T.batch
        /\ tick' = [tick EXCEPT ![t] = X]
    BY <1>1, <1>8, ShapeEdit DEF Publish, Shape, Fields
  <2>2. UNCHANGED <<height, storeVars, cursor, copied, from, dropped>>
    BY <1>8 DEF Publish, store
  <2> HIDE DEF X
  <2> QED
    BY <1>1, <2>1, <2>2, TickMoves
<1>9. ASSUME Mark(t) PROVE GapInv'
  BY <1>6, <1>9 DEF Mark, history
<1>10. ASSUME Fail(t) PROVE GapInv'
  <2> DEFINE X == NextWallet(T.todo)
  <2>1. Shape(X) /\ X.at # "scan" /\ tick' = [tick EXCEPT ![t] = X]
    BY <1>1, <1>10, NextWalletShape DEF Fail, WalletDone, Shape
  <2>2. UNCHANGED <<height, storeVars, cursor, copied, from>> /\ dropped' = dropped \cup InHand(t)
    BY <1>10 DEF Fail, Lost, store
  <2> HIDE DEF X
  <2> QED
    BY <2>1, <2>2, TickMoves
<1>11. ASSUME HeadFails(t) PROVE GapInv'
  <2>1. PICK w \in T.todo : tick' = [tick EXCEPT ![t] = NextWallet(@.todo \ {w})]
    BY <1>11 DEF HeadFails
  <2> DEFINE X == NextWallet(T.todo \ {w})
  <2>2. Shape(X) /\ X.at # "scan" /\ T.batch = {} /\ tick' = [tick EXCEPT ![t] = X]
    BY <1>1, <1>11, <2>1, NextWalletShape DEF HeadFails, At, Shape, Handling
  <2>3. UNCHANGED <<height, storeVars, cursor, copied, from, dropped>>
    BY <1>11 DEF HeadFails, store, history
  <2> HIDE DEF X
  <2> QED
    BY <1>1, <2>2, <2>3, TickMoves
<1> QED
  BY <1>2, <1>3, <1>4, <1>5, <1>7, <1>8, <1>9, <1>10, <1>11

(* The first scan passes by what came before, and no promise is made of it.*)
LEMMA BeginStep ==
  ASSUME GapInv, NEW t \in Tick, Begin(t)
  PROVE  GapInv'
<1> DEFINE T == tick[t]
           X == NextWallet(T.todo)
<1>1. Shape(T) /\ T.batch = {} /\ T.wallet \in Wallet /\ T.safe \in Int
  BY DEF GapInv, Begin, At, Shape, Handling
<1>2. /\ Shape(X) /\ X.batch = {} /\ X.at # "scan" /\ tick' = [u \in Tick |-> tick'[u]]
      /\ tick'[t] = X /\ \A u \in Tick \ {t} : tick'[u] = tick[u]
  BY <1>1, NextWalletShape DEF GapInv, Begin, WalletDone, Shape
<1>3. /\ cursor' = [cursor EXCEPT ![T.wallet] = T.safe] /\ cursor' \in [Wallet -> Int]
      /\ from' \in [Wallet -> Int] /\ from'[T.wallet] >= T.safe
      /\ \A w \in Wallet : from'[w] >= from[w]
      /\ copied' = copied /\ dropped' = dropped /\ UNCHANGED <<height, storeVars>>
  BY <1>1 DEF GapInv, Begin
<1>4. ASSUME NEW p, Accounted(p) PROVE Accounted(p)'
  BY <1>1, <1>2, <1>3, <1>4 DEF Accounted, InHand
<1>5. ASSUME NEW w \in Wallet PROVE CoveredTo(w, cursor[w])'
  <2>1. CASE w = T.wallet
    BY <1>1, <1>3, <2>1 DEF CoveredTo
  <2>2. CASE w # T.wallet
    <3>1. cursor'[w] = cursor[w] /\ CoveredTo(w, cursor[w])
      BY <1>3, <2>2 DEF GapInv
    <3>2. cursor[w] \in Int /\ from[w] \in Int /\ from'[w] \in Int /\ from'[w] >= from[w]
      BY <1>3 DEF GapInv
    <3> QED
      BY <1>4, <3>1, <3>2 DEF CoveredTo
  <2> QED
    BY <2>1, <2>2
<1>6. ASSUME NEW u \in Tick, tick'[u].at = "scan"
      PROVE  CoveredTo(tick[u].wallet, tick[u].start)'
  <2>1. tick'[u] = tick[u] /\ CoveredTo(tick[u].wallet, tick[u].start) /\ Shape(tick[u])
    BY <1>2, <1>6 DEF GapInv
  <2>2. tick[u].wallet \in Wallet /\ tick[u].start \in Int
    BY <1>6, <2>1 DEF Shape
  <2>3. from[tick[u].wallet] \in Int /\ from'[tick[u].wallet] \in Int
        /\ from'[tick[u].wallet] >= from[tick[u].wallet]
    BY <1>3, <2>2 DEF GapInv
  <2> QED
    BY <1>4, <2>1, <2>2, <2>3 DEF CoveredTo
<1>7. StoreTypeOK' /\ height' \in Int /\ \A u \in Tick : Shape(tick'[u])
  BY <1>2, <1>3 DEF GapInv, StoreTypeOK, storeVars
<1> QED
  BY <1>2, <1>3, <1>5, <1>6, <1>7 DEF GapInv, Shape

(* A scan takes in hand all there is between the cursor it read and where  *)
(* it leaves the cursor.                                                   *)
LEMMA ScanStep ==
  ASSUME GapInv, NEW t \in Tick, Scan(t)
  PROVE  GapInv'
<1> DEFINE T   == tick[t]
           new == Scanned(t)
           to  == RangeEnd(T.start, T.safe)
           X   == NextSwap(T, new)
<1>1. /\ Shape(T) /\ T.batch = {} /\ T.wallet \in Wallet /\ T.at = "scan"
      /\ T.start \in Int /\ T.safe \in Int /\ CoveredTo(T.wallet, T.start)
  BY DEF GapInv, Scan, At, Shape, Handling
<1>2. /\ Shape(X) /\ X.batch = new /\ X.at # "scan" /\ (new # {} => X.wallet = T.wallet)
      /\ tick' = [u \in Tick |-> tick'[u]]
      /\ tick'[t] = X /\ \A u \in Tick \ {t} : tick'[u] = tick[u]
  BY <1>1, NextSwapShape DEF GapInv, Scan
<1>3. to \in Int
  BY <1>1, CopyAssumption DEF RangeEnd
<1>4. /\ cursor' = [cursor EXCEPT ![T.wallet] = to] /\ cursor' \in [Wallet -> Int]
      /\ from' = from /\ copied' = copied /\ dropped' = dropped /\ UNCHANGED <<height, storeVars>>
  BY <1>1, <1>3 DEF GapInv, Scan
<1>5. ASSUME NEW p, Accounted(p) PROVE Accounted(p)'
  BY <1>1, <1>2, <1>4, <1>5 DEF Accounted, InHand
<1>6. ASSUME NEW p \in AllSwaps, p[1] = T.wallet, p[2].block \in (T.start + 1)..to
      PROVE  Accounted(p)'
  <2>1. p[2] \in new
    BY <1>6 DEF AllSwaps, Scanned, SwapsIn
  <2>2. p = <<p[1], p[2]>>
    BY DEF AllSwaps
  <2>3. X.wallet = T.wallet /\ p[2] \in X.batch
    BY <1>2, <2>1
  <2>4. p \in {tick'[t].wallet} \X tick'[t].batch
    BY <1>2, <1>6, <2>2, <2>3
  <2> QED
    BY <2>4 DEF Accounted, InHand
<1>7. ASSUME NEW w \in Wallet PROVE CoveredTo(w, cursor[w])'
  <2>1. CASE w = T.wallet
    <3>1. cursor'[w] = to /\ from[w] \in Int
      BY <1>1, <1>4, <2>1 DEF GapInv
    <3>2. ASSUME NEW p \in AllSwaps, p[1] = w, p[2].block \in (from[w] + 1)..to
          PROVE  Accounted(p)'
      <4>1. CASE p[2].block \in (from[w] + 1)..T.start
        BY <1>1, <1>5, <2>1, <3>2, <4>1 DEF CoveredTo
      <4>2. CASE p[2].block \in (T.start + 1)..to
        BY <1>6, <2>1, <3>2, <4>2
      <4> QED
        BY <1>1, <1>3, <3>1, <3>2, <4>1, <4>2
    <3> QED
      BY <1>4, <3>1, <3>2 DEF CoveredTo
  <2>2. CASE w # T.wallet
    <3>1. cursor'[w] = cursor[w] /\ CoveredTo(w, cursor[w])
      BY <1>4, <2>2 DEF GapInv
    <3> QED
      BY <1>4, <1>5, <3>1 DEF CoveredTo
  <2> QED
    BY <2>1, <2>2
<1>8. ASSUME NEW u \in Tick, tick'[u].at = "scan"
      PROVE  CoveredTo(tick[u].wallet, tick[u].start)'
  <2>1. tick'[u] = tick[u] /\ CoveredTo(tick[u].wallet, tick[u].start)
    BY <1>2, <1>8 DEF GapInv
  <2> QED
    BY <1>4, <1>5, <2>1 DEF CoveredTo
<1>9. StoreTypeOK' /\ height' \in Int /\ \A u \in Tick : Shape(tick'[u])
  BY <1>2, <1>4 DEF GapInv, StoreTypeOK, storeVars
<1> QED
  BY <1>2, <1>4, <1>7, <1>8, <1>9 DEF GapInv, Shape

LEMMA CrashStep == ASSUME GapInv, Crash PROVE GapInv'
<1>1. /\ tick' = [t \in Tick |-> Idle] /\ copied' = copied
      /\ dropped' = dropped \cup UNION {InHand(t) : t \in Tick}
      /\ UNCHANGED <<height, storeVars, cursor, from>>
  BY DEF Crash, store
<1>2. ASSUME NEW p, Accounted(p) PROVE Accounted(p)'
  BY <1>1, <1>2 DEF Accounted
<1>3. ASSUME NEW w \in Wallet PROVE CoveredTo(w, cursor[w])'
  <2>1. cursor' = cursor /\ from' = from /\ CoveredTo(w, cursor[w])
    BY <1>1 DEF GapInv
  <2> QED
    BY <1>2, <2>1 DEF CoveredTo
<1>4. \A t \in Tick : Shape(tick'[t]) /\ tick'[t].at # "scan"
  BY <1>1, IdleShape
<1>5. StoreTypeOK' /\ height' \in Int /\ tick' = [t \in Tick |-> tick'[t]]
  BY <1>1 DEF GapInv, StoreTypeOK, storeVars
<1> QED
  BY <1>1, <1>3, <1>4, <1>5 DEF GapInv, Shape

(* The steps of the others: the timer, the chain, and who follows wallets. *)
LEMMA OtherStep ==
  ASSUME GapInv, UNCHANGED <<cursor, copied, tick, from, dropped>>,
         height' \in Int, StoreTypeOK'
  PROVE  GapInv'
<1>1. ASSUME NEW p, Accounted(p) PROVE Accounted(p)'
  BY <1>1 DEF Accounted, InHand
<1>2. ASSUME NEW w \in Wallet PROVE CoveredTo(w, cursor[w])'
  <2>1. CoveredTo(w, cursor[w])
    BY DEF GapInv
  <2> QED
    BY <1>1, <2>1 DEF CoveredTo
<1>3. ASSUME NEW t \in Tick, tick'[t].at = "scan" PROVE CoveredTo(tick[t].wallet, tick[t].start)'
  <2>1. CoveredTo(tick[t].wallet, tick[t].start)
    BY <1>3 DEF GapInv
  <2> QED
    BY <1>1, <2>1 DEF CoveredTo
<1> QED
  BY <1>2, <1>3 DEF GapInv, Shape

LEMMA StoreStep == ASSUME StoreTypeOK, StoreNext PROVE StoreTypeOK'
BY DEF StoreTypeOK, StoreNext, Follow, Store, StoreFails, Unfollow

LEMMA GapStep == GapInv /\ [Next]_vars => GapInv'
<1> SUFFICES ASSUME GapInv, [Next]_vars PROVE GapInv'
  OBVIOUS
<1>1. StoreTypeOK /\ height \in Int
  BY DEF GapInv
<1>2. CASE Start \/ Stop \/ UNCHANGED vars
  <2>1. UNCHANGED <<height, storeVars, cursor, copied, tick, from, dropped>>
    BY <1>2 DEF Start, Stop, vars, store, history
  <2> QED
    BY <1>1, <2>1, OtherStep DEF StoreTypeOK, storeVars
<1>3. CASE Grow
  <2>1. UNCHANGED <<storeVars, cursor, copied, tick, from, dropped>> /\ height' \in Int
    BY <1>1, <1>3 DEF Grow, store, history
  <2> QED
    BY <1>1, <2>1, OtherStep DEF StoreTypeOK, storeVars
<1>4. CASE StoreNext /\ UNCHANGED <<height, cursor, copied, timer, tick, history, faults>>
  BY <1>1, <1>4, StoreStep, OtherStep DEF history
<1>5. CASE Crash
  BY <1>5, CrashStep
<1>6. ASSUME NEW t \in Tick, StartTick(t) \/ Step(t) \/ HeadFails(t) \/ Fail(t) PROVE GapInv'
  BY <1>6, QuietStep, BeginStep, ScanStep DEF Step
<1> QED
  BY <1>2, <1>3, <1>4, <1>5, <1>6 DEF Next

(* watcher.ts:23-24: no block is passed by.  What a wallet did up to its   *)
(* cursor is copied, in hand, or was dropped by a failure, for any chain,  *)
(* any number of overlapping ticks and any lag of the heads they read.     *)
THEOREM NoBlockPassedBy == Spec => []GapOnlyByFailure
<1>1. GapInv => GapOnlyByFailure
  <2> SUFFICES ASSUME GapInv, NEW p \in AllSwaps, p[2].block \in (from[p[1]] + 1)..cursor[p[1]]
               PROVE  p \in copied \cup dropped \/ \E t \in Tick : p \in InHand(t)
    BY DEF GapOnlyByFailure
  <2>1. p[1] \in Wallet
    BY DEF AllSwaps
  <2> QED
    BY <2>1 DEF GapInv, CoveredTo, Accounted
<1> QED
  BY <1>1, GapInit, GapStep, PTL DEF Spec

-----------------------------------------------------------------------------
(* What the rules compute.  A leg is chosen among those there are: their   *)
(* order relates any two.                                                  *)
LegLike(l) == l.value \in Int /\ l.token \in Int /\ l.log \in Int

LEMMA PickLegPicks ==
  ASSUME NEW legs, IsFiniteSet(legs), legs # {}, \A l \in legs : LegLike(l)
  PROVE  PickLeg(legs) \in legs
<1> DEFINE Beats(l, k) == \/ l.value > k.value
                          \/ l.value = k.value /\ l.token < k.token
                          \/ l.value = k.value /\ l.token = k.token /\ l.log <= k.log
           R == {q \in legs \X legs : Beats(q[1], q[2])}
<1>1. \A x, y \in legs : <<x, y>> \in R <=> Beats(x, y)
  OBVIOUS
<1>2. \A x, y \in legs : Beats(x, y) \/ Beats(y, x)
  BY DEF LegLike
<1>3. ASSUME NEW x \in legs, NEW y \in legs, NEW z \in legs, Beats(x, y), Beats(y, z)
      PROVE  Beats(x, z)
  <2>1. LegLike(x) /\ LegLike(y) /\ LegLike(z)
    OBVIOUS
  <2> QED
    BY <1>3, <2>1 DEF LegLike
<1> HIDE DEF R
<1>4. /\ \A x, y \in legs : <<x, y>> \in R \/ <<y, x>> \in R
      /\ \A x, y, z \in legs : <<x, y>> \in R /\ <<y, z>> \in R => <<x, z>> \in R
  <2> HIDE DEF Beats
  <2> QED
    BY <1>1, <1>2, <1>3
<1>5. PICK x \in legs : \A y \in legs : <<x, y>> \in R
  BY <1>4, FirstExists
<1>6. \A y \in legs : Beats(x, y)
  BY <1>1, <1>5
<1> QED
  BY <1>6 DEF PickLeg

(* A batch of swaps has an earliest.                                       *)
LEMMA EarliestPicks ==
  ASSUME NEW swaps, swaps # {}, \A s \in swaps : s.block \in Nat /\ s.log \in Nat
  PROVE  Earliest(swaps) \in swaps
<1> DEFINE Blocks == {s.block : s \in swaps}
<1>1. Blocks \in SUBSET Nat /\ Blocks # {}
  OBVIOUS
<1>2. PICK b \in Blocks : \A c \in Blocks : b <= c
  BY <1>1, SmallestExists
<1> DEFINE Logs == {s.log : s \in {u \in swaps : u.block = b}}
<1>3. Logs \in SUBSET Nat /\ Logs # {}
  OBVIOUS
<1>4. PICK n \in Logs : \A m \in Logs : n <= m
  BY <1>3, SmallestExists
<1>5. PICK s \in swaps : s.block = b /\ s.log = n
  OBVIOUS
<1>6. \A u \in swaps : s.block < u.block \/ (s.block = u.block /\ s.log <= u.log)
  BY <1>1, <1>2, <1>3, <1>4, <1>5
<1> QED
  BY <1>6 DEF Earliest

(* What a swap decoded from a transaction says of its legs.                *)
LEMMA DecodedFrom ==
  ASSUME NEW address, NEW tx, NEW block, NEW logs, IsFiniteSet(logs),
         \A l \in logs : l.value \in Nat /\ l.token \in Nat /\ l.log \in Nat,
         NEW s \in DecodeTx(address, tx, block, logs)
  PROVE  /\ s.tx = tx /\ s.block = block /\ s.log \in Nat
         /\ s.side \in {"buy", "sell"} /\ s.amountIn \in Nat
         /\ s.side = "buy" => \E l \in logs : /\ l.from = address /\ l.token \in Reference
                                            /\ s.amountIn = l.value
<1> DEFINE sent == {l \in logs : l.from = address /\ l.to # address}
           recv == {l \in logs : l.to = address /\ l.from # address}
           Ref(legs) == {l \in legs : l.token \in Reference}
           isBuy == Ref(sent) # {} /\ recv \ Ref(recv) # {}
           isSell == Ref(recv) # {} /\ sent \ Ref(sent) # {}
           Swap(side, token, paid, ref) ==
             [side |-> side, token |-> token.token, amountIn |-> paid.value,
              tx |-> tx, block |-> block, log |-> ref.log]
           pays == PickLeg(Ref(sent))
           paid == PickLeg(Ref(recv))
           sold == PickLeg(sent \ Ref(sent))
           gets == PickLeg(recv \ Ref(recv))
<1>1. ASSUME NEW A \in SUBSET logs, A # {} PROVE PickLeg(A) \in A
  <2>1. IsFiniteSet(A) /\ \A l \in A : LegLike(l)
    BY FS_Subset DEF LegLike
  <2> QED
    BY <1>1, <2>1, PickLegPicks
<1>2. \/ isBuy /\ s = Swap("buy", gets, pays, pays)
      \/ isSell /\ s = Swap("sell", sold, sold, paid)
  BY DEF DecodeTx
<1>3. CASE isBuy /\ s = Swap("buy", gets, pays, pays)
  <2>1. pays \in Ref(sent)
    BY <1>1, <1>3
  <2> HIDE DEF pays, gets
  <2> QED
    BY <1>3, <2>1
<1>4. CASE isSell /\ s = Swap("sell", sold, sold, paid)
  <2>1. sold \in sent /\ paid \in recv
    BY <1>1, <1>4
  <2> HIDE DEF sold, paid
  <2> QED
    BY <1>4, <2>1
<1> QED
  BY <1>2, <1>3, <1>4

(* What a wallet's swaps say of the chain.                                 *)
LEMMA SwapFacts ==
  ASSUME NEW w \in Wallet, NEW s \in Swaps[w]
  PROVE  /\ s.block \in Nat /\ s.log \in Nat
         /\ s.side \in {"buy", "sell"} /\ s.amountIn \in Nat
         /\ s.side = "buy" => \E l \in Transfers : /\ l.tx = s.tx /\ l.from = Address[w]
                                                 /\ l.token \in Reference
                                                 /\ s.amountIn = l.value
<1>1. s \in DecodeSwaps(Address[w], Transfers)
  BY DEF Swaps
<1>2. PICK l \in Transfers : s \in DecodeTx(Address[w], l.tx, l.block, {k \in Transfers : k.tx = l.tx})
  BY <1>1 DEF DecodeSwaps
<1> DEFINE logs == {k \in Transfers : k.tx = l.tx}
<1>3. IsFiniteSet(logs) /\ \A k \in logs : k.value \in Nat /\ k.token \in Nat /\ k.log \in Nat
  BY FS_Subset, CopyAssumption
<1>4. l.block \in Nat
  BY CopyAssumption
<1>5. /\ s.tx = l.tx /\ s.block = l.block /\ s.log \in Nat
      /\ s.side \in {"buy", "sell"} /\ s.amountIn \in Nat
      /\ s.side = "buy" => \E k \in logs : /\ k.from = Address[w] /\ k.token \in Reference
                                         /\ s.amountIn = k.value
  BY <1>2, <1>3, DecodedFrom
<1> QED
  BY <1>4, <1>5

(* A rate of basis points rounds down.                                     *)
LEMMA RateRoundsDown ==
  ASSUME NEW n \in Nat
  PROVE  n \div BPS \in Nat /\ (n \div BPS) * BPS <= n
BY DEF BPS

(* A copy that is made is within what its rule allows.                     *)
LEMMA EvaluateWithin ==
  ASSUME NEW rule, RuleOK(rule), NEW swap, swap.amountIn \in Nat, swap.side \in {"buy", "sell"},
         NEW held \in Nat, Evaluate(rule, swap, held) # Skip
  PROVE  LET amount == Evaluate(rule, swap, held)
         IN  IF swap.side = "sell" THEN amount \in 1..held
             ELSE /\ amount \in Nat
                  /\ rule.max # Unset => amount <= rule.max
                  /\ rule.mode = "percent" => amount * BPS <= swap.amountIn * rule.sizeBps
<1> DEFINE amount == Evaluate(rule, swap, held)
<1>1. CASE swap.side = "sell"
  <2> DEFINE wanted == Wanted(rule, swap, held)
  <2>1. held * rule.sizeBps \in Nat
    BY DEF RuleOK
  <2>2. wanted \in Nat
    <3>1. (held * rule.sizeBps) \div BPS \in Nat
      BY <2>1, RateRoundsDown
    <3> QED
      BY <1>1, <3>1 DEF Wanted, RuleOK
  <2>3. amount = IF wanted > held THEN held ELSE wanted
    BY <1>1 DEF Evaluate, SizeSell, Skip
  <2> HIDE DEF wanted
  <2>4. amount # 0
    BY DEF Skip
  <2> QED
    BY <1>1, <2>2, <2>3, <2>4
<1>2. CASE swap.side = "buy"
  <2> DEFINE wanted == Wanted(rule, swap, 0)
             capped == IF rule.max # Unset /\ wanted > rule.max THEN rule.max ELSE wanted
  <2>1. swap.amountIn * rule.sizeBps \in Nat
    BY DEF RuleOK
  <2>2. wanted \in Nat /\ (rule.mode = "percent" => wanted * BPS <= swap.amountIn * rule.sizeBps)
    <3>1. LET q == (swap.amountIn * rule.sizeBps) \div BPS
          IN  q \in Nat /\ q * BPS <= swap.amountIn * rule.sizeBps
      BY <2>1, RateRoundsDown
    <3> QED
      BY <1>2, <3>1 DEF Wanted, RuleOK
  <2>3. amount = capped
    BY <1>2 DEF Evaluate, SizeBuy, Skip
  <2> HIDE DEF wanted
  <2>4. capped \in Nat /\ capped <= wanted /\ (rule.max # Unset => capped <= rule.max)
    BY <2>2 DEF RuleOK, Unset
  <2> HIDE DEF capped
  <2>5. capped * BPS <= wanted * BPS
    BY <2>2, <2>4 DEF BPS
  <2>6. wanted * BPS \in Nat /\ capped * BPS \in Nat
    BY <2>2, <2>4 DEF BPS
  <2> QED
    BY <1>2, <2>1, <2>2, <2>3, <2>4, <2>5, <2>6
<1> QED
  BY <1>1, <1>2

-----------------------------------------------------------------------------
(* The swaps in hand.  A tick that handles swaps has some, of its wallet,  *)
(* and one that publishes does so at the size its rule gave.               *)
Handled(T) ==
  T.at \in Handling =>
    /\ T.wallet \in Wallet /\ T.batch \subseteq Swaps[T.wallet] /\ T.batch # {}
    /\ T.at = "publish" =>
         /\ T.held \in Held /\ T.amount # Skip
         /\ T.amount = Evaluate(Rule[T.wallet], Earliest(T.batch), T.held)

HandInv == GapInv /\ \A t \in Tick : Handled(tick[t])

(* A step of one tick leaves what the others have in hand.                 *)
Kept(t) == \A u \in Tick \ {t} : tick'[u] = tick[u]

LEMMA KeptHands ==
  ASSUME NEW t, Kept(t), NEW u \in Tick \ {t}
  PROVE  /\ InHand(u)' = InHand(u) /\ Key(u)' = Key(u)
         /\ \A label : At(u, label)' <=> At(u, label)
BY DEF Kept, InHand, Key, Now, At

LEMMA KeyInHand ==
  ASSUME HandInv, NEW t \in Tick, tick[t].at \in Handling
  PROVE  /\ Key(t) \in InHand(t) /\ Key(t) \in AllSwaps
         /\ Now(t) \in Swaps[tick[t].wallet] /\ tick[t].wallet \in Wallet
<1>1. /\ tick[t].wallet \in Wallet /\ tick[t].batch \subseteq Swaps[tick[t].wallet]
      /\ tick[t].batch # {}
  BY DEF HandInv, Handled
<1>2. \A s \in tick[t].batch : s.block \in Nat /\ s.log \in Nat
  BY <1>1, SwapFacts
<1>3. Now(t) \in tick[t].batch
  BY <1>1, <1>2, EarliestPicks DEF Now
<1> QED
  BY <1>1, <1>3 DEF Key, InHand, AllSwaps

(* What each kind of step does to its own tick: it moves before it scans,  *)
(* takes swaps in hand, is done with one, decides on or publishes one, or  *)
(* leaves the wallet.                                                      *)
LEMMA LeaveTick ==
  ASSUME GapInv, NEW t \in Tick, NEW todo \in SUBSET Wallet,
         tick' = [tick EXCEPT ![t] = NextWallet(todo)]
  PROVE  Kept(t) /\ InHand(t)' = {} /\ tick'[t].at \in {"idle", "head"}
<1>1. tick'[t] = NextWallet(todo) /\ Kept(t)
  BY DEF GapInv, Kept
<1> QED
  BY <1>1, NextWalletShape DEF InHand

LEMMA QuietTick ==
  ASSUME GapInv, NEW t \in Tick,
         \/ StartTick(t) \/ ListWallets(t) \/ ReadHead(t) \/ HeadFails(t)
         \/ ReadCursor(t) \/ Begin(t)
  PROVE  /\ Kept(t) /\ InHand(t)' = {}
         /\ tick[t].at \notin Handling /\ tick'[t].at \notin Handling
         /\ UNCHANGED <<copied, published, raced, unmarked>>
<1>1. Shape(tick[t]) /\ tick = [u \in Tick |-> tick[u]]
  BY DEF GapInv
<1>2. tick[t].at \notin Handling /\ UNCHANGED <<copied, published, raced, unmarked>>
  BY DEF StartTick, ListWallets, ReadHead, HeadFails, ReadCursor, Begin, At, Handling, store, history
<1>3. CASE \E todo \in SUBSET Wallet : tick' = [tick EXCEPT ![t] = NextWallet(todo)]
  BY <1>2, <1>3, LeaveTick DEF Handling
<1>4. ASSUME NEW X, tick' = [tick EXCEPT ![t] = X], X.batch = tick[t].batch, X.at \notin Handling
      PROVE  Kept(t) /\ InHand(t)' = {} /\ tick'[t].at \notin Handling
  <2>1. tick'[t] = X /\ Kept(t)
    BY <1>1, <1>4 DEF Kept
  <2>2. X.batch = {}
    BY <1>1, <1>2, <1>4 DEF Shape
  <2> QED
    BY <1>4, <2>1, <2>2 DEF InHand
<1>5. CASE StartTick(t)
  <2> DEFINE X == [tick[t] EXCEPT !.at = "list"]
  <2>1. X.batch = tick[t].batch /\ X.at \notin Handling /\ tick' = [tick EXCEPT ![t] = X]
    BY <1>1, <1>5 DEF StartTick, Shape, Fields, Handling
  <2> HIDE DEF X
  <2> QED
    BY <1>2, <1>4, <2>1
<1>6. CASE ListWallets(t)
  BY <1>3, <1>6 DEF ListWallets, GapInv, StoreTypeOK
<1>7. CASE ReadHead(t)
  <2>1. PICK w \in tick[t].todo, lag \in {0, 1} :
          tick' = [tick EXCEPT ![t].at = "cursor", ![t].todo = @ \ {w}, ![t].wallet = w,
                               ![t].safe = height - lag - Confirmations]
    BY <1>7 DEF ReadHead
  <2> DEFINE n == height - lag - Confirmations
             X == [tick[t] EXCEPT !.at = "cursor", !.todo = @ \ {w}, !.wallet = w, !.safe = n]
  <2>2. X.batch = tick[t].batch /\ X.at \notin Handling
    BY <1>1 DEF Shape, Fields, Handling
  <2>3. tick' = [tick EXCEPT ![t] = X]
    BY <1>1, <2>1
  <2> HIDE DEF X
  <2> QED
    BY <1>2, <1>4, <2>2, <2>3
<1>8. CASE HeadFails(t)
  <2>1. PICK w \in tick[t].todo : tick' = [tick EXCEPT ![t] = NextWallet(@.todo \ {w})]
    BY <1>8 DEF HeadFails
  <2>2. tick[t].todo \ {w} \in SUBSET Wallet /\ tick' = [tick EXCEPT ![t] = NextWallet(tick[t].todo \ {w})]
    BY <1>1, <2>1 DEF Shape
  <2> QED
    BY <1>3, <2>2
<1>9. ASSUME WalletDone(t) PROVE \E todo \in SUBSET Wallet : tick' = [tick EXCEPT ![t] = NextWallet(todo)]
  <2>1. tick[t].todo \in SUBSET Wallet /\ tick' = [tick EXCEPT ![t] = NextWallet(tick[t].todo)]
    BY <1>1, <1>9 DEF Shape, WalletDone
  <2> QED
    BY <2>1
<1>10. CASE ReadCursor(t)
  <2>1. CASE WalletDone(t)
    BY <1>3, <1>9, <2>1
  <2>2. CASE tick' = [tick EXCEPT ![t].at = "begin"]
    <3> DEFINE X == [tick[t] EXCEPT !.at = "begin"]
    <3>1. X.batch = tick[t].batch /\ X.at \notin Handling /\ tick' = [tick EXCEPT ![t] = X]
      BY <1>1, <2>2 DEF Shape, Fields, Handling
    <3> HIDE DEF X
    <3> QED
      BY <1>2, <1>4, <3>1
  <2>3. ASSUME NEW c, tick' = [tick EXCEPT ![t].at = "scan", ![t].start = c]
        PROVE  Kept(t) /\ InHand(t)' = {} /\ tick'[t].at \notin Handling
    <3> DEFINE X == [tick[t] EXCEPT !.at = "scan", !.start = c]
    <3>1. X.batch = tick[t].batch /\ X.at \notin Handling
      BY <1>1 DEF Shape, Fields, Handling
    <3>2. tick' = [tick EXCEPT ![t] = X]
      BY <1>1, <2>3
    <3> HIDE DEF X
    <3> QED
      BY <1>4, <3>1, <3>2
  <2> QED
    BY <1>2, <1>10, <2>1, <2>2, <2>3 DEF ReadCursor
<1>11. CASE Begin(t)
  BY <1>3, <1>9, <1>11 DEF Begin
<1> QED
  BY <1>5, <1>6, <1>7, <1>8, <1>10, <1>11

LEMMA ScanTick ==
  ASSUME GapInv, NEW t \in Tick, Scan(t)
  PROVE  /\ Kept(t) /\ tick[t].wallet \in Wallet /\ tick[t].start \in Int /\ tick[t].safe \in Int
         /\ tick'[t].at \notin {"publish", "mark", "scan", "begin"} /\ Handled(tick'[t])
         /\ \A p \in InHand(t)' : p[1] = tick[t].wallet /\ p[2] \in Scanned(t) /\ p = <<p[1], p[2]>>
         /\ InHand(t)' \subseteq {tick[t].wallet} \X Scanned(t)
<1> DEFINE T == tick[t]
           new == Scanned(t)
<1>1. Shape(T) /\ T.wallet \in Wallet /\ tick'[t] = NextSwap(T, new) /\ Kept(t)
  BY DEF GapInv, Scan, At, Shape, Kept
<1>2. new \subseteq Swaps[T.wallet]
  BY DEF Scanned, SwapsIn
<1> HIDE DEF new
<1>3. CASE new = {}
  <2>1. tick'[t] = NextWallet(T.todo) /\ T.todo \in SUBSET Wallet
    BY <1>1, <1>3 DEF NextSwap, Shape
  <2>2. tick'[t].batch = {} /\ tick'[t].at \in {"idle", "head"}
    BY <2>1, NextWalletShape
  <2> QED
    BY <1>1, <2>2 DEF InHand, Handled, Handling, Shape
<1>4. CASE new # {}
  <2>1. tick'[t] = [T EXCEPT !.at = "decide", !.batch = new, !.amount = 0, !.held = 0]
    BY <1>1, <1>4 DEF NextSwap
  <2>2. tick'[t].at = "decide" /\ tick'[t].batch = new /\ tick'[t].wallet = T.wallet
    BY <1>1, <2>1 DEF Shape, Fields
  <2>3. Handled(tick'[t])
    BY <1>1, <1>2, <1>4, <2>2 DEF Handled
  <2> QED
    BY <1>1, <2>2, <2>3 DEF InHand, new, Shape
<1> QED
  BY <1>3, <1>4

LEMMA DoneTick ==
  ASSUME HandInv, NEW t \in Tick, tick[t].at \in Handling, SwapDone(t)
  PROVE  /\ Kept(t) /\ InHand(t)' = InHand(t) \ {Key(t)}
         /\ tick'[t].at \notin {"publish", "mark", "scan", "begin"} /\ Handled(tick'[t])
<1> DEFINE T == tick[t]
           rest == T.batch \ {Now(t)}
<1>1. /\ Shape(T) /\ T.wallet \in Wallet /\ tick'[t] = NextSwap(T, rest) /\ Kept(t)
      /\ T.batch \subseteq Swaps[T.wallet]
  BY DEF HandInv, GapInv, SwapDone, Handled, Kept
<1>2. {T.wallet} \X rest = InHand(t) \ {Key(t)}
  BY DEF InHand, Key
<1>3. CASE rest = {}
  <2>1. tick'[t] = NextWallet(T.todo) /\ T.todo \in SUBSET Wallet
    BY <1>1, <1>3 DEF NextSwap, Shape
  <2>2. tick'[t].batch = {} /\ tick'[t].at \in {"idle", "head"}
    BY <2>1, NextWalletShape
  <2>3. InHand(t)' = {} /\ {T.wallet} \X rest = {}
    BY <1>3, <2>2 DEF InHand
  <2> QED
    BY <1>1, <1>2, <2>2, <2>3 DEF Handled, Handling
<1>4. CASE rest # {}
  <2>1. tick'[t] = [T EXCEPT !.at = "decide", !.batch = rest, !.amount = 0, !.held = 0]
    BY <1>1, <1>4 DEF NextSwap
  <2> HIDE DEF rest
  <2>2. tick'[t].at = "decide" /\ tick'[t].batch = rest /\ tick'[t].wallet = T.wallet
    BY <1>1, <2>1 DEF Shape, Fields
  <2>3. rest \subseteq Swaps[T.wallet]
    BY <1>1 DEF rest
  <2>4. Handled(tick'[t])
    BY <1>1, <1>4, <2>2, <2>3 DEF Handled
  <2> QED
    BY <1>1, <1>2, <2>2, <2>4 DEF InHand
<1> QED
  BY <1>3, <1>4

(* A tick that decides to publish, or is about to mark, keeps its swaps.   *)
LEMMA EditTick ==
  ASSUME HandInv, NEW t \in Tick, tick[t].at \in Handling, NEW X,
         tick' = [tick EXCEPT ![t] = X],
         X.wallet = tick[t].wallet, X.batch = tick[t].batch, X.at \in {"publish", "mark"},
         X.at = "publish" => /\ X.held \in Held /\ X.amount # Skip
                             /\ X.amount = Evaluate(Rule[X.wallet], Now(t), X.held)
  PROVE  /\ Kept(t) /\ InHand(t)' = InHand(t) /\ Key(t)' = Key(t)
         /\ tick'[t].at = X.at /\ Handled(tick'[t])
<1>1. tick'[t] = X /\ Kept(t)
  BY DEF HandInv, GapInv, Kept
<1>2. Handled(tick[t])
  BY DEF HandInv
<1>3. Handled(X)
  BY <1>2 DEF Handled, Now
<1> QED
  BY <1>1, <1>3 DEF InHand, Key, Now

LEMMA DecideTick ==
  ASSUME HandInv, NEW t \in Tick, Decide(t)
  PROVE  /\ tick[t].at = "decide" /\ UNCHANGED <<cursor, copied, published, raced, unmarked, overlapped>>
         /\ \/ Key(t) \in copied /\ SwapDone(t)
            \/ /\ Kept(t) /\ InHand(t)' = InHand(t) /\ Key(t)' = Key(t)
               /\ tick'[t].at \in {"publish", "mark"} /\ Handled(tick'[t])
               /\ Key(t) \notin copied
<1> DEFINE T == tick[t]
<1>1. Shape(T) /\ tick = [u \in Tick |-> tick[u]] /\ T.at = "decide"
  BY DEF HandInv, GapInv, Decide, At
<1>2. UNCHANGED <<cursor, copied, published, raced, unmarked, overlapped>>
  BY DEF Decide, store, history
<1>3. CASE Decided(t) /\ SwapDone(t)
  BY <1>1, <1>2, <1>3 DEF Decided
<1>4. CASE ~Decided(t) /\ tick' = [tick EXCEPT ![t].at = "mark"]
  <2> DEFINE X == [T EXCEPT !.at = "mark"]
  <2>1. /\ X.wallet = T.wallet /\ X.batch = T.batch /\ X.at = "mark"
        /\ tick' = [tick EXCEPT ![t] = X]
    BY <1>1, <1>4 DEF Shape, Fields
  <2> HIDE DEF X
  <2> QED
    BY <1>1, <1>2, <1>4, <2>1, EditTick DEF Decided, Handling
<1>5. ASSUME ~Decided(t), NEW h \in Held,
             Evaluate(Rule[T.wallet], Now(t), h) # Skip,
             tick' = [tick EXCEPT ![t].at = "publish",
                                  ![t].amount = Evaluate(Rule[T.wallet], Now(t), h), ![t].held = h]
      PROVE  /\ Kept(t) /\ InHand(t)' = InHand(t) /\ Key(t)' = Key(t)
             /\ tick'[t].at \in {"publish", "mark"} /\ Handled(tick'[t])
             /\ Key(t) \notin copied
  <2> DEFINE a == Evaluate(Rule[T.wallet], Now(t), h)
             X == [T EXCEPT !.at = "publish", !.amount = a, !.held = h]
  <2> HIDE DEF a
  <2>1. /\ X.wallet = T.wallet /\ X.batch = T.batch /\ X.at = "publish"
        /\ X.amount = a /\ X.held = h
    BY <1>1 DEF Shape, Fields
  <2>2. tick' = [tick EXCEPT ![t] = X]
    BY <1>1, <1>5 DEF a
  <2> HIDE DEF X
  <2>3. X.amount # Skip /\ X.amount = Evaluate(Rule[X.wallet], Now(t), X.held)
    BY <1>5, <2>1 DEF a
  <2> QED
    BY <1>1, <1>5, <2>1, <2>2, <2>3, EditTick DEF Decided, Handling
<1> QED
  BY <1>1, <1>2, <1>3, <1>4, <1>5 DEF Decide

LEMMA PublishTick ==
  ASSUME HandInv, NEW t \in Tick, Publish(t)
  PROVE  /\ tick[t].at = "publish" /\ tick'[t].at = "mark" /\ Handled(tick'[t])
         /\ Kept(t) /\ InHand(t)' = InHand(t) /\ Key(t)' = Key(t)
         /\ published' = [published EXCEPT ![Key(t)] = @ + 1]
         /\ UNCHANGED <<cursor, copied, raced, unmarked, overlapped>>
<1> DEFINE X == [tick[t] EXCEPT !.at = "mark"]
<1>1. /\ tick[t].at = "publish" /\ Shape(tick[t]) /\ tick = [u \in Tick |-> tick[u]]
      /\ published' = [published EXCEPT ![Key(t)] = @ + 1]
      /\ UNCHANGED <<cursor, copied, raced, unmarked, overlapped>>
  BY DEF Publish, At, HandInv, GapInv, store
<1>2. /\ X.wallet = tick[t].wallet /\ X.batch = tick[t].batch /\ X.at = "mark"
      /\ tick' = [tick EXCEPT ![t] = X]
  BY <1>1 DEF Publish, Shape, Fields
<1> HIDE DEF X
<1> QED
  BY <1>1, <1>2, EditTick DEF Handling

LEMMA MarkTick ==
  ASSUME HandInv, NEW t \in Tick, Mark(t)
  PROVE  /\ tick[t].at = "mark" /\ SwapDone(t) /\ copied' = copied \cup {Key(t)}
         /\ UNCHANGED <<cursor, published, raced, unmarked, overlapped>>
BY DEF Mark, At, history

LEMMA FailTick ==
  ASSUME HandInv, NEW t \in Tick, Fail(t)
  PROVE  /\ Kept(t) /\ InHand(t)' = {} /\ tick'[t].at \in {"idle", "head"}
         /\ tick[t].at # "idle" /\ unmarked \subseteq unmarked'
         /\ tick[t].at = "mark" => Key(t) \in unmarked'
         /\ UNCHANGED <<cursor, copied, published, raced, overlapped>>
<1>1. /\ tick' = [tick EXCEPT ![t] = NextWallet(tick[t].todo)] /\ tick[t].todo \in SUBSET Wallet
      /\ tick[t].at # "idle"
  BY DEF HandInv, GapInv, Shape, Fail, WalletDone
<1>2. /\ unmarked \subseteq unmarked' /\ (tick[t].at = "mark" => Key(t) \in unmarked')
      /\ UNCHANGED <<cursor, copied, published, raced, overlapped>>
  BY DEF Fail, Lost, At, store
<1> QED
  BY <1>1, <1>2, LeaveTick DEF HandInv

(* The others: the timer, the chain, and who follows wallets.              *)
LEMMA OtherStill ==
  ASSUME \/ Start \/ Stop \/ Grow \/ UNCHANGED vars
         \/ StoreNext /\ UNCHANGED <<height, cursor, copied, timer, tick, history, faults>>
  PROVE  UNCHANGED <<tick, cursor, copied, published, raced, unmarked, overlapped>>
BY DEF Start, Stop, Grow, vars, store, history

LEMMA HandStep == HandInv /\ [Next]_vars => HandInv'
<1> SUFFICES ASSUME HandInv, [Next]_vars PROVE HandInv'
  OBVIOUS
<1>1. GapInv'
  BY GapStep DEF HandInv
<1>2. ASSUME NEW t \in Tick, Kept(t), Handled(tick'[t]) PROVE HandInv'
  <2>1. \A u \in Tick : Handled(tick'[u])
    BY <1>2 DEF Kept, HandInv
  <2>2. \A u \in Tick : Handled(tick[u])'
    BY <2>1 DEF Handled
  <2> QED
    BY <1>1, <2>2 DEF HandInv
<1>3. ASSUME NEW t \in Tick, Kept(t), tick'[t].at \notin Handling PROVE HandInv'
  BY <1>2, <1>3 DEF Handled
<1>4. ASSUME NEW t \in Tick, StartTick(t) \/ Step(t) \/ HeadFails(t) \/ Fail(t) PROVE HandInv'
  <2>1. CASE \/ StartTick(t) \/ ListWallets(t) \/ ReadHead(t) \/ HeadFails(t)
             \/ ReadCursor(t) \/ Begin(t)
    BY <1>3, <2>1, QuietTick DEF HandInv
  <2>2. CASE Scan(t)
    BY <1>2, <2>2, ScanTick DEF HandInv
  <2>3. CASE Decide(t)
    BY <1>2, <2>3, DecideTick, DoneTick DEF Handling
  <2>4. CASE Publish(t)
    BY <1>2, <2>4, PublishTick
  <2>5. CASE Mark(t)
    BY <1>2, <2>5, MarkTick, DoneTick DEF Handling
  <2>6. CASE Fail(t)
    BY <1>3, <2>6, FailTick DEF Handling
  <2> QED
    BY <1>4, <2>1, <2>2, <2>3, <2>4, <2>5, <2>6 DEF Step
<1>5. CASE Crash
  <2>1. \A u \in Tick : Handled(tick[u])'
    BY <1>5, IdleShape DEF Crash, Handled, Handling
  <2> QED
    BY <1>1, <2>1 DEF HandInv
<1>6. CASE \/ Start \/ Stop \/ Grow \/ UNCHANGED vars
           \/ StoreNext /\ UNCHANGED <<height, cursor, copied, timer, tick, history, faults>>
  <2>1. tick' = tick
    BY <1>6, OtherStill
  <2>2. \A u \in Tick : Handled(tick[u])'
    BY <2>1 DEF HandInv, Handled
  <2> QED
    BY <1>1, <2>2 DEF HandInv
<1> QED
  BY <1>4, <1>5, <1>6 DEF Next

LEMMA HandInit == Init => HandInv
<1> SUFFICES ASSUME Init PROVE HandInv
  OBVIOUS
<1>1. \A t \in Tick : tick[t] = Idle
  BY DEF Init
<1> QED
  BY <1>1, GapInit, IdleShape DEF HandInv, Handled, Handling

(* ports.ts, policy.ts: no copy is published above the wallet's ceiling,   *)
(* above its rate of what the leader's transaction spent, or above the     *)
(* position it is sold out of, for any chain, any rules and any book.      *)
THEOREM CopyBounded == Spec => []CopyWithinMeans
<1>1. HandInv => CopyWithinMeans
  <2> SUFFICES ASSUME HandInv, NEW t \in Tick, At(t, "publish")
               PROVE  LET w == tick[t].wallet
                          rule == Rule[w]
                          spent == {l.value : l \in {k \in Transfers : k.tx = Now(t).tx /\ k.from = Address[w]
                                                                        /\ k.token \in Reference}}
                      IN  IF Now(t).side = "sell" THEN tick[t].amount \in 1..tick[t].held
                          ELSE /\ rule.max # Unset => tick[t].amount <= rule.max
                               /\ rule.mode = "percent"
                                    => \E v \in spent : /\ \A u \in spent : u <= v
                                                        /\ tick[t].amount * BPS <= v * rule.sizeBps
    BY DEF CopyWithinMeans
  <2> DEFINE w == tick[t].wallet
             rule == Rule[w]
             swap == Now(t)
             amount == tick[t].amount
             Paid == {k \in Transfers : k.tx = swap.tx /\ k.from = Address[w] /\ k.token \in Reference}
             spent == {l.value : l \in Paid}
  <2>1. /\ w \in Wallet /\ swap \in Swaps[w] /\ tick[t].held \in Nat /\ amount # Skip
        /\ amount = Evaluate(rule, swap, tick[t].held)
    BY KeyInHand, CopyAssumption DEF HandInv, Handled, Handling, At, Now
  <2>2. RuleOK(rule)
    BY <2>1, CopyAssumption
  <2>3. /\ swap.side \in {"buy", "sell"} /\ swap.amountIn \in Nat
        /\ swap.side = "buy" => \E l \in Paid : swap.amountIn = l.value
    BY <2>1, SwapFacts
  <2>4. IF swap.side = "sell" THEN amount \in 1..tick[t].held
        ELSE /\ amount \in Nat
             /\ rule.max # Unset => amount <= rule.max
             /\ rule.mode = "percent" => amount * BPS <= swap.amountIn * rule.sizeBps
    <3> HIDE DEF amount, rule, swap
    <3> QED
      BY <2>1, <2>2, <2>3, EvaluateWithin
  <2>5. ASSUME swap.side = "buy", rule.mode = "percent"
        PROVE  \E v \in spent : (\A u \in spent : u <= v) /\ amount * BPS <= v * rule.sizeBps
    <3>1. IsFiniteSet(Paid) /\ spent \in SUBSET Nat
      BY FS_Subset, CopyAssumption
    <3>2. IsFiniteSet(spent)
      <4> DEFINE f == [l \in Paid |-> l.value]
      <4> HIDE DEF Paid
      <4>1. f \in Surjection(Paid, spent)
        BY DEF Surjection
      <4> QED
        BY <3>1, <4>1, FS_Surjection
    <3>3. swap.amountIn \in spent
      BY <2>3, <2>5
    <3> HIDE DEF Paid, spent
    <3>4. PICK v \in spent : \A u \in spent : u <= v
      BY <3>1, <3>2, <3>3, LargestExists
    <3>5. swap.amountIn <= v /\ v \in Nat /\ rule.sizeBps \in Nat
      BY <2>2, <3>1, <3>3, <3>4 DEF RuleOK
    <3> HIDE DEF swap, rule, amount
    <3>6. swap.amountIn * rule.sizeBps <= v * rule.sizeBps
      BY <2>3, <3>5
    <3>7. /\ amount * BPS <= swap.amountIn * rule.sizeBps /\ amount * BPS \in Nat
          /\ swap.amountIn * rule.sizeBps \in Nat /\ v * rule.sizeBps \in Nat
      BY <2>3, <2>4, <2>5, <3>5 DEF BPS
    <3>8. amount * BPS <= v * rule.sizeBps
      BY <3>6, <3>7
    <3> QED
      BY <3>4, <3>8
  <2> QED
    BY <2>3, <2>4, <2>5
<1> QED
  BY <1>1, HandInit, HandStep, PTL DEF Spec

-----------------------------------------------------------------------------
(* Twice only in a race.  What has been published and neither raced nor    *)
(* lost its mark is marked, or its tick is about to mark it, so a tick that*)
(* found a swap unmarked is the first to publish it.                       *)
Apart == \A u, v \in Tick : u # v => InHand(u) \cap InHand(v) \subseteq raced

MarkFollows ==
  \A p \in AllSwaps : published[p] >= 1 /\ p \notin raced \cup unmarked
    => p \in copied \/ \E t \in Tick : At(t, "mark") /\ Key(t) = p

NotYetMarked == \A t \in Tick : At(t, "publish") /\ Key(t) \notin raced => Key(t) \notin copied

OnceOnly == \A p \in AllSwaps : p \notin raced \cup unmarked => published[p] <= 1

RaceInv ==
  /\ HandInv /\ published \in [AllSwaps -> Nat]
  /\ Apart /\ MarkFollows /\ NotYetMarked /\ OnceOnly

LEMMA RaceInit == Init => RaceInv
<1> SUFFICES ASSUME Init PROVE RaceInv
  OBVIOUS
<1>1. HandInv /\ \A t \in Tick : tick[t].at = "idle" /\ InHand(t) = {}
  BY HandInit, IdleShape DEF Init, InHand
<1>2. published = [p \in AllSwaps |-> 0]
  BY DEF Init
<1> QED
  BY <1>1, <1>2 DEF RaceInv, Apart, MarkFollows, NotYetMarked, OnceOnly, At

(* The swaps in hand stay apart when no tick takes any.                    *)
LEMMA ApartKept ==
  ASSUME RaceInv, NEW t \in Tick, Kept(t), InHand(t)' \subseteq InHand(t), raced \subseteq raced'
  PROVE  Apart'
<1> SUFFICES ASSUME NEW u \in Tick, NEW v \in Tick, u # v
             PROVE  InHand(u)' \cap InHand(v)' \subseteq raced'
  BY DEF Apart
<1>1. ASSUME NEW x \in Tick PROVE InHand(x)' \subseteq InHand(x)
  <2>1. CASE x = t
    BY <2>1
  <2>2. CASE x # t
    BY <2>2, KeptHands
  <2> QED
    BY <2>1, <2>2
<1>2. InHand(u) \cap InHand(v) \subseteq raced
  BY DEF RaceInv, Apart
<1>3. InHand(u)' \subseteq InHand(u) /\ InHand(v)' \subseteq InHand(v)
  BY <1>1
<1> QED
  BY <1>2, <1>3

(* A step of a tick that publishes nothing: what was about to be marked    *)
(* still is, is marked now, or has lost its mark.                          *)
LEMMA NothingPublished ==
  ASSUME RaceInv, NEW t \in Tick, Kept(t), published' = published,
         copied \subseteq copied', raced \subseteq raced', unmarked \subseteq unmarked',
         At(t, "mark") => Key(t) \in copied' \cup unmarked'
  PROVE  MarkFollows' /\ OnceOnly'
<1>1. ASSUME NEW p \in AllSwaps, published'[p] >= 1, p \notin raced' \cup unmarked'
      PROVE  p \in copied' \/ \E u \in Tick : At(u, "mark")' /\ Key(u)' = p
  <2>1. p \in copied \/ \E u \in Tick : At(u, "mark") /\ Key(u) = p
    BY <1>1 DEF RaceInv, MarkFollows
  <2>2. ASSUME NEW u \in Tick, At(u, "mark"), Key(u) = p
        PROVE  p \in copied' \/ \E v \in Tick : At(v, "mark")' /\ Key(v)' = p
    <3>1. CASE u = t
      BY <1>1, <2>2, <3>1
    <3>2. CASE u # t
      BY <2>2, <3>2, KeptHands
    <3> QED
      BY <3>1, <3>2
  <2> QED
    BY <2>1, <2>2
<1>2. MarkFollows'
  BY <1>1 DEF MarkFollows
<1>3. OnceOnly'
  BY DEF RaceInv, OnceOnly
<1> QED
  BY <1>2, <1>3

(* A tick that is to publish a swap is not overtaken by another's mark:    *)
(* both would have it in hand.                                             *)
LEMMA StillNotMarked ==
  ASSUME RaceInv, NEW t \in Tick, Kept(t), raced \subseteq raced',
         copied' \subseteq copied \cup InHand(t),
         ~At(t, "publish")' \/ Key(t)' \notin copied'
  PROVE  NotYetMarked'
<1> SUFFICES ASSUME NEW u \in Tick, At(u, "publish")', Key(u)' \notin raced'
             PROVE  Key(u)' \notin copied'
  BY DEF NotYetMarked
<1>1. CASE u = t
  BY <1>1
<1>2. CASE u # t
  <2>1. At(u, "publish") /\ Key(u)' = Key(u)
    BY <1>2, KeptHands
  <2>2. Key(u) \notin copied
    BY <2>1 DEF RaceInv, NotYetMarked
  <2>3. Key(u) \in InHand(u)
    BY <2>1, KeyInHand DEF RaceInv, At, Handling
  <2>4. Key(u) \notin InHand(t)
    BY <1>2, <2>1, <2>3 DEF RaceInv, Apart
  <2> QED
    BY <2>1, <2>2, <2>4
<1> QED
  BY <1>1, <1>2

LEMMA RaceTick ==
  ASSUME RaceInv, NEW t \in Tick, StartTick(t) \/ Step(t) \/ HeadFails(t) \/ Fail(t)
  PROVE  /\ published' \in [AllSwaps -> Nat]
         /\ Apart' /\ MarkFollows' /\ NotYetMarked' /\ OnceOnly'
<1>0. HandInv /\ GapInv /\ published \in [AllSwaps -> Nat]
  BY DEF RaceInv, HandInv
<1>1. CASE \/ StartTick(t) \/ ListWallets(t) \/ ReadHead(t) \/ HeadFails(t)
           \/ ReadCursor(t) \/ Begin(t)
  <2>1. /\ Kept(t) /\ InHand(t)' = {} /\ ~At(t, "mark") /\ ~At(t, "publish")'
        /\ UNCHANGED <<copied, published, raced, unmarked>>
    BY <1>0, <1>1, QuietTick DEF Handling, At
  <2> QED
    BY <1>0, <2>1, ApartKept, NothingPublished, StillNotMarked
<1>2. CASE Scan(t)
  <2>1. /\ Kept(t) /\ ~At(t, "mark") /\ ~At(t, "publish")'
        /\ InHand(t)' \subseteq {tick[t].wallet} \X Scanned(t)
        /\ raced' = raced \cup UNION {InHand(u) \cap ({tick[t].wallet} \X Scanned(t)) : u \in Tick \ {t}}
        /\ UNCHANGED <<copied, published, unmarked>>
    BY <1>0, <1>2, ScanTick DEF Scan, At
  <2>2. ASSUME NEW u \in Tick, NEW v \in Tick, u # v, NEW p \in InHand(u)' \cap InHand(v)'
        PROVE  p \in raced'
    <3>1. CASE u = t
      <4>1. p \in InHand(v) /\ p \in {tick[t].wallet} \X Scanned(t) /\ v \in Tick \ {t}
        BY <2>1, <2>2, <3>1, KeptHands
      <4> QED
        BY <2>1, <4>1
    <3>2. CASE v = t
      <4>1. p \in InHand(u) /\ p \in {tick[t].wallet} \X Scanned(t) /\ u \in Tick \ {t}
        BY <2>1, <2>2, <3>2, KeptHands
      <4> QED
        BY <2>1, <4>1
    <3>3. CASE u # t /\ v # t
      <4>1. p \in InHand(u) \cap InHand(v)
        BY <2>1, <2>2, <3>3, KeptHands
      <4> QED
        BY <2>1, <2>2, <4>1 DEF RaceInv, Apart
    <3> QED
      BY <3>1, <3>2, <3>3
  <2>3. Apart'
    BY <2>2 DEF Apart
  <2> QED
    BY <1>0, <2>1, <2>3, NothingPublished, StillNotMarked
<1>3. ASSUME SwapDone(t), tick[t].at \in Handling, Key(t) \in copied',
             copied' = copied \cup {Key(t)} \/ copied' = copied,
             UNCHANGED <<published, raced, unmarked>>
      PROVE  /\ published' \in [AllSwaps -> Nat]
             /\ Apart' /\ MarkFollows' /\ NotYetMarked' /\ OnceOnly'
  <2>1. Kept(t) /\ InHand(t)' \subseteq InHand(t) /\ ~At(t, "publish")'
    BY <1>0, <1>3, DoneTick DEF At
  <2>2. copied \subseteq copied' /\ copied' \subseteq copied \cup InHand(t)
    BY <1>0, <1>3, KeyInHand
  <2> QED
    BY <1>0, <1>3, <2>1, <2>2, ApartKept, NothingPublished, StillNotMarked
<1>4. CASE Decide(t)
  <2>1. tick[t].at = "decide" /\ UNCHANGED <<copied, published, raced, unmarked>>
    BY <1>0, <1>4, DecideTick
  <2>2. CASE Key(t) \in copied /\ SwapDone(t)
    BY <1>3, <2>1, <2>2 DEF Handling
  <2>3. CASE /\ Kept(t) /\ InHand(t)' = InHand(t) /\ Key(t)' = Key(t) /\ Key(t) \notin copied
    BY <1>0, <2>1, <2>3, ApartKept, NothingPublished, StillNotMarked DEF At
  <2> QED
    BY <1>0, <1>4, <2>2, <2>3, DecideTick
<1>5. CASE Publish(t)
  <2>1. /\ At(t, "publish") /\ At(t, "mark")' /\ Kept(t) /\ InHand(t)' = InHand(t) /\ Key(t)' = Key(t)
        /\ published' = [published EXCEPT ![Key(t)] = @ + 1]
        /\ UNCHANGED <<copied, raced, unmarked>>
    BY <1>0, <1>5, PublishTick DEF At
  <2>2. Key(t) \in AllSwaps /\ Key(t) \in InHand(t)
    BY <1>0, <2>1, KeyInHand DEF At, Handling
  <2>3. /\ published' \in [AllSwaps -> Nat] /\ published'[Key(t)] = published[Key(t)] + 1
        /\ \A p \in AllSwaps : p # Key(t) => published'[p] = published[p]
    BY <1>0, <2>1, <2>2
  <2>4. ASSUME Key(t) \notin raced \cup unmarked PROVE published[Key(t)] = 0
    <3>1. Key(t) \notin copied
      BY <2>1, <2>4 DEF RaceInv, NotYetMarked
    <3>2. ASSUME NEW u \in Tick, At(u, "mark"), Key(u) = Key(t) PROVE FALSE
      <4>1. u # t
        BY <2>1, <3>2 DEF At
      <4>2. Key(u) \in InHand(u)
        BY <1>0, <3>2, KeyInHand DEF At, Handling
      <4> QED
        BY <2>2, <2>4, <3>2, <4>1, <4>2 DEF RaceInv, Apart
    <3>3. ~(published[Key(t)] >= 1)
      BY <2>2, <2>4, <3>1, <3>2 DEF RaceInv, MarkFollows
    <3> QED
      BY <1>0, <2>2, <3>3
  <2>5. ASSUME NEW p \in AllSwaps, p \notin raced' \cup unmarked'
        PROVE  /\ published'[p] <= 1
               /\ published'[p] >= 1 => p \in copied' \/ \E u \in Tick : At(u, "mark")' /\ Key(u)' = p
    <3>1. CASE p = Key(t)
      BY <2>1, <2>3, <2>4, <2>5, <3>1
    <3>2. CASE p # Key(t)
      <4>1. published'[p] = published[p] /\ published[p] <= 1
        BY <2>1, <2>3, <2>5, <3>2 DEF RaceInv, OnceOnly
      <4>2. ASSUME published[p] >= 1
            PROVE  p \in copied \/ \E u \in Tick : At(u, "mark") /\ Key(u) = p
        BY <2>1, <2>5, <4>2 DEF RaceInv, MarkFollows
      <4>3. ASSUME NEW u \in Tick, At(u, "mark"), Key(u) = p PROVE At(u, "mark")' /\ Key(u)' = p
        <5>1. u # t
          BY <3>2, <4>3
        <5> QED
          BY <2>1, <4>3, <5>1, KeptHands
      <4> QED
        BY <2>1, <4>1, <4>2, <4>3
    <3> QED
      BY <3>1, <3>2
  <2>6. MarkFollows' /\ OnceOnly'
    BY <2>5 DEF MarkFollows, OnceOnly
  <2>7. ~At(t, "publish")'
    BY <2>1 DEF At
  <2> QED
    BY <1>0, <2>1, <2>3, <2>6, <2>7, ApartKept, StillNotMarked
<1>6. CASE Mark(t)
  BY <1>0, <1>3, <1>6, MarkTick DEF Handling
<1>7. CASE Fail(t)
  <2>1. /\ Kept(t) /\ InHand(t)' = {} /\ ~At(t, "publish")' /\ unmarked \subseteq unmarked'
        /\ (At(t, "mark") => Key(t) \in unmarked')
        /\ UNCHANGED <<copied, published, raced>>
    BY <1>0, <1>7, FailTick DEF At
  <2> QED
    BY <1>0, <2>1, ApartKept, NothingPublished, StillNotMarked
<1> QED
  BY <1>1, <1>2, <1>4, <1>5, <1>6, <1>7 DEF Step

LEMMA RaceStep == RaceInv /\ [Next]_vars => RaceInv'
<1> SUFFICES ASSUME RaceInv, [Next]_vars PROVE RaceInv'
  OBVIOUS
<1>1. HandInv' /\ published \in [AllSwaps -> Nat]
  BY HandStep DEF RaceInv
<1>2. ASSUME NEW t \in Tick, StartTick(t) \/ Step(t) \/ HeadFails(t) \/ Fail(t) PROVE RaceInv'
  BY <1>1, <1>2, RaceTick DEF RaceInv
<1>3. CASE Crash
  <2>1. /\ \A t \in Tick : tick'[t].at = "idle" /\ InHand(t)' = {}
        /\ UNCHANGED <<copied, published, raced>>
        /\ unmarked \subseteq unmarked'
        /\ \A t \in Tick : At(t, "mark") => Key(t) \in unmarked'
    BY <1>3, IdleShape DEF Crash, InHand, store, At
  <2>2. Apart' /\ NotYetMarked'
    BY <2>1 DEF Apart, NotYetMarked, At
  <2>3. MarkFollows'
    BY <2>1 DEF RaceInv, MarkFollows
  <2>4. OnceOnly'
    BY <2>1 DEF RaceInv, OnceOnly
  <2> QED
    BY <1>1, <2>1, <2>2, <2>3, <2>4 DEF RaceInv
<1>4. CASE \/ Start \/ Stop \/ Grow \/ UNCHANGED vars
           \/ StoreNext /\ UNCHANGED <<height, cursor, copied, timer, tick, history, faults>>
  <2>1. UNCHANGED <<tick, copied, published, raced, unmarked>>
    BY <1>4, OtherStill
  <2>2. \A t \in Tick : InHand(t)' = InHand(t) /\ Key(t)' = Key(t)
    BY <2>1 DEF InHand, Key, Now
  <2>3. \A t \in Tick, label \in {"publish", "mark"} : At(t, label)' <=> At(t, label)
    BY <2>1 DEF At
  <2>4. Apart'
    BY <2>1, <2>2 DEF RaceInv, Apart
  <2>5. MarkFollows'
    BY <2>1, <2>2, <2>3 DEF RaceInv, MarkFollows
  <2>6. NotYetMarked'
    BY <2>1, <2>2, <2>3 DEF RaceInv, NotYetMarked
  <2>7. OnceOnly'
    BY <2>1 DEF RaceInv, OnceOnly
  <2> QED
    BY <1>1, <2>1, <2>4, <2>5, <2>6, <2>7 DEF RaceInv
<1> QED
  BY <1>2, <1>3, <1>4 DEF Next

(* While no two ticks ran together the cursor is the one tick's own: it    *)
(* scans past what was published, so a mark that failed is of no account.  *)
OneAtWork == \A u, v \in Tick : ~At(u, "idle") /\ ~At(v, "idle") => u = v

ReadIsCurrent ==
  \A t \in Tick :
    /\ At(t, "begin") => cursor[tick[t].wallet] = NoCursor
    /\ At(t, "scan")  => tick[t].start = cursor[tick[t].wallet] /\ tick[t].start < tick[t].safe

HandIsNew ==
  \A t \in Tick : \A p \in InHand(t) :
    p[2].block <= cursor[p[1]] /\ (published[p] = 0 \/ (At(t, "mark") /\ p = Key(t)))

PublishedIsPassed ==
  \A p \in AllSwaps : published[p] >= 1 => p[2].block <= cursor[p[1]] /\ published[p] <= 1

Alone    == OneAtWork /\ ReadIsCurrent /\ HandIsNew /\ PublishedIsPassed
AloneInv == RaceInv /\ (~overlapped => Alone)

LEMMA AloneInit == Init => AloneInv
<1> SUFFICES ASSUME Init PROVE AloneInv
  OBVIOUS
<1>1. RaceInv /\ \A t \in Tick : tick[t].at = "idle" /\ InHand(t) = {}
  BY RaceInit, IdleShape DEF Init, InHand
<1>2. published = [p \in AllSwaps |-> 0]
  BY DEF Init
<1> QED
  BY <1>1, <1>2 DEF AloneInv, Alone, OneAtWork, ReadIsCurrent, HandIsNew, PublishedIsPassed, At

LEMMA SwapAt ==
  ASSUME NEW p \in AllSwaps
  PROVE  p[1] \in Wallet /\ p[2] \in Swaps[p[1]] /\ p[2].block \in Nat /\ p = <<p[1], p[2]>>
<1>1. p[1] \in Wallet /\ p[2] \in Swaps[p[1]] /\ p = <<p[1], p[2]>>
  BY DEF AllSwaps
<1> QED
  BY <1>1, SwapFacts

LEMMA AloneTick ==
  ASSUME RaceInv, Alone, NEW t \in Tick, StartTick(t) \/ Step(t) \/ HeadFails(t) \/ Fail(t),
         ~overlapped'
  PROVE  Alone'
<1> DEFINE T == tick[t]
<1>0. /\ HandInv /\ GapInv /\ published \in [AllSwaps -> Nat] /\ Shape(T)
      /\ tick = [u \in Tick |-> tick[u]] /\ cursor \in [Wallet -> Int]
  BY DEF RaceInv, HandInv, GapInv
<1>1. \A u \in Tick \ {t} : At(u, "idle")
  <2>1. CASE StartTick(t)
    BY <2>1 DEF StartTick
  <2>2. CASE ~At(t, "idle")
    BY <2>2 DEF Alone, OneAtWork
  <2> QED
    BY <2>1, <2>2 DEF Step, ListWallets, ReadHead, HeadFails, ReadCursor, Begin, Scan, Decide,
                      Publish, Mark, Fail, At
(* So only what the step does to its own tick is left to see.              *)
<1>2. ASSUME Kept(t), PublishedIsPassed',
             At(t, "begin")' => cursor'[tick'[t].wallet] = NoCursor,
             At(t, "scan")' => /\ tick'[t].start = cursor'[tick'[t].wallet]
                               /\ tick'[t].start < tick'[t].safe,
             \A p \in InHand(t)' : /\ p[2].block <= cursor'[p[1]]
                                   /\ published'[p] = 0 \/ (At(t, "mark")' /\ p = Key(t)')
      PROVE  Alone'
  <2>1. ASSUME NEW u \in Tick \ {t} PROVE tick'[u].at = "idle" /\ InHand(u)' = {}
    <3>1. tick'[u] = tick[u] /\ tick[u].at = "idle" /\ Shape(tick[u])
      BY <1>0, <1>1, <1>2 DEF Kept, At, GapInv
    <3> QED
      BY <3>1 DEF InHand, Shape, Handling
  <2>2. OneAtWork'
    BY <2>1 DEF OneAtWork, At
  <2>3. ReadIsCurrent'
    BY <1>2, <2>1 DEF ReadIsCurrent, At
  <2>4. HandIsNew'
    BY <1>2, <2>1 DEF HandIsNew
  <2> QED
    BY <1>2, <2>2, <2>3, <2>4 DEF Alone
<1>3. CASE \/ StartTick(t) \/ ListWallets(t) \/ ReadHead(t) \/ HeadFails(t)
           \/ ReadCursor(t) \/ Begin(t)
  <2>1. Kept(t) /\ InHand(t)' = {} /\ published' = published
    BY <1>0, <1>3, QuietTick
  <2>2. CASE Begin(t)
    <3>1. /\ T.wallet \in Wallet /\ cursor[T.wallet] = NoCursor
          /\ cursor' = [cursor EXCEPT ![T.wallet] = T.safe]
      BY <1>0, <2>2 DEF Begin, At, Shape, Alone, ReadIsCurrent
    <3>2. tick'[t].at \in {"idle", "head"}
      <4>1. T.todo \in SUBSET Wallet /\ tick' = [tick EXCEPT ![t] = NextWallet(T.todo)]
        BY <1>0, <2>2 DEF Begin, WalletDone, Shape
      <4> QED
        BY <1>0, <4>1, LeaveTick
    <3>3. ASSUME NEW p \in AllSwaps, published'[p] >= 1
          PROVE  p[2].block <= cursor'[p[1]] /\ published'[p] <= 1
      <4>1. p[2].block <= cursor[p[1]] /\ published[p] <= 1 /\ p[2].block \in Nat /\ p[1] \in Wallet
        BY <2>1, <3>3, SwapAt DEF Alone, PublishedIsPassed
      <4>2. p[1] # T.wallet
        BY <3>1, <4>1 DEF NoCursor
      <4>3. cursor'[p[1]] = cursor[p[1]]
        BY <1>0, <3>1, <4>1, <4>2
      <4> QED
        BY <2>1, <4>1, <4>3
    <3>4. PublishedIsPassed'
      BY <3>3 DEF PublishedIsPassed
    <3> QED
      BY <1>2, <2>1, <3>2, <3>4 DEF At
  <2>3. CASE ~Begin(t)
    <3>1. cursor' = cursor
      BY <1>3, <2>3 DEF StartTick, ListWallets, ReadHead, HeadFails, ReadCursor, store
    <3>2. PublishedIsPassed'
      BY <2>1, <3>1 DEF Alone, PublishedIsPassed
    <3>3. /\ At(t, "begin")' => cursor'[tick'[t].wallet] = NoCursor
          /\ At(t, "scan")' => /\ tick'[t].start = cursor'[tick'[t].wallet]
                               /\ tick'[t].start < tick'[t].safe
      <4>1. CASE StartTick(t)
        <5>1. tick'[t].at = "list"
          BY <1>0, <4>1 DEF StartTick, Shape, Fields
        <5> QED
          BY <5>1 DEF At
      <4>2. ASSUME NEW todo \in SUBSET Wallet, tick' = [tick EXCEPT ![t] = NextWallet(todo)]
            PROVE  tick'[t].at \notin {"begin", "scan"}
        BY <1>0, <4>2, LeaveTick
      <4>3. CASE ListWallets(t)
        BY <1>0, <4>2, <4>3 DEF ListWallets, GapInv, StoreTypeOK, At
      <4>4. CASE ReadHead(t)
        <5>1. PICK w \in T.todo, lag \in {0, 1} :
                tick' = [tick EXCEPT ![t].at = "cursor", ![t].todo = @ \ {w}, ![t].wallet = w,
                                     ![t].safe = height - lag - Confirmations]
          BY <4>4 DEF ReadHead
        <5> DEFINE n == height - lag - Confirmations
        <5> HIDE DEF n
        <5>2. tick'[t] = [T EXCEPT !.at = "cursor", !.todo = @ \ {w}, !.wallet = w, !.safe = n]
          BY <1>0, <5>1 DEF n
        <5>3. tick'[t].at = "cursor"
          BY <1>0, <5>2 DEF Shape, Fields
        <5> QED
          BY <5>3 DEF At
      <4>5. CASE HeadFails(t)
        <5>1. PICK w \in T.todo : tick' = [tick EXCEPT ![t] = NextWallet(@.todo \ {w})]
          BY <4>5 DEF HeadFails
        <5>2. T.todo \ {w} \in SUBSET Wallet /\ tick' = [tick EXCEPT ![t] = NextWallet(T.todo \ {w})]
          BY <1>0, <5>1 DEF Shape
        <5> QED
          BY <4>2, <5>2 DEF At
      <4>6. CASE ReadCursor(t)
        <5> DEFINE c == cursor[T.wallet]
        <5>1. CASE WalletDone(t)
          <6>1. T.todo \in SUBSET Wallet /\ tick' = [tick EXCEPT ![t] = NextWallet(T.todo)]
            BY <1>0, <5>1 DEF WalletDone, Shape
          <6> QED
            BY <4>2, <6>1 DEF At
        <5>2. CASE c = NoCursor /\ tick' = [tick EXCEPT ![t].at = "begin"]
          <6>1. tick'[t].at = "begin" /\ tick'[t].wallet = T.wallet
            BY <1>0, <5>2 DEF Shape, Fields
          <6> QED
            BY <3>1, <5>2, <6>1 DEF At
        <5>3. CASE T.safe > c /\ tick' = [tick EXCEPT ![t].at = "scan", ![t].start = c]
          <6> HIDE DEF c
          <6>1. /\ tick'[t].at = "scan" /\ tick'[t].wallet = T.wallet
                /\ tick'[t].start = c /\ tick'[t].safe = T.safe
            BY <1>0, <5>3 DEF Shape, Fields
          <6>2. T.wallet \in Wallet
            BY <1>0, <4>6 DEF ReadCursor, At, Shape
          <6>3. c \in Int /\ T.safe \in Int
            BY <1>0, <6>2 DEF Shape, c
          <6> QED
            BY <3>1, <5>3, <6>1, <6>3 DEF At, c
        <5> QED
          BY <4>6, <5>1, <5>2, <5>3 DEF ReadCursor
      <4> QED
        BY <1>3, <2>3, <4>1, <4>3, <4>4, <4>5, <4>6
    <3> QED
      BY <1>2, <2>1, <3>2, <3>3
  <2> QED
    BY <2>2, <2>3
<1>4. CASE Scan(t)
  <2> DEFINE to == RangeEnd(T.start, T.safe)
  <2>1. /\ Kept(t) /\ T.wallet \in Wallet /\ T.start \in Int /\ T.safe \in Int
        /\ tick'[t].at \notin {"publish", "mark", "scan", "begin"} /\ Handled(tick'[t])
        /\ \A p \in InHand(t)' : p[1] = T.wallet /\ p[2] \in Scanned(t) /\ p = <<p[1], p[2]>>
    BY <1>0, <1>4, ScanTick
  <2>2. T.start = cursor[T.wallet] /\ T.start < T.safe
    BY <1>4 DEF Alone, ReadIsCurrent, Scan
  <2>3. to \in Int /\ T.start < to
    BY <2>1, <2>2, CopyAssumption DEF RangeEnd
  <2>4. cursor' = [cursor EXCEPT ![T.wallet] = to] /\ published' = published
    BY <1>4 DEF Scan
  <2> HIDE DEF to
  <2>5. ASSUME NEW p \in AllSwaps, published'[p] >= 1
        PROVE  p[2].block <= cursor'[p[1]] /\ published'[p] <= 1
    <3>1. p[2].block <= cursor[p[1]] /\ published[p] <= 1 /\ p[2].block \in Nat /\ p[1] \in Wallet
      BY <2>4, <2>5, SwapAt DEF Alone, PublishedIsPassed
    <3>2. CASE p[1] = T.wallet
      <4>1. cursor'[p[1]] = to /\ cursor[p[1]] = T.start
        BY <1>0, <2>1, <2>2, <2>4, <3>2
      <4> QED
        BY <2>1, <2>3, <2>4, <3>1, <4>1
    <3>3. CASE p[1] # T.wallet
      BY <1>0, <2>4, <3>1, <3>3
    <3> QED
      BY <3>2, <3>3
  <2>6. ASSUME NEW p \in InHand(t)' PROVE p[2].block <= cursor'[p[1]] /\ published'[p] = 0
    <3>1. /\ p[1] = T.wallet /\ p = <<p[1], p[2]>> /\ p[2] \in Swaps[T.wallet]
          /\ p[2].block \in (T.start + 1)..to
      BY <2>1, <2>6 DEF Scanned, SwapsIn, to
    <3>2. p \in AllSwaps
      BY <2>1, <3>1 DEF AllSwaps
    <3>3. ~(published[p] >= 1)
      BY <2>1, <2>2, <2>3, <3>1, <3>2 DEF Alone, PublishedIsPassed
    <3>4. cursor'[p[1]] = to /\ published[p] \in Nat
      BY <1>0, <2>1, <2>4, <3>1, <3>2
    <3> QED
      BY <2>3, <2>4, <3>1, <3>3, <3>4
  <2>7. PublishedIsPassed'
    BY <2>5 DEF PublishedIsPassed
  <2> QED
    BY <1>2, <2>1, <2>6, <2>7 DEF At
<1>5. ASSUME SwapDone(t), T.at \in Handling, UNCHANGED <<cursor, published>> PROVE Alone'
  <2>1. /\ Kept(t) /\ InHand(t)' = InHand(t) \ {Key(t)}
        /\ tick'[t].at \notin {"publish", "mark", "scan", "begin"}
    BY <1>0, <1>5, DoneTick
  <2>2. \A p \in InHand(t)' : p[2].block <= cursor'[p[1]] /\ published'[p] = 0
    BY <1>5, <2>1 DEF Alone, HandIsNew
  <2>3. PublishedIsPassed'
    BY <1>5 DEF Alone, PublishedIsPassed
  <2> QED
    BY <1>2, <2>1, <2>2, <2>3 DEF At
<1>6. CASE Decide(t)
  <2>1. T.at = "decide" /\ UNCHANGED <<cursor, published>>
    BY <1>0, <1>6, DecideTick
  <2>2. CASE SwapDone(t)
    BY <1>5, <2>1, <2>2 DEF Handling
  <2>3. CASE /\ Kept(t) /\ InHand(t)' = InHand(t) /\ tick'[t].at \in {"publish", "mark"}
    <3>1. \A p \in InHand(t)' : p[2].block <= cursor'[p[1]] /\ published'[p] = 0
      BY <2>1, <2>3 DEF Alone, HandIsNew, At
    <3>2. PublishedIsPassed'
      BY <2>1 DEF Alone, PublishedIsPassed
    <3> QED
      BY <1>2, <2>3, <3>1, <3>2 DEF At
  <2> QED
    BY <1>0, <1>6, <2>2, <2>3, DecideTick
<1>7. CASE Publish(t)
  <2>1. /\ At(t, "publish") /\ At(t, "mark")' /\ Kept(t) /\ InHand(t)' = InHand(t) /\ Key(t)' = Key(t)
        /\ published' = [published EXCEPT ![Key(t)] = @ + 1] /\ cursor' = cursor
    BY <1>0, <1>7, PublishTick DEF At
  <2>2. Key(t) \in AllSwaps /\ Key(t) \in InHand(t)
    BY <1>0, <2>1, KeyInHand DEF At, Handling
  <2>3. /\ published'[Key(t)] = published[Key(t)] + 1
        /\ \A p \in AllSwaps : p # Key(t) => published'[p] = published[p]
    BY <1>0, <2>1, <2>2
  <2>4. \A p \in InHand(t) : p[2].block <= cursor[p[1]] /\ published[p] = 0 /\ p \in AllSwaps
    <3>1. ASSUME NEW p \in InHand(t) PROVE p \in AllSwaps
      <4>1. T.wallet \in Wallet /\ T.batch \subseteq Swaps[T.wallet]
        BY <1>0, <2>1 DEF HandInv, Handled, At, Handling
      <4> QED
        BY <4>1 DEF InHand, AllSwaps
    <3> QED
      BY <2>1, <3>1 DEF Alone, HandIsNew, At
  <2>5. PublishedIsPassed'
    <3> SUFFICES ASSUME NEW p \in AllSwaps, published'[p] >= 1
                 PROVE  p[2].block <= cursor'[p[1]] /\ published'[p] <= 1
      BY DEF PublishedIsPassed
    <3>1. CASE p = Key(t)
      BY <2>1, <2>2, <2>3, <2>4, <3>1
    <3>2. CASE p # Key(t)
      BY <2>1, <2>3, <3>2 DEF Alone, PublishedIsPassed
    <3> QED
      BY <3>1, <3>2
  <2>6. ASSUME NEW p \in InHand(t)'
        PROVE  p[2].block <= cursor'[p[1]] /\ (published'[p] = 0 \/ (At(t, "mark")' /\ p = Key(t)'))
    BY <2>1, <2>3, <2>4, <2>6
  <2> QED
    BY <1>2, <2>1, <2>5, <2>6 DEF At
<1>8. CASE Mark(t)
  BY <1>0, <1>5, <1>8, MarkTick DEF Handling
<1>9. CASE Fail(t)
  <2>1. /\ Kept(t) /\ InHand(t)' = {} /\ tick'[t].at \in {"idle", "head"}
        /\ UNCHANGED <<cursor, published>>
    BY <1>0, <1>9, FailTick
  <2>2. PublishedIsPassed'
    BY <2>1 DEF Alone, PublishedIsPassed
  <2> QED
    BY <1>2, <2>1, <2>2 DEF At
<1> QED
  BY <1>3, <1>4, <1>6, <1>7, <1>8, <1>9 DEF Step

LEMMA AloneStep == AloneInv /\ [Next]_vars => AloneInv'
<1> SUFFICES ASSUME AloneInv, [Next]_vars PROVE AloneInv'
  OBVIOUS
<1>1. RaceInv'
  BY RaceStep DEF AloneInv
<1>2. ASSUME NEW t \in Tick, StartTick(t) \/ Step(t) \/ HeadFails(t) \/ Fail(t), ~overlapped' PROVE Alone'
  <2>1. ~overlapped
    BY <1>2 DEF StartTick, Step, ListWallets, ReadHead, HeadFails, ReadCursor, Begin, Scan, Decide,
                Publish, Mark, Fail, history
  <2> QED
    BY <1>2, <2>1, AloneTick DEF AloneInv
<1>3. ASSUME Crash, ~overlapped' PROVE Alone'
  <2>1. /\ \A t \in Tick : tick'[t].at = "idle" /\ InHand(t)' = {}
        /\ UNCHANGED <<cursor, published, overlapped>>
    BY <1>3, IdleShape DEF Crash, InHand, store
  <2>2. PublishedIsPassed'
    BY <1>3, <2>1 DEF AloneInv, Alone, PublishedIsPassed
  <2> QED
    BY <2>1, <2>2 DEF Alone, OneAtWork, ReadIsCurrent, HandIsNew, At
<1>4. ASSUME \/ Start \/ Stop \/ Grow \/ UNCHANGED vars
             \/ StoreNext /\ UNCHANGED <<height, cursor, copied, timer, tick, history, faults>>,
             ~overlapped'
      PROVE  Alone'
  <2>1. UNCHANGED <<tick, cursor, published, overlapped>>
    BY <1>4, OtherStill
  <2>2. \A t \in Tick : InHand(t)' = InHand(t) /\ Key(t)' = Key(t)
    BY <2>1 DEF InHand, Key, Now
  <2>3. OneAtWork' /\ ReadIsCurrent' /\ PublishedIsPassed'
    BY <1>4, <2>1 DEF AloneInv, Alone, OneAtWork, ReadIsCurrent, PublishedIsPassed, At
  <2>4. HandIsNew'
    BY <1>4, <2>1, <2>2 DEF AloneInv, Alone, HandIsNew, At
  <2> QED
    BY <2>3, <2>4 DEF Alone
<1> QED
  BY <1>1, <1>2, <1>3, <1>4 DEF Next, AloneInv

(* runner.ts:31-34: a swap is published twice only if two ticks had it in  *)
(* hand together, or its mark failed and ticks overlapped, for any number  *)
(* of ticks, wallets, failures and restarts.                               *)
THEOREM CopiedOnceUnlessRaced == Spec => []TwiceOnlyInRace
<1>1. AloneInv => TwiceOnlyInRace
  <2> SUFFICES ASSUME AloneInv, NEW p \in AllSwaps, published[p] > 1
               PROVE  p \in raced \/ (overlapped /\ p \in unmarked)
    BY DEF TwiceOnlyInRace
  <2>1. published[p] \in Nat
    BY DEF AloneInv, RaceInv
  <2>2. p \in raced \cup unmarked
    BY <2>1 DEF AloneInv, RaceInv, OnceOnly
  <2>3. ~(~overlapped)
    BY <2>1 DEF AloneInv, Alone, PublishedIsPassed
  <2>4. CASE p \in raced
    BY <2>4
  <2>5. CASE p \in unmarked
    BY <2>3, <2>5, Zenon
  <2> QED
    BY <2>2, <2>4, <2>5
<1> QED
  BY <1>1, AloneInit, AloneStep, PTL DEF Spec
=============================================================================
