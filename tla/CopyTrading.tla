----------------------------- MODULE CopyTrading -----------------------------
(***************************************************************************)
(* CopyRunner over WalletWatcher and DrizzleCopyStore (packages/copy-core):*)
(* the ticks of a timer that does not wait for the last one, each scanning *)
(* the followed wallets from their cursors and publishing a copy of every  *)
(* swap found, over a store that outlives the process and is shared with   *)
(* whoever follows wallets (CopyStore).  A step ends where the code        *)
(* awaits; hasCopied, amountOf, the policy and the gate are one, since     *)
(* what the last three read is the environment's.                          *)
(***************************************************************************)
EXTENDS CopyRules, CopyStore

CONSTANTS
  Address,       \* the address behind each
  Rule,          \* and its sizing
  Transfers,     \* the chain's transfer logs
  MaxBlock,      \* bound on the chain's height
  Confirmations, MaxBlockRange,
  Held,          \* what the engine's book may answer
  Tick,          \* ticks that may be in flight together
  MaxFaults      \* bound on failures, crashes and lagging heads

ASSUME CopyAssumption ==
  /\ Confirmations \in Nat /\ MaxBlock \in Nat /\ Confirmations < MaxBlock
  /\ MaxBlockRange \in Nat \ {0} /\ MaxFaults \in Nat
  /\ IsFiniteSet(Transfers)
  /\ \A l \in Transfers : /\ l.block \in 0..MaxBlock
                          /\ l.log \in Nat /\ l.token \in Nat /\ l.value \in Nat
  /\ \A k, l \in Transfers : k.tx = l.tx => k.block = l.block
  /\ \A w \in Wallet : RuleOK(Rule[w])
  /\ Held \subseteq Nat

VARIABLES
  height,      \* the chain's head
  cursor,      \* last block scanned for each wallet
  copied,      \* the swaps marked copied, each with its wallet
  timer,       \* is the runner started
  tick,        \* what each tick in flight is doing
  from,        \* history: the last block a first scan of the wallet passed by
  published,   \* history: how often each swap was copied
  dropped,     \* history: swaps in hand when their tick failed
  raced,       \* history: swaps two ticks had in hand together
  unmarked,    \* history: swaps published whose mark failed
  overlapped,  \* history: did two ticks ever run together
  faults       \* how many faults there were

history == <<from, published, dropped, raced, unmarked, overlapped>>
store   == <<storeVars, cursor, copied>>
vars    == <<height, store, timer, tick, history, faults>>

NoCursor == -1

(* Every swap a wallet makes, and those of a range of blocks: as a         *)
(* transaction is in one block, a range decodes to its part of the whole.  *)
Swaps == [w \in Wallet |-> DecodeSwaps(Address[w], Transfers)]
SwapsIn(w, first, last) == {s \in Swaps[w] : s.block \in first..last}

AllSwaps == UNION {{w} \X Swaps[w] : w \in Wallet}

Idle == [at |-> "idle", todo |-> {}, wallet |-> Nobody, safe |-> 0, start |-> 0,
         batch |-> {}, amount |-> 0, held |-> 0]

Init ==
  /\ height \in (Confirmations + 1)..MaxBlock /\ StoreInit
  /\ cursor = [w \in Wallet |-> NoCursor] /\ copied = {}
  /\ timer = FALSE /\ tick = [t \in Tick |-> Idle]
  /\ from = [w \in Wallet |-> NoCursor] /\ published = [p \in AllSwaps |-> 0]
  /\ dropped = {} /\ raced = {} /\ unmarked = {} /\ overlapped = FALSE
  /\ faults = 0

-----------------------------------------------------------------------------
(* What a tick is at work on.                                              *)
InHand(t) == {tick[t].wallet} \X tick[t].batch
Now(t)    == Earliest(tick[t].batch)
Key(t)    == <<tick[t].wallet, Now(t)>>

(* The swap in hand, or the wallet, or the tick is done with.              *)
NextWallet(todo) == IF todo = {} THEN Idle ELSE [Idle EXCEPT !.at = "head", !.todo = todo]
WalletDone(t) == tick' = [tick EXCEPT ![t] = NextWallet(@.todo)]

NextSwap(T, rest) ==
  IF rest = {} THEN NextWallet(T.todo)
  ELSE [T EXCEPT !.at = "decide", !.batch = rest, !.amount = 0, !.held = 0]

SwapDone(t) == tick' = [tick EXCEPT ![t] = NextSwap(@, @.batch \ {Now(t)})]

At(t, label) == tick[t].at = label

(* The interval fires, whether or not the last tick has ended.             *)
StartTick(t) ==
  /\ timer /\ At(t, "idle")
  /\ tick' = [tick EXCEPT ![t].at = "list"]
  /\ overlapped' = (overlapped \/ \E u \in Tick \ {t} : ~At(u, "idle"))
  /\ UNCHANGED <<height, store, timer, from, published, dropped, raced, unmarked, faults>>

ListWallets(t) ==
  /\ At(t, "list")
  /\ tick' = [tick EXCEPT ![t] = NextWallet(followed)]
  /\ UNCHANGED <<height, store, timer, history, faults>>

(* The store gives no order.  A client that fails over may answer from a   *)
(* node that lags.                                                         *)
ReadHead(t) ==
  /\ At(t, "head")
  /\ \E w \in tick[t].todo, lag \in {0, 1} :
       /\ lag = 0 \/ (faults < MaxFaults /\ height > Confirmations)
       /\ faults' = faults + lag
       /\ tick' = [tick EXCEPT ![t].at = "cursor", ![t].todo = @ \ {w}, ![t].wallet = w,
                               ![t].safe = height - lag - Confirmations]
  /\ UNCHANGED <<height, store, timer, history>>

HeadFails(t) ==
  /\ At(t, "head")
  /\ faults < MaxFaults /\ faults' = faults + 1
  /\ \E w \in tick[t].todo : tick' = [tick EXCEPT ![t] = NextWallet(@.todo \ {w})]
  /\ UNCHANGED <<height, store, timer, history>>

ReadCursor(t) ==
  /\ At(t, "cursor")
  /\ LET c == cursor[tick[t].wallet] IN
     \/ /\ c = NoCursor
        /\ tick' = [tick EXCEPT ![t].at = "begin"]
     \/ /\ c # NoCursor /\ tick[t].safe <= c
        /\ WalletDone(t)
     \/ /\ c # NoCursor /\ tick[t].safe > c
        /\ tick' = [tick EXCEPT ![t].at = "scan", ![t].start = c]
  /\ UNCHANGED <<height, store, timer, history, faults>>

(* The first run: the wallet is watched from here on.                      *)
Begin(t) ==
  /\ At(t, "begin")
  /\ cursor' = [cursor EXCEPT ![tick[t].wallet] = tick[t].safe]
  /\ from' = [from EXCEPT ![tick[t].wallet] = IF @ < tick[t].safe THEN tick[t].safe ELSE @]
  /\ WalletDone(t)
  /\ UNCHANGED <<height, storeVars, copied, timer, published, dropped, raced, unmarked,
                 overlapped, faults>>

(* Mutant of RangeEnd: a range is a block shorter than it may be.          *)
RangeEndShort(start, safe) ==
  IF safe < start + MaxBlockRange - 1 THEN safe ELSE start + MaxBlockRange - 1

RangeEnd(start, safe) == IF safe < start + MaxBlockRange THEN safe ELSE start + MaxBlockRange

(* Mutant of Scanned: the range begins a block late.                       *)
ScannedLate(t) ==
  SwapsIn(tick[t].wallet, tick[t].start + 2, RangeEnd(tick[t].start, tick[t].safe))

(* The swaps of the next range of blocks: two getLogs and decodeSwaps.     *)
Scanned(t) ==
  SwapsIn(tick[t].wallet, tick[t].start + 1, RangeEnd(tick[t].start, tick[t].safe))

(* The cursor passes the range, and its swaps are the tick's to handle.    *)
Scan(t) ==
  /\ At(t, "scan")
  /\ cursor' = [cursor EXCEPT ![tick[t].wallet] = RangeEnd(tick[t].start, tick[t].safe)]
  /\ tick' = [tick EXCEPT ![t] = NextSwap(@, Scanned(t))]
  /\ raced' = raced \cup UNION {InHand(u) \cap ({tick[t].wallet} \X Scanned(t)) : u \in Tick \ {t}}
  /\ UNCHANGED <<height, storeVars, copied, timer, from, published, dropped, unmarked,
                 overlapped, faults>>

(* Mutant of Decided: a swap marked copied is copied all the same.         *)
DecidedAnyway(t) == FALSE

(* hasCopied.                                                              *)
Decided(t) == Key(t) \in copied

(* The swap is sized, and a buy may be vetoed by the gate.                 *)
Decide(t) ==
  /\ At(t, "decide")
  /\ \/ Decided(t) /\ SwapDone(t)
     \/ /\ ~Decided(t)
        /\ \E held \in Held :
             LET amount == Evaluate(Rule[tick[t].wallet], Now(t), held) IN
             \/ /\ amount = Skip \/ Now(t).side = "buy"
                /\ tick' = [tick EXCEPT ![t].at = "mark"]
             \/ /\ amount # Skip
                /\ tick' = [tick EXCEPT ![t].at = "publish", ![t].amount = amount, ![t].held = held]
  /\ UNCHANGED <<height, store, timer, history, faults>>

Publish(t) ==
  /\ At(t, "publish")
  /\ published' = [published EXCEPT ![Key(t)] = @ + 1]
  /\ tick' = [tick EXCEPT ![t].at = "mark"]
  /\ UNCHANGED <<height, store, timer, from, dropped, raced, unmarked, overlapped, faults>>

Mark(t) ==
  /\ At(t, "mark")
  /\ copied' = copied \cup {Key(t)}
  /\ SwapDone(t)
  /\ UNCHANGED <<height, storeVars, cursor, timer, history, faults>>

Lost(t) == /\ dropped' = dropped \cup InHand(t)
           /\ unmarked' = unmarked \cup IF At(t, "mark") THEN {Key(t)} ELSE {}

(* Any later call for the wallet rejects: the rest of its swaps is         *)
(* dropped.  A publish whose answer is lost is a Publish, then this.       *)
Fail(t) ==
  /\ faults < MaxFaults /\ faults' = faults + 1
  /\ tick[t].at \in {"cursor", "begin", "scan", "decide", "publish", "mark"}
  /\ Lost(t)
  /\ WalletDone(t)
  /\ UNCHANGED <<height, store, timer, from, published, raced, overlapped>>

(* The process ends, as it does when listActiveWallets rejects, for the    *)
(* timer leaves that unhandled.                                            *)
Crash ==
  /\ timer \/ \E t \in Tick : ~At(t, "idle")
  /\ faults < MaxFaults /\ faults' = faults + 1
  /\ timer' = FALSE
  /\ tick' = [t \in Tick |-> Idle]
  /\ dropped' = dropped \cup UNION {InHand(t) : t \in Tick}
  /\ unmarked' = unmarked \cup UNION {IF At(t, "mark") THEN {Key(t)} ELSE {} : t \in Tick}
  /\ UNCHANGED <<height, store, from, published, raced, overlapped>>

Start ==
  /\ ~timer /\ timer' = TRUE
  /\ UNCHANGED <<height, store, tick, history, faults>>

(* A tick in flight goes on.                                               *)
Stop ==
  /\ timer /\ timer' = FALSE
  /\ UNCHANGED <<height, store, tick, history, faults>>

Grow ==
  /\ height < MaxBlock /\ height' = height + 1
  /\ UNCHANGED <<store, timer, tick, history, faults>>

-----------------------------------------------------------------------------
Step(t) == \/ ListWallets(t) \/ ReadHead(t) \/ ReadCursor(t) \/ Begin(t) \/ Scan(t)
           \/ Decide(t) \/ Publish(t) \/ Mark(t)

Next == \/ Start \/ Stop \/ Crash \/ Grow
        \/ \E t \in Tick : StartTick(t) \/ Step(t) \/ HeadFails(t) \/ Fail(t)
        \/ StoreNext /\ UNCHANGED <<height, cursor, copied, timer, tick, history, faults>>

(* Calls settle and the interval fires; faults are few.                    *)
Fairness == \A t \in Tick : WF_vars(StartTick(t) \/ Step(t))

Spec     == Init /\ [][Next]_vars
FairSpec == Spec /\ Fairness

-----------------------------------------------------------------------------
Label == {"idle", "list", "head", "cursor", "begin", "scan", "decide", "publish", "mark"}

TypeOK ==
  /\ height \in 0..MaxBlock /\ StoreTypeOK
  /\ cursor \in [Wallet -> NoCursor..MaxBlock] /\ copied \subseteq AllSwaps
  /\ timer \in BOOLEAN
  /\ DOMAIN tick = Tick
  /\ \A t \in Tick :
       /\ tick[t].at \in Label /\ tick[t].todo \subseteq Wallet
       /\ tick[t].at \in {"idle", "list", "head"} \/ tick[t].wallet \in Wallet
       /\ tick[t].safe \in 0..MaxBlock /\ tick[t].start \in 0..MaxBlock
       /\ InHand(t) \subseteq AllSwaps
       /\ tick[t].batch # {} <=> tick[t].at \in {"decide", "publish", "mark"}
  /\ from \in [Wallet -> NoCursor..MaxBlock] /\ published \in [AllSwaps -> Nat]
  /\ dropped \cup raced \cup unmarked \subseteq AllSwaps
  /\ overlapped \in BOOLEAN /\ faults \in 0..MaxFaults

(* watcher.ts:23-24: the cursor resumes with no gap.  What a wallet did    *)
(* since it was first scanned, up to its cursor, has been copied or is in  *)
(* a tick's hands, unless the tick that had it failed: no range is passed  *)
(* by, whatever the ticks that overlap, the lag of the heads they read and *)
(* the restarts.                                                           *)
GapOnlyByFailure ==
  \A p \in AllSwaps :
    p[2].block \in (from[p[1]] + 1)..cursor[p[1]]
      => p \in copied \cup dropped \/ \E t \in Tick : p \in InHand(t)

(* runner.ts:31-34: a swap is never mirrored twice.  It is when two ticks  *)
(* have it in hand together; otherwise only when its mark failed and, of   *)
(* two ticks that overlapped, the later one put the cursor back.           *)
TwiceOnlyInRace ==
  \A p \in AllSwaps : published[p] > 1 => p \in raced \/ (overlapped /\ p \in unmarked)

(* ports.ts, policy.ts: a copy is never larger than the wallet's ceiling,  *)
(* than what the leader's transaction spent at the wallet's rate, or than  *)
(* the position it is sold out of.                                         *)
CopyWithinMeans ==
  \A t \in Tick : At(t, "publish") =>
    LET w == tick[t].wallet
        rule == Rule[w]
        spent == {l.value : l \in {k \in Transfers : k.tx = Now(t).tx /\ k.from = Address[w]
                                                      /\ k.token \in Reference}}
    IN  IF Now(t).side = "sell" THEN tick[t].amount \in 1..tick[t].held
        ELSE /\ rule.max # Unset => tick[t].amount <= rule.max
             /\ rule.mode = "percent"
                  => \E v \in spent : /\ \A u \in spent : u <= v
                                      /\ tick[t].amount * BPS <= v * rule.sizeBps

(* A wallet that stays followed while the runner runs is scanned up to the *)
(* last confirmed block, whatever cursor a late tick put back and whatever *)
(* failed meanwhile.                                                       *)
CatchesUp ==
  \A w \in Wallet :
    <>[](timer /\ w \in followed /\ height = MaxBlock)
      => <>[](cursor[w] = MaxBlock - Confirmations)
=============================================================================
