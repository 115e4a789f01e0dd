------------------------------ MODULE Scanner ------------------------------
(***************************************************************************)
(* The pool scanner of one venue (packages/scanner-core): a timer starts a *)
(* tick, the tick scans the blocks between its cursor and the safe head,   *)
(* publishes pool.created and token.detected for each new pool that pairs  *)
(* with a reference token, and stores the cursor.  A call of a tick may    *)
(* fail, the process may restart, and stop() followed by start() may leave *)
(* two loops behind.                                                       *)
(*                                                                         *)
(* The store is the Drizzle one, which survives a restart, or the one in   *)
(* memory, which the worker uses and which does not.                       *)
(***************************************************************************)
EXTENDS Integers, FiniteSets

CONSTANTS Pool,          \* pools whose creation the venue's factory logs
          Block,         \* Pool -> the block that logs it
          Unusable,      \* pools whose log lacks a field (toPool gives undefined)
          Unquoted,      \* pools that pair no reference token
          Loop,          \* the timers and ticks there may be at once
          NoCursor, NoLoop,
          Confirmations, MaxBlockRange, FirstHead, LastHead,
          Lag,           \* how far the answering RPC endpoint may be behind
          MaxFaults      \* failing calls, restarts and stops, together

ASSUME ScannerAssumption ==
    /\ Block \in [Pool -> Nat] /\ Unusable \subseteq Pool /\ Unquoted \subseteq Pool
    /\ NoCursor \notin Int /\ NoLoop \notin Loop /\ IsFiniteSet(Loop)
    /\ Confirmations \in Nat /\ Lag \in Nat /\ MaxBlockRange \in Nat \ {0}
    /\ FirstHead \in Nat /\ LastHead \in Nat
    /\ MaxFaults \in Nat

VARIABLES
    head,       \* the chain's last block
    funded,     \* pools whose quote balance reached minQuoteLiquidity
    durable,    \* is the store the one in Postgres?
    cursor,     \* ScanCursorStore: last block scanned, or NoCursor
    seen,       \* SeenPoolStore
    running,    \* #running
    timer,      \* #timers of the venue: the loop whose timer was set last
    tick,       \* Loop -> what it is doing
    created,    \* Pool -> pool.created events published
    detected,   \* Pool -> token.detected events published
    base,       \* history: the first cursor of this store, or NoCursor
    excuse,     \* history: Pool -> occasions on which it may be announced again
    thin,       \* history: pools passed over for want of liquidity
    overlaps,   \* history: calls of start() while a tick was in flight
    faults      \* failing calls, restarts and stops so far

store == <<cursor, seen>>
chain == <<head, funded, durable>>
events == <<created, detected>>
history == <<base, excuse, thin, overlaps>>
vars == <<chain, store, running, timer, tick, events, history, faults>>

Off == [pc |-> "off", to |-> 0, todo |-> {}, at |-> {}]
Waiting == [Off EXCEPT !.pc = "timer"]
InTick == {"cursor", "first", "logs", "publish", "token", "mark"}
Alive(l) == tick[l].pc # "off"

(* A tick that found pool p unseen and has not marked it seen *)
Holds(l, p) == tick[l].at = {p} /\ tick[l].pc \in {"publish", "token", "mark"}

Stages == [pc : InTick \cup {"off", "timer"}, to : Int, todo : SUBSET Pool, at : SUBSET Pool]

TypeOK ==
    /\ head \in Int /\ funded \subseteq Pool /\ durable \in BOOLEAN
    /\ cursor \in Int \cup {NoCursor} /\ seen \subseteq Pool
    /\ running \in BOOLEAN /\ timer \in Loop \cup {NoLoop}
    /\ tick \in [Loop -> Stages]
    /\ created \in [Pool -> Nat] /\ detected \in [Pool -> Nat]
    /\ base \in Int \cup {NoCursor} /\ excuse \in [Pool -> Nat]
    /\ thin \subseteq Pool /\ overlaps \in Nat
    /\ faults \in 0..MaxFaults

Init ==
    /\ head = FirstHead /\ funded = {} /\ durable \in BOOLEAN
    /\ cursor = NoCursor /\ seen = {}
    /\ running = FALSE /\ timer = NoLoop /\ tick = [l \in Loop |-> Off]
    /\ created = [p \in Pool |-> 0] /\ detected = [p \in Pool |-> 0]
    /\ base = NoCursor /\ excuse = [p \in Pool |-> 0] /\ thin = {} /\ overlaps = 0
    /\ faults = 0

----------------------------------------------------------------------------
(* The chain grows, and somebody adds liquidity to a pool. *)
Mine ==
    /\ head < LastHead /\ head' = head + 1
    /\ UNCHANGED <<funded, durable, store, running, timer, tick, events, history, faults>>

Fund(p) ==
    /\ p \notin Unusable \cup Unquoted \cup funded /\ funded' = funded \cup {p}
    /\ UNCHANGED <<head, durable, store, running, timer, tick, events, history, faults>>

(* start(): nothing when it is running; a timer of its own otherwise, even *)
(* when a tick of an earlier start is in flight                            *)
Start(l) ==
    /\ ~running /\ tick[l].pc = "off"
    /\ running' = TRUE /\ timer' = l
    /\ tick' = [tick EXCEPT ![l] = Waiting]
    /\ overlaps' = IF \E m \in Loop : tick[m].pc \in InTick THEN overlaps + 1 ELSE overlaps
    /\ UNCHANGED <<chain, store, events, base, excuse, thin, faults>>

StopUncleared == \* mutant: the pending timer is left to fire
    /\ running /\ faults < MaxFaults /\ faults' = faults + 1
    /\ running' = FALSE /\ timer' = NoLoop
    /\ UNCHANGED <<chain, store, tick, events, history>>

(* stop(): clears the one timer the map holds for the venue *)
Stop ==
    /\ running /\ faults < MaxFaults /\ faults' = faults + 1
    /\ running' = FALSE /\ timer' = NoLoop
    /\ tick' = [l \in Loop |-> IF l = timer /\ tick[l].pc = "timer" THEN Off ELSE tick[l]]
    /\ UNCHANGED <<chain, store, events, history>>

(* schedule(): a tick that ends sets the next timer unless it was stopped *)
Schedule(l) ==
    /\ tick' = [tick EXCEPT ![l] = IF running THEN Waiting ELSE Off]
    /\ timer' = IF running THEN l ELSE timer

(* The timer fires, whether or not stop() was called since, and            *)
(* getBlockNumber answers, maybe from an endpoint that lags; `to` is the   *)
(* safe head                                                               *)
Fire(l, h) ==
    /\ tick[l].pc = "timer" /\ h \in (head - Lag)..head
    /\ tick' = [tick EXCEPT ![l].pc = "cursor", ![l].to = h - Confirmations]
    /\ UNCHANGED <<chain, store, running, timer, events, history, faults>>

(* The first run starts at the safe head, without looking back *)
FirstRun(l) ==
    /\ tick[l].pc = "cursor" /\ cursor = NoCursor
    /\ tick' = [tick EXCEPT ![l].pc = "first"]
    /\ UNCHANGED <<chain, store, running, timer, events, history, faults>>

SetFirst(l) ==
    /\ tick[l].pc = "first"
    /\ cursor' = tick[l].to
    /\ base' = IF base = NoCursor \/ base < tick[l].to THEN tick[l].to ELSE base
    /\ Schedule(l)
    /\ UNCHANGED <<chain, seen, running, events, excuse, thin, overlaps, faults>>

CaughtUp(l) ==
    /\ tick[l].pc = "cursor" /\ cursor # NoCursor /\ tick[l].to <= cursor
    /\ Schedule(l)
    /\ UNCHANGED <<chain, store, running, events, history, faults>>

(* The range to scan, and getLogs over it *)
RangeEnd(from, safe) == IF safe < from + MaxBlockRange THEN safe ELSE from + MaxBlockRange

GetLogsScanned(l) == \* mutant: the cursor is stored before the range is handled
    /\ tick[l].pc = "cursor" /\ cursor # NoCursor /\ tick[l].to > cursor
    /\ LET to == RangeEnd(cursor, tick[l].to)
       IN /\ cursor' = to
          /\ tick' = [tick EXCEPT ![l].pc = "logs", ![l].to = to,
                               ![l].todo = {p \in Pool : Block[p] > cursor /\ Block[p] <= to}]
    /\ UNCHANGED <<chain, seen, running, timer, events, history, faults>>

GetLogs(l) ==
    /\ tick[l].pc = "cursor" /\ cursor # NoCursor /\ tick[l].to > cursor
    /\ LET to == RangeEnd(cursor, tick[l].to)
       IN tick' = [tick EXCEPT ![l].pc = "logs", ![l].to = to,
                               ![l].todo = {p \in Pool : Block[p] > cursor /\ Block[p] <= to}]
    /\ UNCHANGED <<chain, store, running, timer, events, history, faults>>

(* A log is of use when it has every field of the venue's event (three      *)
(* addresses; a V3 fee or an Aerodrome flag), and its pool when one side   *)
(* is a reference token                                                    *)
ToPool(p) == p \notin Unusable
QuoteOf(p) == p \notin Unquoted

(* handleLog takes the logs in the order of their blocks *)
NextLog(l, p) ==
    /\ tick[l].pc = "logs" /\ p \in tick[l].todo
    /\ \A q \in tick[l].todo : Block[p] <= Block[q]

Drop(l, p) == tick' = [tick EXCEPT ![l].todo = @ \ {p}]

(* No usable log, or a pool seen before *)
PassOver(l, p) ==
    /\ NextLog(l, p) /\ (~ToPool(p) \/ p \in seen)
    /\ Drop(l, p)
    /\ UNCHANGED <<chain, store, running, timer, events, history, faults>>

(* A pool under the liquidity floor: nothing is published, and nothing is  *)
(* remembered.  A balance that cannot be read counts as 0.                 *)
TooThin(l, p) ==
    /\ NextLog(l, p) /\ ToPool(p) /\ p \notin seen /\ QuoteOf(p)
    /\ \/ p \notin funded /\ UNCHANGED faults
       \/ p \in funded /\ faults < MaxFaults /\ faults' = faults + 1
    /\ Drop(l, p)
    /\ thin' = thin \cup {p}
    /\ UNCHANGED <<chain, store, running, timer, events, base, excuse, overlaps>>

Irrelevant(l, p) ==
    /\ NextLog(l, p) /\ ToPool(p) /\ p \notin seen /\ ~QuoteOf(p)
    /\ seen' = seen \cup {p}
    /\ Drop(l, p)
    /\ UNCHANGED <<chain, cursor, running, timer, events, history, faults>>

(* A pool to announce; its token's metadata is read with fall-backs only. *)
(* Another tick may have it in hand already.                              *)
Take(l, p) ==
    /\ NextLog(l, p) /\ ToPool(p) /\ p \notin seen /\ QuoteOf(p) /\ p \in funded
    /\ tick' = [tick EXCEPT ![l].pc = "publish", ![l].at = {p}]
    /\ excuse' = IF \E m \in Loop \ {l} : Holds(m, p)
                 THEN [excuse EXCEPT ![p] = @ + 1] ELSE excuse
    /\ UNCHANGED <<chain, store, running, timer, events, base, thin, overlaps, faults>>

PublishPool(l, p) ==
    /\ tick[l].pc = "publish" /\ tick[l].at = {p}
    /\ created' = [created EXCEPT ![p] = @ + 1]
    /\ tick' = [tick EXCEPT ![l].pc = "token"]
    /\ UNCHANGED <<chain, store, running, timer, detected, history, faults>>

PublishToken(l, p) ==
    /\ tick[l].pc = "token" /\ tick[l].at = {p}
    /\ detected' = [detected EXCEPT ![p] = @ + 1]
    /\ tick' = [tick EXCEPT ![l].pc = "mark"]
    /\ UNCHANGED <<chain, store, running, timer, created, history, faults>>

MarkSeenNot(l, p) == \* mutant: an announced pool is not remembered
    /\ tick[l].pc = "mark" /\ tick[l].at = {p}
    /\ tick' = [tick EXCEPT ![l].pc = "logs", ![l].at = {}, ![l].todo = @ \ {p}]
    /\ UNCHANGED <<chain, store, running, timer, events, history, faults>>

MarkSeen(l, p) ==
    /\ tick[l].pc = "mark" /\ tick[l].at = {p}
    /\ seen' = seen \cup {p}
    /\ tick' = [tick EXCEPT ![l].pc = "logs", ![l].at = {}, ![l].todo = @ \ {p}]
    /\ UNCHANGED <<chain, cursor, running, timer, events, history, faults>>

(* The range is done: only now is the cursor stored *)
Advance(l) ==
    /\ tick[l].pc = "logs" /\ tick[l].todo = {}
    /\ cursor' = tick[l].to
    /\ Schedule(l)
    /\ UNCHANGED <<chain, seen, running, events, history, faults>>

(* A call of the tick rejects: the range will be scanned again, after the  *)
(* back-off (a publication or a mark that rejects may have taken effect).  *)
Unmarked(l, p) == Holds(l, p) /\ tick[l].pc # "publish"
Abandoned(l) == [p \in Pool |-> IF Unmarked(l, p) THEN excuse[p] + 1 ELSE excuse[p]]

TickFailsForGood(l) == \* mutant: a failed tick sets no timer
    /\ tick[l].pc \in InTick
    /\ faults < MaxFaults /\ faults' = faults + 1
    /\ excuse' = Abandoned(l)
    /\ tick' = [tick EXCEPT ![l] = Off]
    /\ UNCHANGED <<chain, store, running, timer, events, base, thin, overlaps>>

TickFails(l) ==
    /\ tick[l].pc \in InTick
    /\ faults < MaxFaults /\ faults' = faults + 1
    /\ excuse' = Abandoned(l)
    /\ Schedule(l)
    /\ UNCHANGED <<chain, store, running, events, base, thin, overlaps>>

(* The process ends and comes back: timers and ticks are gone, the store   *)
(* in memory too                                                           *)
Crash ==
    /\ faults < MaxFaults /\ faults' = faults + 1
    /\ running' = FALSE /\ timer' = NoLoop /\ tick' = [l \in Loop |-> Off]
    /\ excuse' = [p \in Pool |->
                    IF ~durable \/ \E l \in Loop : Unmarked(l, p) THEN excuse[p] + 1 ELSE excuse[p]]
    /\ IF durable THEN UNCHANGED <<store, base>>
       ELSE cursor' = NoCursor /\ seen' = {} /\ base' = NoCursor
    /\ UNCHANGED <<chain, events, thin, overlaps>>

TickStep(l) ==
    \/ FirstRun(l) \/ SetFirst(l) \/ CaughtUp(l) \/ GetLogs(l) \/ Advance(l)
    \/ \E h \in (head - Lag)..head : Fire(l, h)
    \/ \E p \in Pool :
          \/ PassOver(l, p) \/ TooThin(l, p) \/ Irrelevant(l, p) \/ Take(l, p)
          \/ PublishPool(l, p) \/ PublishToken(l, p) \/ MarkSeen(l, p)

Next ==
    \/ Mine \/ Stop \/ Crash
    \/ \E p \in Pool : Fund(p)
    \/ \E l \in Loop : Start(l) \/ TickStep(l) \/ TickFails(l)

(* Timers fire and calls answer; an endpoint does not answer with a stale  *)
(* head for ever.  Nothing is assumed of start(), stop(), failures.        *)
Spec == Init /\ [][Next]_vars
        /\ \A l \in Loop : WF_vars(TickStep(l)) /\ SF_vars(Fire(l, head))

----------------------------------------------------------------------------
(* A pool the scanner has to announce: it pairs a reference token and was  *)
(* created after the scanner's first cursor                                *)
InScope(p) == ToPool(p) /\ QuoteOf(p) /\ base # NoCursor /\ base < Block[p]

(* NoPoolPassedBy: a pool behind the cursor was announced, or found too    *)
(* thin, whatever calls fail, whenever the process restarts and however    *)
(* many loops move the cursor forth and back: it is stored only after the  *)
(* range was handled (scanner.ts:183-186).                                 *)
NoPoolPassedBy ==
    \A p \in Pool : InScope(p) /\ cursor # NoCursor /\ Block[p] <= cursor
                    => detected[p] > 0 \/ p \in thin

(* TwiceOnlyWithCause: token.detected goes out after pool.created, and     *)
(* either goes out again only for a tick that died with the pool           *)
(* published and not marked, a second tick that took it meanwhile, or a    *)
(* restart without a durable store.  (ports.ts promises that range         *)
(* overlaps never duplicate a pool.)                                       *)
TwiceOnlyWithCause ==
    \A p \in Pool : detected[p] <= created[p] /\ created[p] <= 1 + excuse[p]

(* LoopsOnlyByHandover: there is one polling loop, and one more for each   *)
(* start() that found a tick in flight: stop() clears the timer that was   *)
(* set last, and no loop schedules two timers (scanner.ts:99-125).         *)
LoopsOnlyByHandover == Cardinality({l \in Loop : Alive(l)}) <= 1 + overlaps

(* EventuallyAnnounced: a liquid pool below the safe head is announced, or *)
(* it was passed over while thin, unless the scanner is stopped or         *)
(* restarts without its cursor: failures delay a range and never skip it.  *)
EventuallyAnnounced ==
    \A p \in Pool :
        (running /\ InScope(p) /\ Block[p] <= head - Confirmations)
            ~> (detected[p] > 0 \/ p \in thin \/ ~running \/ ~InScope(p))
============================================================================
