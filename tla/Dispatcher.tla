----------------------------- MODULE Dispatcher -----------------------------
(***************************************************************************)
(* The notification dispatcher (packages/notify-core): an event becomes a  *)
(* message, which is routed by its severity, dropped when one with its key *)
(* was routed a short while ago, and sent to each channel in turn, within  *)
(* the channel's token bucket and with retries.  The subscriptions of      *)
(* bus.ts run their handlers side by side, so several messages are under   *)
(* way at once and share keys and buckets.                                 *)
(***************************************************************************)
EXTENDS Integers, Sequences, FiniteSets, FiniteSetsExt, Functions

CONSTANTS Handler,       \* handlers that may dispatch at the same time
          Flow,          \* correlation ids (here also the trade's and the token's)
          Route,         \* the channels of the routing rule, in order
          MinSeverity,   \* of the rule
          DedupeTtl, RateLimit, RateWindow, MaxRetries,
          LastInstant, MaxPublished

ASSUME DispatcherAssumption ==
    /\ MinSeverity \in 0..3 /\ RateLimit \in Nat \ {0}
    /\ DedupeTtl \in Nat /\ RateWindow \in Nat \ {0} /\ MaxRetries \in Nat
    /\ LastInstant \in Nat /\ MaxPublished \in Nat
    /\ Route \in Seq({Route[i] : i \in DOMAIN Route})
    /\ \A i, j \in DOMAIN Route : Route[i] = Route[j] => i = j

VARIABLES
    instant,    \* the time
    dedupe,     \* key -> when it was seen last, or Unseen
    buckets,    \* channel -> [tokens, refilledAt]; the latter Unseen: not there yet
    taken,      \* history: channel -> time -> tokens taken then
    sending,    \* Handler -> the channels still to come and the send under way
    published   \* events so far
dispatcherVars == <<instant, dedupe, buckets, taken, sending, published>>

Unseen == -1
Channel == {Route[i] : i \in DOMAIN Route}
Info == 0
Success == 1
Warning == 2
Critical == 3

(* formatEvent: what deserves a message, its severity and its dedupe key. *)
(* A failure that will be retried and the final one share their key.       *)
Event == [type : {"trade.executed", "trade.failed", "trade.retried", "risk.danger"}, of : Flow]
SeverityOf(e) == CASE e.type = "trade.executed" -> Success
                   [] e.type = "trade.retried" -> Warning
                   [] OTHER -> Critical
DedupeKey(e) == IF e.type = "trade.retried" THEN [e EXCEPT !.type = "trade.failed"] ELSE e

Resting == [rest |-> <<>>, attempt |-> 0, pc |-> "idle"]

DispatcherTypeOK ==
    /\ instant \in 0..LastInstant
    /\ dedupe \in [Event -> Int]
    /\ buckets \in [Channel -> [tokens : 0..RateLimit, refilledAt : Int]]
    /\ taken \in [Channel -> [0..LastInstant -> Nat]]
    /\ sending \in [Handler -> [rest : Seq(Channel), attempt : 0..MaxRetries,
                               pc : {"idle", "send", "wait"}]]
    /\ published \in 0..MaxPublished

DispatcherInit ==
    /\ instant = 0 /\ published = 0
    /\ dedupe = [k \in Event |-> Unseen]
    /\ buckets = [c \in Channel |-> [tokens |-> RateLimit, refilledAt |-> Unseen]]
    /\ taken = [c \in Channel |-> [t \in 0..LastInstant |-> 0]]
    /\ sending = [h \in Handler |-> Resting]

----------------------------------------------------------------------------
TimePasses ==
    /\ instant < LastInstant /\ instant' = instant + 1
    /\ UNCHANGED <<dedupe, buckets, taken, sending, published>>

(* #takeToken: a bucket is filled when it is made, and again as a whole    *)
(* once a window has gone by since                                         *)
RefilledUnstamped(c) == \* mutant: the time of the refill is not kept
    IF buckets[c].refilledAt = Unseen THEN [tokens |-> RateLimit, refilledAt |-> instant]
    ELSE IF instant - buckets[c].refilledAt >= RateWindow THEN [buckets[c] EXCEPT !.tokens = RateLimit]
    ELSE buckets[c]

Refilled(c) ==
    IF \/ buckets[c].refilledAt = Unseen
       \/ instant - buckets[c].refilledAt >= RateWindow
    THEN [tokens |-> RateLimit, refilledAt |-> instant]
    ELSE buckets[c]

(* The loop goes on to the next channel that has a token; the others are   *)
(* skipped, their message dropped                                          *)
Open(chs) == {i \in DOMAIN chs : Refilled(chs[i]).tokens > 0}

GoOn(h, chs) ==
    IF Open(chs) = {}
    THEN /\ sending' = [sending EXCEPT ![h] = Resting]
         /\ UNCHANGED <<buckets, taken>>
    ELSE LET i == Min(Open(chs))
             c == chs[i]
         IN /\ sending' = [sending EXCEPT ![h] = [rest |-> SubSeq(chs, i, Len(chs)),
                                                  attempt |-> 0, pc |-> "send"]]
            /\ buckets' = [buckets EXCEPT ![c] = [Refilled(c) EXCEPT !.tokens = @ - 1]]
            /\ taken' = [taken EXCEPT ![c][instant] = @ + 1]

(* dispatch(), up to the first send: the severity is looked at first, and  *)
(* the key is kept before anything has been sent                           *)
Routed(e) == SeverityOf(e) >= MinSeverity
Duplicate(e) == /\ dedupe[DedupeKey(e)] # Unseen
                /\ instant - dedupe[DedupeKey(e)] < DedupeTtl

Dispatch(h, e) ==
    /\ sending[h] = Resting
    /\ published < MaxPublished /\ published' = published + 1
    /\ IF Routed(e) /\ ~Duplicate(e)
       THEN /\ dedupe' = [dedupe EXCEPT ![DedupeKey(e)] = instant]
            /\ GoOn(h, Route)
       ELSE UNCHANGED <<dedupe, buckets, taken, sending>>
    /\ UNCHANGED instant

(* #sendWithRetry: the send succeeds, or fails for good (a 4xx, or the     *)
(* last attempt), and the next channel follows; a 5xx, a 429 or a broken   *)
(* connection is tried again after a pause                                 *)
Settled(h) ==
    /\ sending[h].pc = "send"
    /\ GoOn(h, Tail(sending[h].rest))
    /\ UNCHANGED <<instant, dedupe, published>>

BacksOffEndlessly(h) == \* mutant: the attempts are not counted
    /\ sending[h].pc = "send"
    /\ sending' = [sending EXCEPT ![h].pc = "wait"]
    /\ UNCHANGED <<instant, dedupe, buckets, taken, published>>

BacksOff(h) ==
    /\ sending[h].pc = "send" /\ sending[h].attempt < MaxRetries
    /\ sending' = [sending EXCEPT ![h].pc = "wait", ![h].attempt = @ + 1]
    /\ UNCHANGED <<instant, dedupe, buckets, taken, published>>

TriesAgain(h) ==
    /\ sending[h].pc = "wait"
    /\ sending' = [sending EXCEPT ![h].pc = "send"]
    /\ UNCHANGED <<instant, dedupe, buckets, taken, published>>

Sends(h) == Settled(h) \/ BacksOff(h) \/ TriesAgain(h)

DispatcherNext ==
    \/ TimePasses
    \/ \E h \in Handler : Sends(h) \/ \E e \in Event : Dispatch(h, e)

DispatcherSpec == DispatcherInit /\ [][DispatcherNext]_dispatcherVars

(* Requests settle and pauses end; nothing is assumed of events *)
DispatcherFairness == \A h \in Handler : WF_dispatcherVars(Sends(h))

----------------------------------------------------------------------------
TakenIn(c, from) ==
    SumFunctionOnSet(taken[c], {t \in 0..LastInstant : from <= t /\ t < from + RateWindow})

(* RateWithinTwice: no window of RateWindow, wherever it begins, sees more *)
(* than twice rateLimit messages go out on a channel, whatever the other   *)
(* handlers do between a refill and a send: the bucket is filled by whole  *)
(* windows and not steadily, so the limit itself (dispatcher.ts:24, "max   *)
(* sends per rateWindowMs") holds of its own windows only.                 *)
RateWithinTwice ==
    \A c \in Channel, from \in 0..LastInstant : TakenIn(c, from) <= 2 * RateLimit

(* DispatchReturns: a dispatch ends, however its channels fail, so the bus *)
(* goes on with the next event and later channels are not left out         *)
(* (dispatcher.ts:44, "A channel failing never blocks the others").        *)
DispatchReturns == \A h \in Handler : (sending[h] # Resting) ~> (sending[h] = Resting)
============================================================================
