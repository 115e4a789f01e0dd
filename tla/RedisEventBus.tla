---------------------------- MODULE RedisEventBus ----------------------------
(***************************************************************************)
(* RedisEventBus (packages/events/src/bus/redis.ts): one stream, one       *)
(* consumer group, and the consumers that read the group, each of them a   *)
(* #runLoop on a connection of its own.  XREADGROUP ">" hands out entries  *)
(* in stream order and never twice, so what a consumer has in hand is an   *)
(* interval head[c]..tail[c] of entry numbers.                             *)
(***************************************************************************)
EXTENDS Naturals, FiniteSets

CONSTANTS
  Consumer,    \* the subscriptions of one process to the group
  BatchSize,   \* COUNT of XREADGROUP (10 in the code)
  MaxLen,      \* bound: entries ever appended to the stream
  MaxFaults    \* bound: failed Redis calls and process crashes

ASSUME BusAssumption ==
  /\ IsFiniteSet(Consumer)
  /\ BatchSize \in Nat \ {0}
  /\ MaxLen \in Nat /\ MaxFaults \in Nat

VARIABLES
  len,        \* entries appended so far: entry i is the i-th XADD
  bad,        \* entries with no payload, or one parseEvent refuses
  group,      \* has XGROUP CREATE been done
  start,      \* the group's first position ("$" when it was created)
  lastId,     \* the group's last-delivered entry
  acked,      \* entries XACKed
  pc,         \* where each consumer's loop is
  head,       \* first entry of its batch it has not finished
  tail,       \* last entry of its batch
  stopping,   \* stop() was called on it
  closed,     \* #closed of the bus
  runs,       \* history: how many times a handler was given each entry
  succeeded,  \* history: entries whose handler resolved
  lastRun,    \* history: the entry each consumer last gave to a handler
  faults

redisVars == <<len, bad, group, start, lastId, acked>>
loopVars  == <<pc, head, tail>>
history   == <<runs, succeeded, lastRun>>
vars == <<redisVars, loopVars, stopping, closed, history, faults>>

Entry == 1..MaxLen
InHand == {"next", "handle", "ack"}
Phases == {"off", "check", "poll", "backoff", "done"} \cup InHand

(* What consumer c has read and not finished.                              *)
Remaining(c) == IF pc[c] \in InHand THEN head[c]..tail[c] ELSE {}

Stopped(c) == stopping[c] \/ closed

Goto(c, label) == pc' = [pc EXCEPT ![c] = label]

(* Mutant of Advance: the stop flag is looked at between two entries.      *)
AdvanceOrStop(c) == IF head[c] = tail[c] \/ Stopped(c)
                    THEN Goto(c, "check") /\ UNCHANGED <<head, tail>>
                    ELSE /\ Goto(c, "next")
                         /\ head' = [head EXCEPT ![c] = @ + 1]
                         /\ UNCHANGED tail

(* The rest of the loop body after one entry: the next entry of the batch, *)
(* or the loop condition when the batch is finished.                       *)
Advance(c) == IF head[c] = tail[c]
              THEN Goto(c, "check") /\ UNCHANGED <<head, tail>>
              ELSE /\ Goto(c, "next")
                   /\ head' = [head EXCEPT ![c] = @ + 1]
                   /\ UNCHANGED tail

Fault == faults < MaxFaults /\ faults' = faults + 1

Init ==
  /\ len = 0 /\ bad = {} /\ group = FALSE /\ start = 0 /\ lastId = 0 /\ acked = {}
  /\ pc = [c \in Consumer |-> "off"]
  /\ head = [c \in Consumer |-> 0] /\ tail = [c \in Consumer |-> 0]
  /\ stopping = [c \in Consumer |-> FALSE] /\ closed = FALSE
  /\ runs = [i \in Entry |-> 0] /\ succeeded = {} /\ lastRun = [c \in Consumer |-> 0]
  /\ faults = 0

(* publish(): the event is validated, then XADDed.  Other writers of the   *)
(* stream may append what parseEvent refuses.  A failed XADD appends       *)
(* nothing and rejects the publisher.                                      *)
Publish ==
  /\ len < MaxLen
  /\ len' = len + 1
  /\ bad' \in {bad, bad \cup {len + 1}}
  /\ UNCHANGED <<group, start, lastId, acked, loopVars, stopping, closed, history, faults>>

(* Mutant of Subscribe: every subscription moves the group to "$".         *)
SubscribeAtEnd(c) ==
  /\ pc[c] = "off"
  /\ group' = TRUE /\ start' = len /\ lastId' = len
  /\ Goto(c, "check")
  /\ UNCHANGED <<len, bad, acked, head, tail, stopping, closed, history, faults>>

(* subscribe(): #ensureGroup creates the group at "$", or finds it         *)
(* (BUSYGROUP), and the loop starts.                                       *)
Subscribe(c) ==
  /\ pc[c] = "off"
  /\ group' = TRUE
  /\ IF group THEN UNCHANGED <<start, lastId>> ELSE start' = len /\ lastId' = len
  /\ Goto(c, "check")
  /\ UNCHANGED <<len, bad, acked, head, tail, stopping, closed, history, faults>>

(* while (!isStopped() && !this.#closed): issue the blocking read, or end. *)
Check(c) ==
  /\ pc[c] = "check"
  /\ Goto(c, IF Stopped(c) THEN "done" ELSE "poll")
  /\ UNCHANGED <<redisVars, head, tail, stopping, closed, history, faults>>

(* The group hands out the next BatchSize entries, or all there are.       *)
Available == IF len - lastId < BatchSize THEN len - lastId ELSE BatchSize

Read(c) ==
  /\ pc[c] = "poll" /\ Available > 0
  /\ Goto(c, "next")
  /\ head' = [head EXCEPT ![c] = lastId + 1]
  /\ tail' = [tail EXCEPT ![c] = lastId + Available]
  /\ lastId' = lastId + Available
  /\ UNCHANGED <<len, bad, group, start, acked, stopping, closed, history, faults>>

(* BLOCK expired with nothing to read.                                     *)
ReadNothing(c) ==
  /\ pc[c] = "poll" /\ Available = 0
  /\ Goto(c, "check")
  /\ UNCHANGED <<redisVars, head, tail, stopping, closed, history, faults>>

(* Mutant of ReadFails: any error ends the loop.                           *)
ReadFailsForGood(c) ==
  /\ pc[c] = "poll" /\ Fault
  /\ lastId' \in {lastId, lastId + Available}
  /\ Goto(c, "done")
  /\ UNCHANGED <<len, bad, group, start, acked, head, tail, stopping, closed, history>>

(* XREADGROUP failed.  The server may have moved the group forward before  *)
(* the connection broke: those entries are then pending and in nobody's    *)
(* hands.                                                                  *)
ReadFails(c) ==
  /\ pc[c] = "poll" /\ Fault
  /\ lastId' \in {lastId, lastId + Available}
  /\ Goto(c, IF Stopped(c) THEN "done" ELSE "backoff")
  /\ UNCHANGED <<len, bad, group, start, acked, head, tail, stopping, closed, history>>

EndBackoff(c) ==
  /\ pc[c] = "backoff"
  /\ Goto(c, "check")
  /\ UNCHANGED <<redisVars, head, tail, stopping, closed, history, faults>>

(* #dispatch of an entry without a payload, or with one that does not      *)
(* parse: acknowledged and dropped.                                        *)
DropBad(c) ==
  /\ pc[c] = "next" /\ head[c] \in bad
  /\ acked' = acked \cup {head[c]}
  /\ Advance(c)
  /\ UNCHANGED <<len, bad, group, start, lastId, stopping, closed, history, faults>>

(* #dispatch of an event: the handler is called and awaited.               *)
CallHandler(c) ==
  /\ pc[c] = "next" /\ head[c] \notin bad
  /\ runs' = [runs EXCEPT ![head[c]] = @ + 1]
  /\ lastRun' = [lastRun EXCEPT ![c] = head[c]]
  /\ Goto(c, "handle")
  /\ UNCHANGED <<redisVars, head, tail, stopping, closed, succeeded, faults>>

HandlerResolves(c) ==
  /\ pc[c] = "handle"
  /\ succeeded' = succeeded \cup {head[c]}
  /\ Goto(c, "ack")
  /\ UNCHANGED <<redisVars, head, tail, stopping, closed, runs, lastRun, faults>>

(* The handler throws: logged, and the loop goes on with the next entry.   *)
HandlerThrows(c) ==
  /\ pc[c] = "handle"
  /\ Advance(c)
  /\ UNCHANGED <<redisVars, stopping, closed, history, faults>>

Ack(c) ==
  /\ pc[c] = "ack"
  /\ acked' = acked \cup {head[c]}
  /\ Advance(c)
  /\ UNCHANGED <<len, bad, group, start, lastId, stopping, closed, history, faults>>

(* XACK after a handler fails inside the same try: logged like a throw.    *)
AckFails(c) ==
  /\ pc[c] = "ack" /\ Fault
  /\ Advance(c)
  /\ UNCHANGED <<redisVars, stopping, closed, history>>

(* unsubscribe: stop(), then await the loop, which is Check's doing.       *)
Unsubscribe(c) ==
  /\ pc[c] \notin {"off", "done"} /\ ~stopping[c]
  /\ stopping' = [stopping EXCEPT ![c] = TRUE]
  /\ UNCHANGED <<redisVars, loopVars, closed, history, faults>>

(* close(): every consumer is stopped.                                     *)
Close ==
  /\ ~closed /\ closed' = TRUE
  /\ stopping' = [c \in Consumer |-> pc[c] \notin {"off", "done"} \/ stopping[c]]
  /\ UNCHANGED <<redisVars, loopVars, history, faults>>

(* The process dies: what its loops had in hand stays in the pending list  *)
(* of a consumer name nobody uses again (randomUUID per subscription).     *)
LoseProcess ==
  /\ pc' = [c \in Consumer |-> "off"]
  /\ head' = [c \in Consumer |-> 0] /\ tail' = [c \in Consumer |-> 0]
  /\ stopping' = [c \in Consumer |-> FALSE] /\ closed' = FALSE
  /\ UNCHANGED <<redisVars, history>>

Crash ==
  /\ Fault
  /\ \E c \in Consumer : pc[c] # "off"
  /\ LoseProcess

(* XACK of a dropped entry is outside the try: its failure rejects the     *)
(* loop's promise, which nobody handles, and that ends a Node process.     *)
DropBadFails(c) ==
  /\ pc[c] = "next" /\ head[c] \in bad /\ Fault
  /\ LoseProcess

Loop(c) == \/ Check(c) \/ Read(c) \/ ReadNothing(c) \/ EndBackoff(c)
           \/ DropBad(c) \/ CallHandler(c) \/ HandlerResolves(c) \/ HandlerThrows(c)
           \/ Ack(c)

Failure(c) == ReadFails(c) \/ AckFails(c) \/ DropBadFails(c)

Next == \/ Publish \/ Close \/ Crash
        \/ \E c \in Consumer : Subscribe(c) \/ Unsubscribe(c) \/ Loop(c) \/ Failure(c)

(* The event loop keeps running a consumer whose awaits complete: handlers *)
(* settle and Redis answers; a crashed process is restarted and subscribes *)
(* again at boot.                                                          *)
Fairness == \A c \in Consumer : WF_vars(Loop(c)) /\ WF_vars(Subscribe(c))

Spec     == Init /\ [][Next]_vars
FairSpec == Spec /\ Fairness

-----------------------------------------------------------------------------
TypeOK ==
  /\ len \in 0..MaxLen /\ bad \subseteq 1..len /\ group \in BOOLEAN
  /\ start \in 0..len /\ lastId \in start..len /\ acked \subseteq Entry
  /\ pc \in [Consumer -> Phases]
  /\ head \in [Consumer -> 0..MaxLen] /\ tail \in [Consumer -> 0..MaxLen]
  /\ stopping \in [Consumer -> BOOLEAN] /\ closed \in BOOLEAN
  /\ runs \in [Entry -> Nat] /\ succeeded \subseteq Entry
  /\ lastRun \in [Consumer -> 0..MaxLen]
  /\ faults \in 0..MaxFaults

(* An XACK is irrevocable: an entry is acknowledged only when its handler  *)
(* resolved, or when no handler could ever take it.                        *)
AckedWasSettled == acked \subseteq (bad \cup succeeded)

(* Through batches, failures, several consumers, crashes and restarts no   *)
(* entry is given to a handler twice.                                      *)
HandledAtMostOnce == \A i \in Entry : runs[i] <= 1

(* No two consumers hold the same entry, and nothing in hand has already   *)
(* been handed to a handler, except the entry the consumer is working on.  *)
Exclusive ==
  /\ \A c, d \in Consumer : c # d => Remaining(c) \cap Remaining(d) = {}
  /\ \A c \in Consumer : \A i \in Remaining(c) :
       runs[i] = IF pc[c] # "next" /\ i = head[c] THEN 1 ELSE 0

(* What has been read is in a batch, acknowledged, handed to a handler, or *)
(* lost with a crash or a broken reply; without those two nothing read is  *)
(* abandoned, whatever stop() and close() interrupt.                       *)
NothingAbandoned ==
  faults = 0 =>
    \A i \in (start + 1)..lastId :
      i \in acked \/ runs[i] = 1 \/ \E c \in Consumer : i \in Remaining(c)

(* A consumer gives its handler events in the order of the stream: none    *)
(* after a later one, across batches, failures, crashes and restarts.      *)
InStreamOrder ==
  [][\A c \in Consumer : lastRun'[c] # lastRun[c] => lastRun'[c] > lastRun[c]]_vars

Orphan(i) == /\ i \in 1..lastId /\ i > start /\ i \notin acked
             /\ \A c \in Consumer : i \notin Remaining(c)

(* An entry appended once the group exists reaches a handler or is         *)
(* dropped, unless every subscription was stopped or it was orphaned.      *)
EveryEntryDispatched ==
  \A i \in Entry :
    (group /\ i > start /\ i <= len)
      ~> \/ runs[i] > 0 \/ i \in acked \/ Orphan(i)
         \/ closed \/ \A c \in Consumer : stopping[c]

(* The life cycle of Delivery, read off the state.                         *)
PhaseOf(i) ==
  CASE i > len -> "absent"
    [] i <= len /\ (i <= start \/ ~group) -> "missed"
    [] i <= len /\ group /\ i > lastId -> "queued"
    [] i \in acked -> "settled"
    [] \E c \in Consumer : i \in Remaining(c) -> "taken"
    [] OTHER -> "orphaned"

D == INSTANCE Delivery WITH phase <- [i \in Entry |-> PhaseOf(i)]

(* Refinement: a subscription implements the at-most-once life cycle.      *)
DeliverySpec == D!Spec
=============================================================================
