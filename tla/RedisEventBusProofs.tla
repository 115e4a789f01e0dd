------------------------- MODULE RedisEventBusProofs -------------------------
(***************************************************************************)
(* What RedisEventBus guarantees for any number of consumers, any batch    *)
(* size and any stream: its type invariant, at-most-once handling, no      *)
(* acknowledgement before settlement, order, that without a fault nothing  *)
(* is left behind, and that it implements the one-way life cycle of        *)
(* Delivery.                                                               *)
(***************************************************************************)
EXTENDS RedisEventBus, TLAPS

(* Where the batches are: behind the group's position, ahead of everything *)
(* the consumer ran before, and pairwise disjoint.                         *)
Bounds ==
  /\ ~group => lastId = 0 /\ \A c \in Consumer : pc[c] = "off"
  /\ \A c \in Consumer : pc[c] \in InHand =>
       /\ start < head[c] /\ head[c] <= tail[c] /\ tail[c] <= lastId
       /\ lastRun[c] <= head[c]
       /\ pc[c] = "next" => lastRun[c] < head[c]
  /\ \A c \in Consumer : lastRun[c] <= lastId

Batches == Bounds /\ Exclusive

(* What the history says: handlers ran only on what was read, once, and    *)
(* acknowledgement came after.                                             *)
Settled ==
  /\ \A i \in Entry : i > lastId => runs[i] = 0
  /\ HandledAtMostOnce
  /\ acked \subseteq start+1..lastId
  /\ \A c \in Consumer : Remaining(c) \cap acked = {}
  /\ \A c \in Consumer : pc[c] = "ack" => head[c] \in succeeded
  /\ AckedWasSettled

IInv == TypeOK /\ Batches /\ Settled

-----------------------------------------------------------------------------
(* The constants are what the code gives them.                             *)
LEMMA Constants == BatchSize \in Nat \ {0} /\ MaxLen \in Nat /\ MaxFaults \in Nat
  BY BusAssumption

(* A read takes at most BatchSize entries and never past the end.          *)
LEMMA AvailableBound ==
  ASSUME TypeOK
  PROVE  Available \in Nat /\ lastId + Available <= len
  BY Constants DEF TypeOK, Available

(* What a consumer works on is an entry the group has handed out.          *)
LEMMA HeadIsRead ==
  ASSUME TypeOK, Batches, NEW c \in Consumer, pc[c] \in InHand
  PROVE  head[c] \in Entry /\ head[c] \in (start + 1)..lastId /\ head[c] <= tail[c]
  BY Constants DEF TypeOK, Batches, Bounds, Entry

(* Finishing an entry keeps the loop state well-typed.                     *)
LEMMA AdvanceType ==
  ASSUME TypeOK, NEW c \in Consumer, pc[c] \in InHand, head[c] <= tail[c], Advance(c)
  PROVE  /\ pc' \in [Consumer -> Phases]
         /\ head' \in [Consumer -> 0..MaxLen] /\ tail' \in [Consumer -> 0..MaxLen]
  <1>1. CASE head[c] = tail[c]
    BY <1>1 DEF Advance, TypeOK, Goto, Phases
  <1>2. CASE head[c] # tail[c]
    <2>1. head[c] + 1 \in 0..MaxLen
      BY <1>2, Constants DEF TypeOK
    <2>2. QED  BY <1>2, <2>1 DEF Advance, TypeOK, Goto, Phases, InHand
  <1>3. QED  BY <1>1, <1>2

(* The fault budget is never overdrawn.                                    *)
LEMMA FaultType ==
  ASSUME TypeOK, Fault
  PROVE  faults' \in 0..MaxFaults
  BY Constants DEF TypeOK, Fault

(* A process that died left a well-typed state.                            *)
LEMMA LoseProcessType ==
  ASSUME TypeOK, Fault, LoseProcess
  PROVE  TypeOK'
  <1>1. pc' \in [Consumer -> Phases]
    BY DEF LoseProcess, Phases
  <1>2. head' \in [Consumer -> 0..MaxLen] /\ tail' \in [Consumer -> 0..MaxLen]
    BY Constants DEF LoseProcess
  <1>3. stopping' \in [Consumer -> BOOLEAN] /\ closed' \in BOOLEAN
    BY DEF LoseProcess
  <1>4. QED  BY <1>1, <1>2, <1>3, FaultType DEF LoseProcess, TypeOK, redisVars, history, Entry

(* Every action keeps the types.                                           *)
LEMMA TypeStep ==
  ASSUME IInv, [Next]_vars
  PROVE  TypeOK'
  <1> USE Constants DEF IInv
  <1>1. CASE Publish
    BY <1>1 DEF Publish, TypeOK, Entry, Phases, InHand, Goto, redisVars, loopVars, history
  <1>2. CASE Close
    BY <1>2 DEF Close, TypeOK, Entry, Phases, InHand, Goto, redisVars, loopVars, history
  <1>3. CASE Crash
    BY <1>3, LoseProcessType DEF Crash
  <1>4. ASSUME NEW c \in Consumer, Subscribe(c)  PROVE TypeOK'
    BY <1>4 DEF Subscribe, TypeOK, Entry, Phases, InHand, Goto, redisVars, loopVars, history
  <1>5. ASSUME NEW c \in Consumer, Unsubscribe(c)  PROVE TypeOK'
    BY <1>5 DEF Unsubscribe, TypeOK, Entry, Phases, InHand, Goto, redisVars, loopVars, history
  <1>6. ASSUME NEW c \in Consumer, Check(c)  PROVE TypeOK'
    BY <1>6 DEF Check, TypeOK, Entry, Phases, InHand, Goto, redisVars, loopVars, history
  <1>7. ASSUME NEW c \in Consumer, Read(c)  PROVE TypeOK'
    <2>1. lastId + Available \in start..len /\ lastId + 1 \in 0..MaxLen /\ lastId + Available \in 0..MaxLen
      BY <1>7, AvailableBound DEF Read, TypeOK
    <2>2. pc' \in [Consumer -> Phases]
      BY <1>7 DEF Read, Goto, TypeOK, Phases, InHand
    <2>3. head' \in [Consumer -> 0..MaxLen] /\ tail' \in [Consumer -> 0..MaxLen]
      BY <1>7, <2>1 DEF Read, TypeOK
    <2>4. QED  BY <1>7, <2>1, <2>2, <2>3 DEF Read, TypeOK, history
  <1>8. ASSUME NEW c \in Consumer, ReadNothing(c)  PROVE TypeOK'
    BY <1>8 DEF ReadNothing, TypeOK, Entry, Phases, InHand, Goto, redisVars, loopVars, history
  <1>9. ASSUME NEW c \in Consumer, EndBackoff(c)  PROVE TypeOK'
    BY <1>9 DEF EndBackoff, TypeOK, Entry, Phases, InHand, Goto, redisVars, loopVars, history
  <1>10. ASSUME NEW c \in Consumer, DropBad(c)  PROVE TypeOK'
    <2>1. pc' \in [Consumer -> Phases] /\ head' \in [Consumer -> 0..MaxLen] /\ tail' \in [Consumer -> 0..MaxLen]
      BY <1>10, HeadIsRead, AdvanceType DEF DropBad, InHand
    <2>2. acked' \subseteq Entry
      BY <1>10, HeadIsRead DEF DropBad, TypeOK, InHand
    <2>3. QED  BY <1>10, <2>1, <2>2 DEF DropBad, TypeOK, Entry, history
  <1>11. ASSUME NEW c \in Consumer, CallHandler(c)  PROVE TypeOK'
    <2>1. head[c] \in Entry /\ runs[head[c]] + 1 \in Nat
      BY <1>11, HeadIsRead DEF CallHandler, TypeOK, InHand
    <2>2. pc' \in [Consumer -> Phases]
      BY <1>11 DEF CallHandler, Goto, TypeOK, Phases, InHand
    <2>3. runs' \in [Entry -> Nat] /\ lastRun' \in [Consumer -> 0..MaxLen]
      BY <1>11, <2>1 DEF CallHandler, TypeOK
    <2>4. QED  BY <1>11, <2>2, <2>3 DEF CallHandler, TypeOK, redisVars, Entry
  <1>12. ASSUME NEW c \in Consumer, HandlerResolves(c)  PROVE TypeOK'
    <2>1. succeeded' \subseteq Entry
      BY <1>12, HeadIsRead DEF HandlerResolves, TypeOK, InHand
    <2>2. pc' \in [Consumer -> Phases]
      BY <1>12 DEF HandlerResolves, Goto, TypeOK, Phases, InHand
    <2>3. QED  BY <1>12, <2>1, <2>2 DEF HandlerResolves, TypeOK, redisVars, Entry
  <1>13. ASSUME NEW c \in Consumer, HandlerThrows(c)  PROVE TypeOK'
    <2>1. pc' \in [Consumer -> Phases] /\ head' \in [Consumer -> 0..MaxLen] /\ tail' \in [Consumer -> 0..MaxLen]
      BY <1>13, HeadIsRead, AdvanceType DEF HandlerThrows, Batches, InHand
    <2>2. QED  BY <1>13, <2>1 DEF HandlerThrows, TypeOK, Entry, Phases, InHand, Goto, redisVars, loopVars, history
  <1>14. ASSUME NEW c \in Consumer, Ack(c)  PROVE TypeOK'
    <2>1. pc' \in [Consumer -> Phases] /\ head' \in [Consumer -> 0..MaxLen] /\ tail' \in [Consumer -> 0..MaxLen]
      BY <1>14, HeadIsRead, AdvanceType DEF Ack, InHand
    <2>2. acked' \subseteq Entry
      BY <1>14, HeadIsRead DEF Ack, TypeOK, InHand
    <2>3. QED  BY <1>14, <2>1, <2>2 DEF Ack, TypeOK, Entry, history
  <1>15. ASSUME NEW c \in Consumer, ReadFails(c)  PROVE TypeOK'
    <2>1. lastId' \in start..len
      BY <1>15, AvailableBound DEF ReadFails, TypeOK
    <2>2. pc' \in [Consumer -> Phases]
      BY <1>15 DEF ReadFails, Goto, TypeOK, Phases, InHand
    <2>3. QED  BY <1>15, <2>1, <2>2, FaultType DEF ReadFails, TypeOK, Entry, history
  <1>16. ASSUME NEW c \in Consumer, AckFails(c)  PROVE TypeOK'
    <2>1. pc' \in [Consumer -> Phases] /\ head' \in [Consumer -> 0..MaxLen] /\ tail' \in [Consumer -> 0..MaxLen]
      BY <1>16, HeadIsRead, AdvanceType DEF AckFails, Batches, InHand
    <2>2. QED  BY <1>16, <2>1, FaultType DEF AckFails, TypeOK, Entry, redisVars, history
  <1>17. ASSUME NEW c \in Consumer, DropBadFails(c)  PROVE TypeOK'
    BY <1>17, LoseProcessType DEF DropBadFails
  <1>18. CASE UNCHANGED vars
    BY <1>18 DEF vars, TypeOK, redisVars, loopVars, history
  <1> QED  BY <1>1, <1>2, <1>3, <1>4, <1>5, <1>6, <1>7, <1>8, <1>9, <1>10, <1>11, <1>12, <1>13, <1>14, <1>15, <1>16, <1>17, <1>18 DEF Next, Loop, Failure

-----------------------------------------------------------------------------
(* Moving one consumer between two places where it holds nothing changes   *)
(* nobody's batch.                                                         *)
LEMMA IdleMove ==
  ASSUME TypeOK, NEW c \in Consumer, NEW l, Goto(c, l), pc[c] \notin InHand, l \notin InHand,
         UNCHANGED <<head, tail>>
  PROVE  /\ \A d \in Consumer : Remaining(d)' = Remaining(d)
         /\ \A d \in Consumer : pc'[d] \in InHand => pc'[d] = pc[d]
  <1>1. pc'[c] = l /\ \A d \in Consumer \ {c} : pc'[d] = pc[d]
    BY DEF Goto, TypeOK
  <1>2. ASSUME NEW d \in Consumer  PROVE Remaining(d)' = Remaining(d)
    BY <1>1 DEF Remaining
  <1>3. QED  BY <1>1, <1>2

(* Advance finishes the head of one batch and touches no other.            *)
LEMMA AdvanceMove ==
  ASSUME TypeOK, Batches, NEW c \in Consumer, pc[c] \in InHand, Advance(c)
  PROVE  /\ \A d \in Consumer \ {c} : pc'[d] = pc[d] /\ head'[d] = head[d]
         /\ tail' = tail
         /\ \/ head[c] = tail[c] /\ pc'[c] = "check" /\ head'[c] = head[c]
            \/ head[c] < tail[c] /\ pc'[c] = "next" /\ head'[c] = head[c] + 1
         /\ \A d \in Consumer \ {c} : Remaining(d)' = Remaining(d)
         /\ Remaining(c)' = Remaining(c) \ {head[c]}
  <1>1. head[c] \in Nat /\ tail[c] \in Nat /\ head[c] <= tail[c]
    BY HeadIsRead, Constants DEF TypeOK
  <1>2. /\ \A d \in Consumer \ {c} : pc'[d] = pc[d] /\ head'[d] = head[d]
        /\ tail' = tail
        /\ \/ head[c] = tail[c] /\ pc'[c] = "check" /\ head'[c] = head[c]
           \/ head[c] < tail[c] /\ pc'[c] = "next" /\ head'[c] = head[c] + 1
    BY <1>1 DEF Advance, Goto, TypeOK
  <1>3. ASSUME NEW d \in Consumer \ {c}  PROVE Remaining(d)' = Remaining(d)
    BY <1>2 DEF Remaining
  <1>4. Remaining(c)' = Remaining(c) \ {head[c]}
    BY <1>1, <1>2 DEF Remaining, InHand
  <1>5. QED  BY <1>2, <1>3, <1>4

(* A consumer that reads holds exactly what the group had not given out.   *)
LEMMA ReadMove ==
  ASSUME TypeOK, Batches, NEW c \in Consumer, Read(c)
  PROVE  /\ \A d \in Consumer \ {c} : pc'[d] = pc[d] /\ head'[d] = head[d] /\ tail'[d] = tail[d]
         /\ pc'[c] = "next" /\ head'[c] = lastId + 1 /\ tail'[c] = lastId'
         /\ \A d \in Consumer \ {c} : Remaining(d)' = Remaining(d)
         /\ Remaining(c)' = (lastId + 1)..lastId'
         /\ lastId' \in Nat /\ lastId < lastId' /\ group
  <1>1. Available \in Nat /\ lastId \in Nat
    BY AvailableBound DEF TypeOK
  <1>2. /\ \A d \in Consumer \ {c} : pc'[d] = pc[d] /\ head'[d] = head[d] /\ tail'[d] = tail[d]
        /\ pc'[c] = "next" /\ head'[c] = lastId + 1 /\ tail'[c] = lastId'
        /\ lastId' = lastId + Available /\ Available > 0
    BY DEF Read, Goto, TypeOK
  <1>3. ASSUME NEW d \in Consumer \ {c}  PROVE Remaining(d)' = Remaining(d)
    BY <1>2 DEF Remaining
  <1>4. Remaining(c)' = (lastId + 1)..lastId'
    BY <1>2 DEF Remaining, InHand
  <1>5. group
    BY DEF Read, Batches, Bounds
  <1>6. QED  BY <1>1, <1>2, <1>3, <1>4, <1>5

(* What is in hand has been read and not yet been overtaken by the group.  *)
LEMMA RemainingIsRead ==
  ASSUME TypeOK, Batches, NEW c \in Consumer
  PROVE  Remaining(c) \subseteq (start + 1)..lastId /\ Remaining(c) \subseteq Entry
  BY Constants DEF TypeOK, Batches, Bounds, Remaining, Entry


(* Advancing keeps batches exclusive.                                      *)
LEMMA AdvanceExclusive ==
  ASSUME TypeOK, Batches, NEW c \in Consumer, pc[c] \in InHand, Advance(c), runs' = runs
  PROVE  Exclusive'
  <1>1. /\ \A d \in Consumer \ {c} : pc'[d] = pc[d] /\ head'[d] = head[d]
        /\ \A d \in Consumer \ {c} : Remaining(d)' = Remaining(d)
        /\ Remaining(c)' = Remaining(c) \ {head[c]}
        /\ pc'[c] \in {"check", "next"}
    BY AdvanceMove
  <1>2. pc'[c] = "check" => Remaining(c)' = {}
    BY DEF Remaining, InHand
  <1>3. QED  BY <1>1, <1>2 DEF Batches, Exclusive

(* The intervals stay behind the group and ahead of what was run.          *)
LEMMA BoundsStep ==
  ASSUME IInv, TypeOK', [Next]_vars
  PROVE  Bounds'
  <1> USE Constants DEF IInv, Batches, InHand
  <1>1. CASE Publish
    BY <1>1 DEF Publish, Bounds, TypeOK, Entry, Goto, redisVars, loopVars, history
  <1>2. CASE Close
    BY <1>2 DEF Close, Bounds, TypeOK, Entry, Goto, redisVars, loopVars, history
  <1>3. CASE Crash
    BY <1>3 DEF Crash, Bounds, TypeOK, Entry, Goto, redisVars, loopVars, history, LoseProcess
  <1>4. ASSUME NEW c \in Consumer, Subscribe(c)  PROVE Bounds'
    BY <1>4 DEF Subscribe, Bounds, TypeOK, Entry, Goto, redisVars, loopVars, history
  <1>5. ASSUME NEW c \in Consumer, Unsubscribe(c)  PROVE Bounds'
    BY <1>5 DEF Unsubscribe, Bounds, TypeOK, Entry, Goto, redisVars, loopVars, history
  <1>6. ASSUME NEW c \in Consumer, Check(c)  PROVE Bounds'
    BY <1>6 DEF Check, Bounds, TypeOK, Entry, Goto, redisVars, loopVars, history
  <1>7. ASSUME NEW c \in Consumer, Read(c)  PROVE Bounds'
    <2>1. /\ \A d \in Consumer \ {c} : pc'[d] = pc[d] /\ head'[d] = head[d] /\ tail'[d] = tail[d]
          /\ pc'[c] = "next" /\ head'[c] = lastId + 1 /\ tail'[c] = lastId'
          /\ lastId' \in Nat /\ lastId < lastId' /\ group
      BY <1>7, ReadMove
    <2>2. lastId' <= MaxLen /\ lastId \in Nat /\ start \in Nat /\ start <= lastId
      BY DEF TypeOK
    <2>3. UNCHANGED <<group, start, lastRun>>
      BY <1>7 DEF Read, history
    <2>4. lastRun[c] \in Nat /\ \A d \in Consumer : lastRun[d] \in Nat /\ tail[d] \in Nat
      BY DEF TypeOK
    <2>5. QED  BY <2>1, <2>2, <2>3, <2>4 DEF Bounds
  <1>8. ASSUME NEW c \in Consumer, ReadNothing(c)  PROVE Bounds'
    BY <1>8 DEF ReadNothing, Bounds, TypeOK, Entry, Goto, redisVars, loopVars, history
  <1>9. ASSUME NEW c \in Consumer, EndBackoff(c)  PROVE Bounds'
    BY <1>9 DEF EndBackoff, Bounds, TypeOK, Entry, Goto, redisVars, loopVars, history
  <1>10. ASSUME NEW c \in Consumer, DropBad(c)  PROVE Bounds'
    BY <1>10, AdvanceMove, HeadIsRead DEF DropBad, Bounds, TypeOK, redisVars, history
  <1>11. ASSUME NEW c \in Consumer, CallHandler(c)  PROVE Bounds'
    <2>1. /\ pc[c] = "next" /\ pc'[c] = "handle" /\ \A d \in Consumer \ {c} : pc'[d] = pc[d]
          /\ lastRun'[c] = head[c] /\ \A d \in Consumer \ {c} : lastRun'[d] = lastRun[d]
          /\ UNCHANGED <<group, start, lastId, head, tail>>
      BY <1>11 DEF CallHandler, TypeOK, Goto, redisVars
    <2>2. start < head[c] /\ head[c] <= tail[c] /\ tail[c] <= lastId /\ group
      BY <2>1 DEF Bounds
    <2>3. head[c] \in Nat /\ tail[c] \in Nat /\ lastId \in Nat
      BY DEF TypeOK
    <2>4. head[c] <= lastId
      BY <2>2, <2>3
    <2>5. QED  BY <2>1, <2>2, <2>3, <2>4 DEF Bounds
  <1>12. ASSUME NEW c \in Consumer, HandlerResolves(c)  PROVE Bounds'
    BY <1>12 DEF HandlerResolves, Bounds, TypeOK, Entry, Goto, redisVars, loopVars, history
  <1>13. ASSUME NEW c \in Consumer, HandlerThrows(c)  PROVE Bounds'
    BY <1>13, AdvanceMove, HeadIsRead DEF HandlerThrows, Bounds, TypeOK, redisVars, history
  <1>14. ASSUME NEW c \in Consumer, Ack(c)  PROVE Bounds'
    BY <1>14, AdvanceMove, HeadIsRead DEF Ack, Bounds, TypeOK, redisVars, history
  <1>15. ASSUME NEW c \in Consumer, ReadFails(c)  PROVE Bounds'
    <2>1. lastId <= lastId' /\ lastId' \in Nat /\ lastId \in Nat
      BY <1>15, AvailableBound DEF ReadFails, TypeOK
    <2>2. group /\ start' = start /\ UNCHANGED <<head, tail, lastRun>>
      BY <1>15 DEF ReadFails, Bounds, history
    <2>3. \A d \in Consumer : pc'[d] \in InHand => pc'[d] = pc[d]
      BY <1>15, IdleMove DEF ReadFails
    <2>4. QED  BY <1>15, <2>1, <2>2, <2>3 DEF ReadFails, Bounds, TypeOK
  <1>16. ASSUME NEW c \in Consumer, AckFails(c)  PROVE Bounds'
    BY <1>16, AdvanceMove, HeadIsRead DEF AckFails, Bounds, TypeOK, redisVars, history
  <1>17. ASSUME NEW c \in Consumer, DropBadFails(c)  PROVE Bounds'
    BY <1>17 DEF DropBadFails, Bounds, TypeOK, Entry, Goto, redisVars, loopVars, history, LoseProcess
  <1>18. CASE UNCHANGED vars
    BY <1>18 DEF vars, Bounds, redisVars, loopVars, history
  <1> QED  BY <1>1, <1>2, <1>3, <1>4, <1>5, <1>6, <1>7, <1>8, <1>9, <1>10, <1>11, <1>12, <1>13, <1>14, <1>15, <1>16, <1>17, <1>18 DEF Next, Loop, Failure

(* Batches stay disjoint, and unhandled but for their head.                *)
LEMMA ExclusiveStep ==
  ASSUME IInv, TypeOK', [Next]_vars
  PROVE  Exclusive'
  <1> USE Constants DEF IInv, Batches, InHand
  <1>1. CASE Publish
    BY <1>1 DEF Publish, Bounds, Exclusive, Remaining, TypeOK, Entry, Goto, redisVars, loopVars, history
  <1>2. CASE Close
    BY <1>2 DEF Close, Bounds, Exclusive, Remaining, TypeOK, Entry, Goto, redisVars, loopVars, history
  <1>3. CASE Crash
    BY <1>3 DEF Crash, Bounds, Exclusive, Remaining, TypeOK, Entry, Goto, redisVars, loopVars, history, LoseProcess
  <1>4. ASSUME NEW c \in Consumer, Subscribe(c)  PROVE Exclusive'
    <2>1. \A d \in Consumer : Remaining(d)' = Remaining(d) /\ (pc'[d] \in InHand => pc'[d] = pc[d])
      BY <1>4, IdleMove DEF Subscribe
    <2>2. \A d \in Consumer : \A i \in Remaining(d)' : pc'[d] \in InHand
      BY DEF Remaining
    <2>3. UNCHANGED <<head, runs>>
      BY <1>4 DEF Subscribe, loopVars, history
    <2>4. QED  BY <2>1, <2>2, <2>3 DEF Exclusive
  <1>5. ASSUME NEW c \in Consumer, Unsubscribe(c)  PROVE Exclusive'
    BY <1>5 DEF Unsubscribe, Bounds, Exclusive, Remaining, TypeOK, Entry, Goto, redisVars, loopVars, history
  <1>6. ASSUME NEW c \in Consumer, Check(c)  PROVE Exclusive'
    <2>1. \A d \in Consumer : Remaining(d)' = Remaining(d) /\ (pc'[d] \in InHand => pc'[d] = pc[d])
      BY <1>6, IdleMove DEF Check
    <2>2. \A d \in Consumer : \A i \in Remaining(d)' : pc'[d] \in InHand
      BY DEF Remaining
    <2>3. UNCHANGED <<head, runs>>
      BY <1>6 DEF Check, loopVars, history
    <2>4. QED  BY <2>1, <2>2, <2>3 DEF Exclusive
  <1>7. ASSUME NEW c \in Consumer, Read(c)  PROVE Exclusive'
    <2> DEFINE got == (lastId + 1)..lastId'
    <2>1. /\ \A d \in Consumer \ {c} : pc'[d] = pc[d] /\ head'[d] = head[d] /\ tail'[d] = tail[d]
          /\ pc'[c] = "next" /\ head'[c] = lastId + 1 /\ tail'[c] = lastId'
          /\ \A d \in Consumer \ {c} : Remaining(d)' = Remaining(d)
          /\ Remaining(c)' = got
          /\ lastId' \in Nat /\ lastId < lastId' /\ group
      BY <1>7, ReadMove
    <2>2. lastId' <= MaxLen /\ lastId \in Nat /\ start \in Nat /\ start <= lastId
      BY DEF TypeOK
    <2>3. \A d \in Consumer : Remaining(d) \cap got = {}
      BY <2>2, RemainingIsRead
    <2>4. \A i \in got : i \in Entry /\ i # 0 /\ runs[i] = 0
      BY <2>1, <2>2 DEF Settled, Entry
    <2>5. runs' = runs
      BY <1>7 DEF Read, history
    <2>6. lastId + 1 \in got
      BY <2>1, <2>2
    <2> HIDE DEF got
    <2>7. QED  BY <2>1, <2>3, <2>4, <2>5, <2>6 DEF Exclusive
  <1>8. ASSUME NEW c \in Consumer, ReadNothing(c)  PROVE Exclusive'
    <2>1. \A d \in Consumer : Remaining(d)' = Remaining(d) /\ (pc'[d] \in InHand => pc'[d] = pc[d])
      BY <1>8, IdleMove DEF ReadNothing
    <2>2. \A d \in Consumer : \A i \in Remaining(d)' : pc'[d] \in InHand
      BY DEF Remaining
    <2>3. UNCHANGED <<head, runs>>
      BY <1>8 DEF ReadNothing, loopVars, history
    <2>4. QED  BY <2>1, <2>2, <2>3 DEF Exclusive
  <1>9. ASSUME NEW c \in Consumer, EndBackoff(c)  PROVE Exclusive'
    <2>1. \A d \in Consumer : Remaining(d)' = Remaining(d) /\ (pc'[d] \in InHand => pc'[d] = pc[d])
      BY <1>9, IdleMove DEF EndBackoff
    <2>2. \A d \in Consumer : \A i \in Remaining(d)' : pc'[d] \in InHand
      BY DEF Remaining
    <2>3. UNCHANGED <<head, runs>>
      BY <1>9 DEF EndBackoff, loopVars, history
    <2>4. QED  BY <2>1, <2>2, <2>3 DEF Exclusive
  <1>10. ASSUME NEW c \in Consumer, DropBad(c)  PROVE Exclusive'
    BY <1>10, AdvanceExclusive DEF DropBad, redisVars, history
  <1>11. ASSUME NEW c \in Consumer, CallHandler(c)  PROVE Exclusive'
    <2>1. \A d \in Consumer : Remaining(d)' = Remaining(d)
      BY <1>11 DEF CallHandler, Remaining, Goto, TypeOK
    <2>2. head[c] \in Remaining(c) /\ head[c] \in Entry
      BY <1>11, HeadIsRead, Constants DEF CallHandler, Remaining, TypeOK
    <2>3. \A d \in Consumer \ {c} : pc'[d] = pc[d]
      BY <1>11 DEF CallHandler, Goto, TypeOK
    <2>4. pc'[c] = "handle" /\ head' = head
      BY <1>11 DEF CallHandler, Goto, TypeOK
    <2>5. runs'[head[c]] = 1 /\ \A i \in Entry \ {head[c]} : runs'[i] = runs[i]
      BY <1>11, <2>2 DEF CallHandler, Exclusive, TypeOK
    <2>6. \A d \in Consumer \ {c} : head[c] \notin Remaining(d)
      BY <2>2 DEF Exclusive
    <2>7. \A d \in Consumer : Remaining(d) \subseteq Entry
      BY RemainingIsRead
    <2>8. QED  BY <1>11, <2>1, <2>2, <2>3, <2>4, <2>5, <2>6, <2>7 DEF Exclusive, CallHandler
  <1>12. ASSUME NEW c \in Consumer, HandlerResolves(c)  PROVE Exclusive'
    BY <1>12 DEF HandlerResolves, Bounds, Exclusive, Remaining, TypeOK, Entry, Goto, redisVars, loopVars, history
  <1>13. ASSUME NEW c \in Consumer, HandlerThrows(c)  PROVE Exclusive'
    BY <1>13, AdvanceExclusive DEF HandlerThrows, redisVars, history
  <1>14. ASSUME NEW c \in Consumer, Ack(c)  PROVE Exclusive'
    BY <1>14, AdvanceExclusive DEF Ack, redisVars, history
  <1>15. ASSUME NEW c \in Consumer, ReadFails(c)  PROVE Exclusive'
    <2>1. \A d \in Consumer : Remaining(d)' = Remaining(d) /\ (pc'[d] \in InHand => pc'[d] = pc[d])
      BY <1>15, IdleMove DEF ReadFails
    <2>2. \A d \in Consumer : \A i \in Remaining(d)' : pc'[d] \in InHand
      BY DEF Remaining
    <2>3. UNCHANGED <<head, runs>>
      BY <1>15 DEF ReadFails, loopVars, history
    <2>4. QED  BY <2>1, <2>2, <2>3 DEF Exclusive
  <1>16. ASSUME NEW c \in Consumer, AckFails(c)  PROVE Exclusive'
    BY <1>16, AdvanceExclusive DEF AckFails, redisVars, history
  <1>17. ASSUME NEW c \in Consumer, DropBadFails(c)  PROVE Exclusive'
    BY <1>17 DEF DropBadFails, Bounds, Exclusive, Remaining, TypeOK, Entry, Goto, redisVars, loopVars, history, LoseProcess
  <1>18. CASE UNCHANGED vars
    BY <1>18 DEF vars, Bounds, Exclusive, Remaining, redisVars, loopVars, history
  <1> QED  BY <1>1, <1>2, <1>3, <1>4, <1>5, <1>6, <1>7, <1>8, <1>9, <1>10, <1>11, <1>12, <1>13, <1>14, <1>15, <1>16, <1>17, <1>18 DEF Next, Loop, Failure

(* Handlers run once, acknowledgement comes after.                         *)
LEMMA SettledStep ==
  ASSUME IInv, TypeOK', Exclusive', [Next]_vars
  PROVE  Settled'
  <1> USE Constants DEF IInv, Batches
  <1>1. CASE Publish
    BY <1>1 DEF Publish, Settled, HandledAtMostOnce, AckedWasSettled, Remaining, InHand, redisVars, loopVars, history
  <1>2. CASE Close
    BY <1>2 DEF Close, Settled, HandledAtMostOnce, AckedWasSettled, Remaining, InHand, redisVars, loopVars, history
  <1>3. CASE Crash
    BY <1>3 DEF Crash, Settled, HandledAtMostOnce, AckedWasSettled, Remaining, InHand, redisVars, loopVars, history, LoseProcess
  <1>4. ASSUME NEW c \in Consumer, Subscribe(c)  PROVE Settled'
    <2>1. \A d \in Consumer : Remaining(d)' = Remaining(d) /\ (pc'[d] \in InHand => pc'[d] = pc[d])
      BY <1>4, IdleMove DEF Subscribe, InHand
    <2>2. acked' \subseteq (start' + 1)..lastId' /\ \A i \in Entry : i > lastId' => runs[i] = 0
      <3>1. CASE group
        BY <1>4, <3>1 DEF Subscribe, Settled
      <3>2. CASE ~group
        <4>1. acked = {} /\ \A i \in Entry : runs[i] = 0
          BY <3>2 DEF Settled, Bounds, TypeOK, Entry
        <4>2. QED  BY <1>4, <4>1 DEF Subscribe
      <3>3. QED  BY <3>1, <3>2
    <2>3. QED  BY <1>4, <2>1, <2>2 DEF Subscribe, Settled, HandledAtMostOnce, AckedWasSettled, InHand, history
  <1>5. ASSUME NEW c \in Consumer, Unsubscribe(c)  PROVE Settled'
    BY <1>5 DEF Unsubscribe, Settled, HandledAtMostOnce, AckedWasSettled, Remaining, InHand, redisVars, loopVars, history
  <1>6. ASSUME NEW c \in Consumer, Check(c)  PROVE Settled'
    <2>1. \A d \in Consumer : Remaining(d)' = Remaining(d) /\ (pc'[d] \in InHand => pc'[d] = pc[d])
      BY <1>6, IdleMove DEF Check, InHand
    <2>2. QED  BY <1>6, <2>1 DEF Check, Settled, HandledAtMostOnce, AckedWasSettled, InHand, redisVars, history
  <1>7. ASSUME NEW c \in Consumer, Read(c)  PROVE Settled'
    <2> DEFINE got == (lastId + 1)..lastId'
    <2>1. /\ \A d \in Consumer \ {c} : pc'[d] = pc[d] /\ head'[d] = head[d] /\ tail'[d] = tail[d]
          /\ pc'[c] = "next" /\ head'[c] = lastId + 1 /\ tail'[c] = lastId'
          /\ \A d \in Consumer \ {c} : Remaining(d)' = Remaining(d)
          /\ Remaining(c)' = got
          /\ lastId' \in Nat /\ lastId < lastId' /\ group
      BY <1>7, ReadMove
    <2>2. lastId' <= MaxLen /\ lastId \in Nat /\ start \in Nat /\ start <= lastId
      BY DEF TypeOK
    <2>3. got \cap acked = {}
      BY <2>1, <2>2 DEF Settled
    <2>4. UNCHANGED <<start, bad, acked, runs, succeeded>>
      BY <1>7 DEF Read, history
    <2>5. acked \subseteq (start + 1)..lastId'
      BY <2>1, <2>2 DEF Settled
    <2> HIDE DEF got
    <2>6. QED  BY <2>1, <2>2, <2>3, <2>4, <2>5 DEF Settled, HandledAtMostOnce, AckedWasSettled, Entry
  <1>8. ASSUME NEW c \in Consumer, ReadNothing(c)  PROVE Settled'
    <2>1. \A d \in Consumer : Remaining(d)' = Remaining(d) /\ (pc'[d] \in InHand => pc'[d] = pc[d])
      BY <1>8, IdleMove DEF ReadNothing, InHand
    <2>2. QED  BY <1>8, <2>1 DEF ReadNothing, Settled, HandledAtMostOnce, AckedWasSettled, InHand, redisVars, history
  <1>9. ASSUME NEW c \in Consumer, EndBackoff(c)  PROVE Settled'
    <2>1. \A d \in Consumer : Remaining(d)' = Remaining(d) /\ (pc'[d] \in InHand => pc'[d] = pc[d])
      BY <1>9, IdleMove DEF EndBackoff, InHand
    <2>2. QED  BY <1>9, <2>1 DEF EndBackoff, Settled, HandledAtMostOnce, AckedWasSettled, InHand, redisVars, history
  <1>10. ASSUME NEW c \in Consumer, DropBad(c)  PROVE Settled'
    <2>1. /\ \A d \in Consumer \ {c} : pc'[d] = pc[d] /\ head'[d] = head[d]
          /\ pc'[c] \in {"check", "next"}
          /\ \A d \in Consumer \ {c} : Remaining(d)' = Remaining(d)
          /\ Remaining(c)' = Remaining(c) \ {head[c]}
      BY <1>10, AdvanceMove DEF DropBad, InHand
    <2>2. head[c] \in (start + 1)..lastId /\ head[c] \in Remaining(c)
      BY <1>10, HeadIsRead DEF DropBad, InHand, Remaining, TypeOK
    <2>3. \A d \in Consumer \ {c} : head[c] \notin Remaining(d)
      BY <2>2 DEF Exclusive
    <2>4. /\ UNCHANGED <<bad, start, lastId, runs, succeeded>>
          /\ acked' = acked \cup {head[c]} /\ head[c] \in bad
      BY <1>10 DEF DropBad, history
    <2>5. AckedWasSettled'
      BY <2>4 DEF Settled, AckedWasSettled
    <2>6. acked' \subseteq (start' + 1)..lastId' /\ \A d \in Consumer : Remaining(d)' \cap acked' = {}
      BY <2>1, <2>2, <2>3, <2>4 DEF Settled
    <2>7. QED  BY <2>1, <2>4, <2>5, <2>6 DEF Settled, HandledAtMostOnce
  <1>11. ASSUME NEW c \in Consumer, CallHandler(c)  PROVE Settled'
    <2>1. runs' = [runs EXCEPT ![head[c]] = @ + 1] /\ head[c] \in Remaining(c) /\ head[c] \in Entry
      BY <1>11, HeadIsRead DEF CallHandler, InHand, Remaining, TypeOK
    <2>2. runs[head[c]] = 0
      BY <1>11, <2>1 DEF CallHandler, Exclusive
    <2>3. \A d \in Consumer : Remaining(d)' = Remaining(d) /\ (pc'[d] = "ack" => pc[d] = "ack")
      BY <1>11 DEF CallHandler, Remaining, InHand, Goto, TypeOK
    <2>4. head[c] <= lastId
      BY <1>11, HeadIsRead DEF CallHandler, InHand, TypeOK
    <2>5. \A i \in Entry : i > lastId => runs'[i] = 0
      BY <2>1, <2>4 DEF Settled, TypeOK, Entry
    <2>6. HandledAtMostOnce'
      BY <2>1, <2>2 DEF Settled, HandledAtMostOnce, TypeOK
    <2>7. QED  BY <1>11, <2>3, <2>5, <2>6 DEF CallHandler, Settled, AckedWasSettled, redisVars
  <1>12. ASSUME NEW c \in Consumer, HandlerResolves(c)  PROVE Settled'
    <2>1. \A d \in Consumer : Remaining(d)' = Remaining(d) /\ (pc'[d] = "ack" => pc[d] = "ack" \/ d = c)
      BY <1>12 DEF HandlerResolves, Remaining, InHand, Goto, TypeOK
    <2>2. QED  BY <1>12, <2>1 DEF HandlerResolves, Settled, HandledAtMostOnce, AckedWasSettled, redisVars
  <1>13. ASSUME NEW c \in Consumer, HandlerThrows(c)  PROVE Settled'
    <2>1. /\ \A d \in Consumer \ {c} : pc'[d] = pc[d] /\ head'[d] = head[d]
          /\ pc'[c] \in {"check", "next"}
          /\ \A d \in Consumer \ {c} : Remaining(d)' = Remaining(d)
          /\ Remaining(c)' = Remaining(c) \ {head[c]}
      BY <1>13, AdvanceMove DEF HandlerThrows, InHand
    <2>2. head[c] \in (start + 1)..lastId /\ head[c] \in Remaining(c)
      BY <1>13, HeadIsRead DEF HandlerThrows, InHand, Remaining, TypeOK
    <2>3. \A d \in Consumer \ {c} : head[c] \notin Remaining(d)
      BY <2>2 DEF Exclusive
    <2>4. QED  BY <1>13, <2>1, <2>2, <2>3 DEF HandlerThrows, Settled, HandledAtMostOnce, AckedWasSettled, redisVars, history
  <1>14. ASSUME NEW c \in Consumer, Ack(c)  PROVE Settled'
    <2>1. /\ \A d \in Consumer \ {c} : pc'[d] = pc[d] /\ head'[d] = head[d]
          /\ pc'[c] \in {"check", "next"}
          /\ \A d \in Consumer \ {c} : Remaining(d)' = Remaining(d)
          /\ Remaining(c)' = Remaining(c) \ {head[c]}
      BY <1>14, AdvanceMove DEF Ack, InHand
    <2>2. head[c] \in (start + 1)..lastId /\ head[c] \in Remaining(c)
      BY <1>14, HeadIsRead DEF Ack, InHand, Remaining, TypeOK
    <2>3. \A d \in Consumer \ {c} : head[c] \notin Remaining(d)
      BY <2>2 DEF Exclusive
    <2>4. QED  BY <1>14, <2>1, <2>2, <2>3 DEF Ack, Settled, HandledAtMostOnce, AckedWasSettled, redisVars, history
  <1>15. ASSUME NEW c \in Consumer, ReadFails(c)  PROVE Settled'
    <2>1. \A d \in Consumer : Remaining(d)' = Remaining(d) /\ (pc'[d] \in InHand => pc'[d] = pc[d])
      BY <1>15, IdleMove DEF ReadFails, InHand
    <2>2. lastId <= lastId' /\ lastId' \in Nat /\ lastId \in Nat
      BY <1>15, AvailableBound DEF ReadFails, TypeOK
    <2>3. QED  BY <1>15, <2>1, <2>2 DEF ReadFails, Settled, HandledAtMostOnce, AckedWasSettled, InHand, TypeOK, history
  <1>16. ASSUME NEW c \in Consumer, AckFails(c)  PROVE Settled'
    <2>1. /\ \A d \in Consumer \ {c} : pc'[d] = pc[d] /\ head'[d] = head[d]
          /\ pc'[c] \in {"check", "next"}
          /\ \A d \in Consumer \ {c} : Remaining(d)' = Remaining(d)
          /\ Remaining(c)' = Remaining(c) \ {head[c]}
      BY <1>16, AdvanceMove DEF AckFails, InHand
    <2>2. head[c] \in (start + 1)..lastId /\ head[c] \in Remaining(c)
      BY <1>16, HeadIsRead DEF AckFails, InHand, Remaining, TypeOK
    <2>3. \A d \in Consumer \ {c} : head[c] \notin Remaining(d)
      BY <2>2 DEF Exclusive
    <2>4. QED  BY <1>16, <2>1, <2>2, <2>3 DEF AckFails, Settled, HandledAtMostOnce, AckedWasSettled, redisVars, history
  <1>17. ASSUME NEW c \in Consumer, DropBadFails(c)  PROVE Settled'
    BY <1>17 DEF DropBadFails, Settled, HandledAtMostOnce, AckedWasSettled, Remaining, InHand, redisVars, loopVars, history, LoseProcess
  <1>18. CASE UNCHANGED vars
    BY <1>18 DEF vars, Settled, HandledAtMostOnce, AckedWasSettled, Remaining, redisVars, loopVars, history
  <1> QED  BY <1>1, <1>2, <1>3, <1>4, <1>5, <1>6, <1>7, <1>8, <1>9, <1>10, <1>11, <1>12, <1>13, <1>14, <1>15, <1>16, <1>17, <1>18 DEF Next, Loop, Failure

-----------------------------------------------------------------------------
(* The inductive invariant: batches, history and types together.  None of  *)
(* the three is preserved without the others: that an entry just read has  *)
(* run nowhere comes from the history, that a head is handled once comes   *)
(* from batches being disjoint, and the history from the batches' bounds.  *)
THEOREM BusInvariant == Spec => []IInv
  <1>1. Init => IInv
    <2> SUFFICES ASSUME Init  PROVE IInv
      OBVIOUS
    <2>1. TypeOK
      <3>1. head \in [Consumer -> 0..MaxLen] /\ tail \in [Consumer -> 0..MaxLen]
            /\ lastRun \in [Consumer -> 0..MaxLen]
        BY Constants DEF Init
      <3>2. len \in 0..MaxLen /\ start \in 0..len /\ lastId \in start..len /\ faults \in 0..MaxFaults
        BY Constants DEF Init
      <3>3. stopping \in [Consumer -> BOOLEAN] /\ closed \in BOOLEAN /\ group \in BOOLEAN
        BY DEF Init
      <3>4. pc \in [Consumer -> Phases] /\ runs \in [Entry -> Nat]
        BY DEF Init, Phases
      <3>5. bad \subseteq 1..len /\ acked \subseteq Entry /\ succeeded \subseteq Entry
        BY DEF Init
      <3>6. QED  BY <3>1, <3>2, <3>3, <3>4, <3>5 DEF TypeOK
    <2>2. Bounds /\ Exclusive
      BY DEF Init, Bounds, Exclusive, Remaining, InHand
    <2>3. Settled
      BY Constants DEF Init, Settled, Remaining, InHand, HandledAtMostOnce, AckedWasSettled, Entry
    <2>4. QED  BY <2>1, <2>2, <2>3 DEF IInv, Batches
  <1>2. IInv /\ [Next]_vars => IInv'
    <2> SUFFICES ASSUME IInv, [Next]_vars  PROVE IInv'
      OBVIOUS
    <2>1. TypeOK'      BY TypeStep
    <2>2. Bounds'      BY <2>1, BoundsStep
    <2>3. Exclusive'   BY <2>1, ExclusiveStep
    <2>4. Settled'     BY <2>1, <2>3, SettledStep
    <2>5. QED  BY <2>1, <2>2, <2>3, <2>4 DEF IInv, Batches
  <1>3. QED  BY <1>1, <1>2, PTL DEF Spec

(* The state is always well-typed.                                         *)
THEOREM TypeCorrect == Spec => []TypeOK
  BY BusInvariant, PTL DEF IInv

(* #dispatch never acknowledges what no handler resolved, poison apart.    *)
THEOREM NoEarlyAck == Spec => []AckedWasSettled
  BY BusInvariant, PTL DEF IInv, Settled

(* No entry reaches a handler twice, whatever fails, crashes or restarts.  *)
THEOREM AtMostOnce == Spec => []HandledAtMostOnce
  BY BusInvariant, PTL DEF IInv, Settled

(* Each consumer's handler sees the stream in order.                       *)
THEOREM Ordered == Spec => InStreamOrder
  <1>1. IInv /\ [Next]_vars =>
          [\A c \in Consumer : lastRun'[c] # lastRun[c] => lastRun'[c] > lastRun[c]]_vars
    <2> SUFFICES ASSUME IInv, Next, NEW d \in Consumer, lastRun'[d] # lastRun[d]
                 PROVE  lastRun'[d] > lastRun[d]
      OBVIOUS
    <2>1. PICK c \in Consumer : CallHandler(c)
      <3>1. ASSUME NEW c \in Consumer, Subscribe(c) \/ Unsubscribe(c) \/ Loop(c) \/ Failure(c),
                   ~CallHandler(c)
            PROVE  lastRun' = lastRun
        BY <3>1 DEF Subscribe, Unsubscribe, Loop, Failure, Check, Read, ReadNothing, EndBackoff,
             DropBad, HandlerResolves, HandlerThrows, Ack, ReadFails, AckFails, DropBadFails,
             LoseProcess, history
      <3>2. Publish \/ Close \/ Crash => lastRun' = lastRun
        BY DEF Publish, Close, Crash, LoseProcess, history
      <3>3. QED  BY <3>1, <3>2 DEF Next
    <2>2. lastRun' = [lastRun EXCEPT ![c] = head[c]] /\ pc[c] = "next"
      BY <2>1 DEF CallHandler
    <2>3. d = c /\ lastRun'[c] = head[c]
      BY <2>2 DEF IInv, TypeOK
    <2>4. lastRun[c] < head[c] /\ lastRun[c] \in Nat /\ head[c] \in Nat
      BY <2>2, Constants DEF IInv, TypeOK, Batches, Bounds, InHand
    <2>5. QED  BY <2>3, <2>4
  <1>2. QED  BY <1>1, BusInvariant, PTL DEF Spec, InStreamOrder

-----------------------------------------------------------------------------
(* Where every entry is that the group has handed out.                     *)
Tracked(i) == i \in acked \/ runs[i] = 1 \/ \E c \in Consumer : i \in Remaining(c)

(* The entry a consumer finishes was acknowledged or given to a handler;   *)
(* nobody loses any other.                                                 *)
LEMMA TrackedAdvance ==
  ASSUME IInv, NEW c \in Consumer, pc[c] \in InHand, Advance(c), runs' = runs,
         acked \subseteq acked', pc[c] # "next" \/ head[c] \in acked',
         NEW i, Tracked(i)
  PROVE  Tracked(i)'
  <1>1. /\ \A d \in Consumer \ {c} : Remaining(d)' = Remaining(d)
        /\ Remaining(c)' = Remaining(c) \ {head[c]}
    BY AdvanceMove DEF IInv
  <1>2. head[c] \in Remaining(c)
    BY HeadIsRead DEF IInv, TypeOK, Remaining
  <1>3. pc[c] # "next" => runs[head[c]] = 1
    BY <1>2 DEF IInv, Batches, Exclusive
  <1>4. CASE i = head[c]
    BY <1>3, <1>4 DEF Tracked
  <1>5. CASE i # head[c]
    BY <1>1, <1>5 DEF Tracked
  <1>6. QED  BY <1>4, <1>5

LEMMA TrackedStep ==
  ASSUME IInv, NothingAbandoned, [Next]_vars
  PROVE  NothingAbandoned'
  <1> SUFFICES ASSUME faults' = 0, NEW i \in (start' + 1)..lastId'  PROVE Tracked(i)'
    BY DEF NothingAbandoned, Tracked
  <1> USE DEF IInv
  <1>0. faults \in Nat /\ start \in Nat /\ lastId \in Nat
    BY Constants DEF TypeOK
  <1>1. ASSUME NEW c \in Consumer, Failure(c)  PROVE FALSE
    BY <1>0, <1>1 DEF Failure, ReadFails, AckFails, DropBadFails, Fault
  <1>2. CASE Crash
    BY <1>0, <1>2 DEF Crash, Fault
  <1>3. ASSUME faults' = faults, NEW j \in (start + 1)..lastId  PROVE Tracked(j)
    BY <1>3 DEF NothingAbandoned, Tracked
  <1>4. CASE Publish \/ Close \/ UNCHANGED vars
    <2>1. faults' = faults /\ UNCHANGED <<start, lastId, acked, runs, loopVars>>
      BY <1>4 DEF Publish, Close, vars, redisVars, history
    <2>2. \A c \in Consumer : Remaining(c)' = Remaining(c)
      BY <2>1 DEF Remaining, loopVars
    <2>3. QED  BY <1>3, <2>1, <2>2 DEF Tracked
  <1>5. ASSUME NEW c \in Consumer, Subscribe(c)  PROVE Tracked(i)'
    <2>1. \A d \in Consumer : Remaining(d)' = Remaining(d)
      BY <1>5, IdleMove DEF Subscribe, InHand
    <2>2. group /\ start' = start /\ lastId' = lastId
      BY <1>0, <1>5 DEF Subscribe, TypeOK
    <2>3. QED  BY <1>3, <1>5, <2>1, <2>2 DEF Subscribe, Tracked, history
  <1>6. ASSUME NEW c \in Consumer, Unsubscribe(c)  PROVE Tracked(i)'
    <2>1. faults' = faults /\ UNCHANGED <<start, lastId, acked, runs, loopVars>>
      BY <1>6 DEF Unsubscribe, redisVars, history
    <2>2. \A d \in Consumer : Remaining(d)' = Remaining(d)
      BY <2>1 DEF Remaining, loopVars
    <2>3. QED  BY <1>3, <2>1, <2>2 DEF Tracked
  <1>7. ASSUME NEW c \in Consumer, Check(c) \/ ReadNothing(c) \/ EndBackoff(c)  PROVE Tracked(i)'
    <2>1. \A d \in Consumer : Remaining(d)' = Remaining(d)
      BY <1>7, IdleMove DEF Check, ReadNothing, EndBackoff, InHand
    <2>2. faults' = faults /\ UNCHANGED <<start, lastId, acked, runs>>
      BY <1>7 DEF Check, ReadNothing, EndBackoff, redisVars, history
    <2>3. QED  BY <1>3, <2>1, <2>2 DEF Tracked
  <1>8. ASSUME NEW c \in Consumer, Read(c)  PROVE Tracked(i)'
    <2>1. /\ \A d \in Consumer \ {c} : Remaining(d)' = Remaining(d)
          /\ Remaining(c)' = (lastId + 1)..lastId' /\ lastId' \in Nat /\ lastId < lastId'
      BY <1>8, ReadMove
    <2>2. faults' = faults /\ UNCHANGED <<start, acked, runs>>
      BY <1>8 DEF Read, history
    <2>3. Remaining(c) = {}
      BY <1>8 DEF Read, Remaining, InHand
    <2>4. CASE i \in (start + 1)..lastId
      BY <1>3, <2>1, <2>2, <2>3, <2>4 DEF Tracked
    <2>5. CASE i \notin (start + 1)..lastId
      <3>1. i \in Remaining(c)'
        BY <1>0, <2>1, <2>2, <2>5
      <3>2. QED  BY <3>1 DEF Tracked
    <2>6. QED  BY <2>4, <2>5
  <1>9. ASSUME NEW c \in Consumer, DropBad(c) \/ HandlerThrows(c) \/ Ack(c)  PROVE Tracked(i)'
    <2>1. pc[c] \in InHand /\ Advance(c) /\ runs' = runs /\ acked \subseteq acked'
          /\ (pc[c] # "next" \/ head[c] \in acked') /\ faults' = faults /\ UNCHANGED <<start, lastId>>
      BY <1>9 DEF DropBad, HandlerThrows, Ack, InHand, redisVars, history
    <2>2. QED  BY <1>3, <2>1, TrackedAdvance
  <1>10. ASSUME NEW c \in Consumer, CallHandler(c) \/ HandlerResolves(c)  PROVE Tracked(i)'
    <2>1. \A d \in Consumer : Remaining(d)' = Remaining(d)
      BY <1>10 DEF CallHandler, HandlerResolves, Remaining, InHand, Goto, TypeOK
    <2>2. faults' = faults /\ UNCHANGED <<start, lastId, acked>>
      BY <1>10 DEF CallHandler, HandlerResolves, redisVars
    <2>3. runs[i] = 1 /\ i \in Entry => runs'[i] = 1
      <3>1. CASE HandlerResolves(c)
        BY <3>1 DEF HandlerResolves
      <3>2. CASE CallHandler(c)
        <4>1. runs' = [runs EXCEPT ![head[c]] = @ + 1] /\ pc[c] = "next" /\ head[c] \in Remaining(c)
          BY <3>2, HeadIsRead DEF CallHandler, InHand, Remaining, TypeOK
        <4>2. runs[head[c]] = 0
          BY <4>1 DEF Batches, Exclusive
        <4>3. QED  BY <4>1, <4>2 DEF TypeOK
      <3>3. QED  BY <1>10, <3>1, <3>2
    <2>4. i \in Entry
      BY <1>0, <2>2, Constants DEF TypeOK, Entry
    <2>5. QED  BY <1>3, <2>1, <2>2, <2>3, <2>4 DEF Tracked
  <1>11. QED  BY <1>1, <1>2, <1>4, <1>5, <1>6, <1>7, <1>8, <1>9, <1>10 DEF Next, Loop

(* Until a Redis call fails or the process crashes, whatever the group     *)
(* handed out was acknowledged, given to a handler, or is in a batch, even *)
(* if stop() or close() interrupt the loops.                               *)
THEOREM NoneLostWithoutFault == Spec => []NothingAbandoned
  <1>1. Init => NothingAbandoned
    BY DEF Init, NothingAbandoned
  <1>2. IInv /\ NothingAbandoned /\ [Next]_vars => NothingAbandoned'
    BY TrackedStep
  <1>3. QED  BY <1>1, <1>2, BusInvariant, PTL DEF Spec

-----------------------------------------------------------------------------
Held(i) == \E c \in Consumer : i \in Remaining(c)

(* The phase of an entry depends only on these.                            *)
LEMMA PhaseFrame ==
  ASSUME NEW e \in Entry, UNCHANGED <<len, start, group, lastId>>,
         (e \in acked)' <=> e \in acked, Held(e)' <=> Held(e)
  PROVE  PhaseOf(e)' = PhaseOf(e)
  BY DEF PhaseOf, Held

(* An entry in hand is taken; one that has been read, is in nobody's hand  *)
(* and is acknowledged is settled, and without the XACK it is orphaned.    *)
LEMMA PhaseOfRead ==
  ASSUME IInv, NEW e \in Entry, e <= lastId, e > start
  PROVE  /\ Held(e) => PhaseOf(e) = "taken"
         /\ ~Held(e) /\ e \in acked => PhaseOf(e) = "settled"
         /\ ~Held(e) /\ e \notin acked => PhaseOf(e) = "orphaned"
  <1>1. group /\ e <= len /\ e \in Nat /\ start \in Nat /\ lastId \in Nat /\ len \in Nat
    BY Constants DEF IInv, TypeOK, Batches, Bounds, Entry
  <1>2. ~(e > len) /\ ~(e <= start) /\ ~(e > lastId)
    BY <1>1
  <1>3. Held(e) => e \notin acked
    BY DEF Held, IInv, Settled
  <1>4. QED  BY <1>1, <1>2, <1>3 DEF PhaseOf, Held

LEMMA PhaseOfUnread ==
  ASSUME IInv, NEW e \in Entry
  PROVE  /\ e > len => PhaseOf(e) = "absent"
         /\ e <= len /\ (e <= start \/ ~group) => PhaseOf(e) = "missed"
         /\ e <= len /\ group /\ e > lastId => PhaseOf(e) = "queued"
         /\ e > lastId => ~Held(e) /\ e \notin acked
         /\ e <= start => ~Held(e) /\ e \notin acked
  <1>1. e \in Nat /\ start \in Nat /\ lastId \in Nat /\ len \in Nat /\ start <= lastId /\ lastId <= len
    BY Constants DEF IInv, TypeOK, Entry
  <1>2. e > lastId \/ e <= start => ~Held(e) /\ e \notin acked
    BY <1>1, RemainingIsRead DEF Held, IInv, Settled
  <1>3. e > len => PhaseOf(e) = "absent"
    <2> SUFFICES ASSUME e > len  PROVE PhaseOf(e) = "absent"
      OBVIOUS
    <2>1. ~(e <= len) /\ e \notin acked /\ ~Held(e)
      BY <1>1, <1>2
    <2>2. QED  BY <2>1 DEF PhaseOf, Held
  <1>4. e <= len /\ (e <= start \/ ~group) => PhaseOf(e) = "missed"
    <2> SUFFICES ASSUME e <= len, e <= start \/ ~group  PROVE PhaseOf(e) = "missed"
      OBVIOUS
    <2>1. ~(e > len) /\ ~(e <= len /\ group /\ e > lastId) /\ e \notin acked /\ ~Held(e)
      <3>1. ~group => lastId = 0
        BY DEF IInv, Batches, Bounds
      <3>2. QED  BY <1>1, <1>2, <3>1 DEF Entry
    <2>2. QED  BY <2>1 DEF PhaseOf, Held
  <1>5. e <= len /\ group /\ e > lastId => PhaseOf(e) = "queued"
    <2> SUFFICES ASSUME e <= len, group, e > lastId  PROVE PhaseOf(e) = "queued"
      OBVIOUS
    <2>1. ~(e > len) /\ ~(e <= start \/ ~group) /\ e \notin acked /\ ~Held(e)
      BY <1>1, <1>2
    <2>2. QED  BY <2>1 DEF PhaseOf, Held
  <1>6. QED  BY <1>2, <1>3, <1>4, <1>5

(* Finishing the head of a batch moves it to settled or orphaned and moves *)
(* nothing else.                                                           *)
LEMMA PhaseAdvance ==
  ASSUME IInv, IInv', NEW c \in Consumer, pc[c] \in InHand, Advance(c),
         UNCHANGED <<len, start, group, lastId>>,
         acked' = acked \/ acked' = acked \cup {head[c]},
         NEW e \in Entry
  PROVE  PhaseOf(e)' = PhaseOf(e) \/ <<PhaseOf(e), PhaseOf(e)'>> \in D!Arrow
  <1> USE DEF IInv, Batches
  <1>1. /\ \A d \in Consumer \ {c} : Remaining(d)' = Remaining(d)
        /\ Remaining(c)' = Remaining(c) \ {head[c]}
    BY AdvanceMove
  <1>2. head[c] \in Remaining(c) /\ head[c] \in (start + 1)..lastId
    BY HeadIsRead DEF Remaining, TypeOK
  <1>3. CASE e # head[c]
    BY <1>1, <1>3, PhaseFrame DEF Held
  <1>4. CASE e = head[c]
    <2>1. Held(e) /\ ~Held(e)'
      BY <1>1, <1>2, <1>4 DEF Held, Exclusive
    <2>2. e > start /\ e <= lastId /\ e > start' /\ e <= lastId'
      BY <1>2, <1>4 DEF TypeOK
    <2>3. PhaseOf(e) = "taken" /\ PhaseOf(e)' \in {"settled", "orphaned"}
      <3>1. PhaseOf(e) = "taken"
        BY <2>1, <2>2, PhaseOfRead
      <3>2. (IInv /\ e <= lastId /\ e > start =>
              /\ ~Held(e) /\ e \in acked => PhaseOf(e) = "settled"
              /\ ~Held(e) /\ e \notin acked => PhaseOf(e) = "orphaned")'
        BY PhaseOfRead, PTL
      <3>3. QED  BY <2>1, <2>2, <3>1, <3>2
    <2>4. QED  BY <2>3 DEF D!Arrow
  <1>5. QED  BY <1>3, <1>4

(* Every step moves each entry along one arrow of the life cycle, or not.  *)
LEMMA PhaseStep ==
  ASSUME IInv, IInv', [Next]_vars, NEW e \in Entry
  PROVE  PhaseOf(e)' = PhaseOf(e) \/ <<PhaseOf(e), PhaseOf(e)'>> \in D!Arrow
  <1> DEFINE Moved == PhaseOf(e)' = PhaseOf(e) \/ <<PhaseOf(e), PhaseOf(e)'>> \in D!Arrow
  <1> USE DEF IInv, Batches
  <1>0. /\ e \in Nat /\ start \in Nat /\ lastId \in Nat /\ len \in Nat /\ start <= lastId /\ lastId <= len
        /\ start' \in Nat /\ lastId' \in Nat /\ len' \in Nat /\ start' <= lastId' /\ lastId' <= len'
    BY Constants DEF TypeOK, Entry
  <1>a. (/\ e > len => PhaseOf(e) = "absent"
         /\ e <= len /\ (e <= start \/ ~group) => PhaseOf(e) = "missed"
         /\ e <= len /\ group /\ e > lastId => PhaseOf(e) = "queued"
         /\ e > lastId => ~Held(e) /\ e \notin acked
         /\ e <= start => ~Held(e) /\ e \notin acked)'
    BY PhaseOfUnread, PTL
  <1>b. (e <= lastId /\ e > start =>
           /\ Held(e) => PhaseOf(e) = "taken"
           /\ ~Held(e) /\ e \in acked => PhaseOf(e) = "settled"
           /\ ~Held(e) /\ e \notin acked => PhaseOf(e) = "orphaned")'
    BY PhaseOfRead, PTL
  <1>c. (lastId > 0 => group) /\ (start > 0 => group)
    BY <1>0 DEF Bounds
  <1>1. CASE Publish
    <2>1. len' = len + 1 /\ UNCHANGED <<group, start, lastId, acked, pc, head, tail>>
      BY <1>1 DEF Publish, loopVars
    <2>2. Held(e)' <=> Held(e)
      BY <2>1 DEF Held, Remaining
    <2>3. CASE e = len + 1
      <3>1. PhaseOf(e) = "absent" /\ PhaseOf(e)' \in {"missed", "queued"}
        BY <1>0, <1>a, <2>1, <2>3, PhaseOfUnread
      <3>2. QED  BY <3>1 DEF D!Arrow
    <2>4. CASE e # len + 1
      BY <1>0, <1>a, <1>b, <2>1, <2>2, <2>4, PhaseOfUnread, PhaseOfRead
    <2>5. QED  BY <2>3, <2>4
  <1>2. CASE Close \/ \E c \in Consumer : Unsubscribe(c) \/ CallHandler(c) \/ HandlerResolves(c)
    <2>1. UNCHANGED <<len, start, group, lastId, acked>>
      BY <1>2 DEF Close, Unsubscribe, CallHandler, HandlerResolves, redisVars
    <2>2. \A d \in Consumer : Remaining(d)' = Remaining(d)
      BY <1>2 DEF Close, Unsubscribe, CallHandler, HandlerResolves, loopVars, Remaining, InHand, Goto, TypeOK
    <2>3. QED  BY <2>1, <2>2, PhaseFrame DEF Held
  <1>3. CASE Crash \/ \E c \in Consumer : DropBadFails(c)
    <2>1. UNCHANGED <<len, start, group, lastId, acked>> /\ ~Held(e)'
      BY <1>3 DEF Crash, DropBadFails, LoseProcess, redisVars, Held, Remaining, InHand
    <2>2. CASE Held(e)
      <3>1. e > start /\ e <= lastId
        BY <1>0, <2>2, PhaseOfUnread
      <3>2. PhaseOf(e) = "taken" /\ PhaseOf(e)' \in {"settled", "orphaned"}
        BY <1>b, <2>1, <2>2, <3>1, PhaseOfRead
      <3>3. QED  BY <3>2 DEF D!Arrow
    <2>3. CASE ~Held(e)
      BY <2>1, <2>3, PhaseFrame
    <2>4. QED  BY <2>2, <2>3
  <1>4. ASSUME NEW c \in Consumer, Subscribe(c)  PROVE Moved
    <2>1. \A d \in Consumer : Remaining(d)' = Remaining(d)
      BY <1>4, IdleMove DEF Subscribe, InHand
    <2>2. CASE group
      BY <1>4, <2>1, <2>2, PhaseFrame DEF Subscribe, Held
    <2>3. CASE ~group
      BY <1>0, <1>a, <1>4, <2>3, PhaseOfUnread DEF Subscribe
    <2>4. QED  BY <2>2, <2>3
  <1>5. ASSUME NEW c \in Consumer, Check(c) \/ ReadNothing(c) \/ EndBackoff(c)  PROVE Moved
    <2>1. \A d \in Consumer : Remaining(d)' = Remaining(d)
      BY <1>5, IdleMove DEF Check, ReadNothing, EndBackoff, InHand
    <2>2. UNCHANGED <<len, start, group, lastId, acked>>
      BY <1>5 DEF Check, ReadNothing, EndBackoff, redisVars
    <2>3. QED  BY <2>1, <2>2, PhaseFrame DEF Held
  <1>6. ASSUME NEW c \in Consumer, Read(c)  PROVE Moved
    <2>1. /\ \A d \in Consumer \ {c} : Remaining(d)' = Remaining(d)
          /\ Remaining(c)' = (lastId + 1)..lastId' /\ lastId < lastId' /\ group
      BY <1>6, ReadMove
    <2>2. UNCHANGED <<len, start, group, acked>> /\ Remaining(c) = {}
      BY <1>6 DEF Read, Remaining, InHand
    <2>3. CASE e > lastId /\ e <= lastId'
      <3>1. Held(e)'
        BY <1>0, <2>1, <2>3 DEF Held
      <3>2. PhaseOf(e) = "queued" /\ PhaseOf(e)' = "taken"
        BY <1>0, <1>b, <2>1, <2>2, <2>3, <3>1, PhaseOfUnread
      <3>3. QED  BY <3>2 DEF D!Arrow
    <2>4. CASE ~(e > lastId /\ e <= lastId')
      <3>1. Held(e)' <=> Held(e)
        BY <1>0, <2>1, <2>2, <2>4 DEF Held
      <3>2. QED  BY <1>0, <1>a, <1>b, <2>1, <2>2, <2>4, <3>1, PhaseOfUnread, PhaseOfRead
    <2>5. QED  BY <2>3, <2>4
  <1>7. ASSUME NEW c \in Consumer, ReadFails(c)  PROVE Moved
    <2>1. \A d \in Consumer : Remaining(d)' = Remaining(d)
      BY <1>7, IdleMove DEF ReadFails, InHand
    <2>2. Held(e)' <=> Held(e)
      BY <2>1 DEF Held
    <2>3. UNCHANGED <<len, start, group, acked>> /\ lastId <= lastId' /\ group
      BY <1>0, <1>7, AvailableBound DEF ReadFails, Bounds
    <2>4. CASE e > lastId /\ e <= lastId'
      <3>1. PhaseOf(e) = "queued" /\ PhaseOf(e)' = "orphaned"
        BY <1>0, <1>b, <2>2, <2>3, <2>4, PhaseOfUnread
      <3>2. QED  BY <3>1 DEF D!Arrow
    <2>5. CASE ~(e > lastId /\ e <= lastId')
      BY <1>0, <1>a, <1>b, <2>2, <2>3, <2>5, PhaseOfUnread, PhaseOfRead
    <2>6. QED  BY <2>4, <2>5
  <1>8. ASSUME NEW c \in Consumer, DropBad(c) \/ HandlerThrows(c) \/ Ack(c) \/ AckFails(c)  PROVE Moved
    <2>1. pc[c] \in InHand /\ Advance(c)
      BY <1>8 DEF DropBad, HandlerThrows, Ack, AckFails, InHand
    <2>2. UNCHANGED <<len, start, group, lastId>> /\ (acked' = acked \/ acked' = acked \cup {head[c]})
      BY <1>8 DEF DropBad, HandlerThrows, Ack, AckFails, redisVars
    <2>3. QED  BY <2>1, <2>2, PhaseAdvance
  <1>9. CASE UNCHANGED vars
    <2>1. UNCHANGED <<len, start, group, lastId, acked, pc, head, tail>>
      BY <1>9 DEF vars, redisVars, loopVars
    <2>2. QED  BY <2>1, PhaseFrame DEF Held, Remaining
  <1>10. QED
    BY <1>1, <1>2, <1>3, <1>4, <1>5, <1>6, <1>7, <1>8, <1>9 DEF Next, Loop, Failure

(* What the bus delivers is at most once and one way: the detailed loop    *)
(* with its batches, stops, faults and crashes implements Delivery.        *)
THEOREM ImplementsDelivery == Spec => DeliverySpec
  <1>1. Init => D!Init
    <2> SUFFICES ASSUME Init, NEW e \in Entry  PROVE PhaseOf(e) = "absent"
      BY DEF D!Init
    <2>1. e > len /\ ~(e <= len) /\ e \notin acked /\ ~Held(e)
      BY Constants DEF Init, Entry, Held, Remaining, InHand
    <2>2. QED  BY <2>1 DEF PhaseOf, Held
  <1>2. IInv /\ IInv' /\ [Next]_vars => [D!Next]_[i \in Entry |-> PhaseOf(i)]
    <2> SUFFICES ASSUME IInv, IInv', [Next]_vars  PROVE D!Next
      OBVIOUS
    <2>1. \A e \in Entry : PhaseOf(e)' \in D!Phase
      BY DEF PhaseOf, D!Phase
    <2>2. QED  BY <2>1, PhaseStep DEF D!Next
  <1>3. QED  BY <1>1, <1>2, BusInvariant, PTL DEF Spec, DeliverySpec, D!Spec
=============================================================================
