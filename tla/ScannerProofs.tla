--------------------------- MODULE ScannerProofs ---------------------------
(***************************************************************************)
(* Scanner, proved for any pools, any number of polling loops and any      *)
(* faults: no pool is passed by, none is announced twice without a cause,  *)
(* and a second loop needs a stop and a start during one tick.  The shield *)
(* that judges what it finds, proved for any tokens, callers, timeouts and *)
(* mixes of faults: no answer is older than it may be, and no danger is    *)
(* called safe.                                                            *)
(***************************************************************************)
EXTENDS Scanner, Shield, FoldLemmas, FiniteSetTheorems, TLAPS

LEMMA OffTyped == Off \in Stages /\ Waiting \in Stages
  BY DEF Off, Waiting, Stages, InTick

LEMMA TypeInit == Init => TypeOK
<1> SUFFICES ASSUME Init PROVE TypeOK
  OBVIOUS
<1>1. tick \in [Loop -> Stages]
  BY OffTyped DEF Init
<1>2. /\ head \in Int /\ faults \in 0..MaxFaults /\ overlaps \in Nat
      /\ cursor \in Int \cup {NoCursor} /\ base \in Int \cup {NoCursor}
  BY ScannerAssumption DEF Init
<1> QED
  BY <1>1, <1>2 DEF Init, TypeOK

(* What Schedule leaves in tick and timer.                                 *)
LEMMA ScheduleTyped ==
  ASSUME TypeOK, NEW l \in Loop, Schedule(l)
  PROVE  /\ timer' \in Loop \cup {NoLoop}
         /\ tick' \in [Loop -> Stages]
  BY OffTyped DEF TypeOK, Schedule

LEMMA Staged ==
  ASSUME TypeOK, NEW l \in Loop
  PROVE  tick[l] \in Stages /\ tick[l].to \in Int /\ tick[l].todo \subseteq Pool
  BY DEF TypeOK, Stages

LEMMA StageMoved ==
  ASSUME TypeOK, NEW l \in Loop, NEW s \in Stages, tick' = [tick EXCEPT ![l] = s]
  PROVE  tick' \in [Loop -> Stages]
  BY DEF TypeOK

LEMMA TypeStep == TypeOK /\ [Next]_vars => TypeOK'
<1> SUFFICES ASSUME TypeOK, [Next]_vars PROVE TypeOK'
  OBVIOUS
<1> USE ScannerAssumption DEF TypeOK, chain, store, events, history
<1>1. CASE UNCHANGED vars
  BY <1>1 DEF vars
<1>2. CASE Mine
  BY <1>2 DEF Mine
<1>3. CASE Stop
  <2>1. tick' \in [Loop -> Stages]
    BY <1>3, OffTyped DEF Stop
  <2>2. faults' \in 0..MaxFaults
    BY <1>3 DEF Stop
  <2> QED
    BY <1>3, <2>1, <2>2 DEF Stop
<1>4. CASE Crash
  <2>1. tick' \in [Loop -> Stages]
    BY <1>4, OffTyped DEF Crash
  <2>2. excuse' \in [Pool -> Nat]
    BY <1>4 DEF Crash
  <2>3. /\ faults' \in 0..MaxFaults /\ UNCHANGED <<chain, events, thin, overlaps>>
        /\ running' = FALSE /\ timer' = NoLoop
        /\ UNCHANGED <<store, base>> \/ (cursor' = NoCursor /\ seen' = {} /\ base' = NoCursor)
    BY <1>4 DEF Crash
  <2> QED
    BY <2>1, <2>2, <2>3
<1>5. ASSUME NEW p \in Pool, Fund(p) PROVE TypeOK'
  BY <1>5 DEF Fund
<1>6. ASSUME NEW l \in Loop, Start(l) PROVE TypeOK'
  BY <1>6, OffTyped DEF Start
<1>7. ASSUME NEW l \in Loop, FirstRun(l) PROVE TypeOK'
  BY <1>7 DEF FirstRun, InTick, Stages
<1>8. ASSUME NEW l \in Loop, SetFirst(l) PROVE TypeOK'
  BY <1>8, ScheduleTyped, Staged DEF SetFirst
<1>9. ASSUME NEW l \in Loop, CaughtUp(l) PROVE TypeOK'
  BY <1>9, ScheduleTyped DEF CaughtUp
<1>10. ASSUME NEW l \in Loop, GetLogs(l) PROVE TypeOK'
  <2> DEFINE end  == RangeEnd(cursor, tick[l].to)
             todo == {p \in Pool : Block[p] > cursor /\ Block[p] <= end}
             s    == [tick[l] EXCEPT !.pc = "logs", !.to = end, !.todo = todo]
  <2>1. end \in Int
    BY <1>10, Staged DEF GetLogs, RangeEnd
  <2>2. s \in Stages
    BY <2>1, Staged DEF Stages, InTick
  <2>3. tick' = [tick EXCEPT ![l] = s]
    BY <1>10 DEF GetLogs, Stages
  <2>4. tick' \in [Loop -> Stages]
    BY <2>2, <2>3, StageMoved
  <2> QED
    BY <1>10, <2>4 DEF GetLogs
<1>11. ASSUME NEW l \in Loop, Advance(l) PROVE TypeOK'
  BY <1>11, ScheduleTyped, Staged DEF Advance
<1>12. ASSUME NEW l \in Loop, NEW h \in (head - Lag)..head, Fire(l, h) PROVE TypeOK'
  <2> DEFINE s == [tick[l] EXCEPT !.pc = "cursor", !.to = h - Confirmations]
  <2>0. h - Confirmations \in Int
    OBVIOUS
  <2>1. s \in Stages
    BY <2>0, Staged DEF Stages, InTick
  <2>2. tick' = [tick EXCEPT ![l] = s]
    BY <1>12 DEF Fire, Stages
  <2>3. tick' \in [Loop -> Stages]
    BY <2>1, <2>2, StageMoved
  <2> QED
    BY <1>12, <2>3 DEF Fire
<1>13. ASSUME NEW l \in Loop, TickFails(l) PROVE TypeOK'
  BY <1>13, ScheduleTyped DEF TickFails, Abandoned
<1>14. ASSUME NEW l \in Loop, NEW p \in Pool, PassOver(l, p) PROVE TypeOK'
  BY <1>14 DEF PassOver, Drop, InTick, Stages
<1>15. ASSUME NEW l \in Loop, NEW p \in Pool, TooThin(l, p) PROVE TypeOK'
  BY <1>15 DEF TooThin, Drop, InTick, Stages
<1>16. ASSUME NEW l \in Loop, NEW p \in Pool, Irrelevant(l, p) PROVE TypeOK'
  BY <1>16 DEF Irrelevant, Drop, InTick, Stages
<1>17. ASSUME NEW l \in Loop, NEW p \in Pool, Take(l, p) PROVE TypeOK'
  <2> DEFINE s == [tick[l] EXCEPT !.pc = "publish", !.at = {p}]
  <2>3. s \in Stages /\ tick' = [tick EXCEPT ![l] = s]
    BY <1>17, Staged DEF Take, Stages, InTick
  <2>1. tick' \in [Loop -> Stages]
    BY <2>3, StageMoved
  <2>2. excuse' \in [Pool -> Nat]
    BY <1>17 DEF Take
  <2> QED
    BY <1>17, <2>1, <2>2 DEF Take
<1>18. ASSUME NEW l \in Loop, NEW p \in Pool, PublishPool(l, p) PROVE TypeOK'
  BY <1>18 DEF PublishPool, InTick, Stages
<1>19. ASSUME NEW l \in Loop, NEW p \in Pool, PublishToken(l, p) PROVE TypeOK'
  BY <1>19 DEF PublishToken, InTick, Stages
<1>20. ASSUME NEW l \in Loop, NEW p \in Pool, MarkSeen(l, p) PROVE TypeOK'
  <2> DEFINE s == [tick[l] EXCEPT !.pc = "logs", !.at = {}, !.todo = @ \ {p}]
  <2>2. s \in Stages /\ tick' = [tick EXCEPT ![l] = s]
    BY <1>20, Staged DEF MarkSeen, Stages, InTick
  <2>1. tick' \in [Loop -> Stages]
    BY <2>2, StageMoved
  <2> QED
    BY <1>20, <2>1 DEF MarkSeen
<1> QED
  BY <1>1, <1>2, <1>3, <1>4, <1>5, <1>6, <1>7, <1>8, <1>9, <1>10, <1>11, <1>12, <1>13,
     <1>14, <1>15, <1>16, <1>17, <1>18, <1>19, <1>20 DEF Next, TickStep

(* The scanner's types, for any pools and loops.                           *)
THEOREM TypeCorrect == Spec => []TypeOK
  BY TypeInit, TypeStep, PTL DEF Spec

-----------------------------------------------------------------------------
(* Every block up to the cursor, and up to the end of a range but for the  *)
(* logs still to handle, is accounted for; a pool to announce is marked    *)
(* seen only when it was announced.                                        *)
Done(p) == detected[p] > 0 \/ p \in thin
Scanning == {"logs", "publish", "token", "mark"}

GapInv ==
  /\ cursor # NoCursor => base # NoCursor
  /\ NoPoolPassedBy
  /\ \A l \in Loop : tick[l].pc \in Scanning =>
       /\ base # NoCursor
       /\ \A p \in Pool \ tick[l].todo : InScope(p) /\ Block[p] <= tick[l].to => Done(p)
  /\ \A l \in Loop, p \in Pool : tick[l].pc = "mark" /\ tick[l].at = {p} => detected[p] > 0
  /\ \A p \in seen : ToPool(p) /\ QuoteOf(p) => detected[p] > 0

LEMMA GapInit == Init => GapInv
  BY ScannerAssumption DEF Init, GapInv, NoPoolPassedBy, InScope, Off, Scanning

(* A step that ends a tick or sets a timer leaves no new range behind.     *)
LEMMA GapSchedule ==
  ASSUME TypeOK, GapInv, NEW l \in Loop, Schedule(l), UNCHANGED <<chain, store, events, base, thin>>
  PROVE  GapInv'
  BY DEF TypeOK, GapInv, NoPoolPassedBy, InScope, ToPool, QuoteOf, Done, Schedule, Waiting, Off,
         Scanning, chain, store, events

LEMMA GapStep == TypeOK /\ GapInv /\ [Next]_vars => GapInv'
<1> SUFFICES ASSUME TypeOK, GapInv, [Next]_vars PROVE GapInv'
  OBVIOUS
<1> USE ScannerAssumption DEF TypeOK, GapInv, NoPoolPassedBy, InScope, ToPool, QuoteOf, Done,
        Scanning, chain, store, events, history
<1>1. CASE UNCHANGED vars
  BY <1>1 DEF vars
<1>2. CASE Mine
  BY <1>2 DEF Mine
<1>3. CASE Stop
  BY <1>3 DEF Stop, Off
<1>4. CASE Crash
  BY <1>4 DEF Crash, Off
<1>5. ASSUME NEW p \in Pool, Fund(p) PROVE GapInv'
  BY <1>5 DEF Fund
<1>6. ASSUME NEW l \in Loop, Start(l) PROVE GapInv'
  BY <1>6 DEF Start, Waiting, Off
<1>7. ASSUME NEW l \in Loop, FirstRun(l) PROVE GapInv'
  BY <1>7 DEF FirstRun
<1>8. ASSUME NEW l \in Loop, SetFirst(l) PROVE GapInv'
  <2>1. tick[l].to \in Int
    BY Staged
  <2>2. /\ cursor' = tick[l].to /\ base' \in Int /\ base' >= tick[l].to
        /\ base # NoCursor => base' >= base
    BY <1>8, <2>1 DEF SetFirst
  <2>3. ASSUME NEW m \in Loop, tick'[m].pc \in Scanning
        PROVE  tick'[m] = tick[m]
    BY <1>8, <2>3 DEF SetFirst, Schedule, Waiting, Off
  <2>4. UNCHANGED <<seen, detected, thin>>
    BY <1>8 DEF SetFirst
  <2>5. ASSUME NEW m \in Loop, NEW p \in Pool \ tick[m].todo, tick'[m].pc \in Scanning,
               base' < Block[p], Block[p] <= tick[m].to, ToPool(p), QuoteOf(p)
        PROVE  Done(p)
    <3>1. base # NoCursor /\ tick[m].pc \in Scanning
      BY <2>3, <2>5
    <3>2. base < Block[p]
      BY <2>2, <2>5, <3>1
    <3> QED
      BY <2>5, <3>1, <3>2
  <2>6. ASSUME NEW m \in Loop, tick'[m].pc \in Scanning
        PROVE  \A p \in Pool \ tick'[m].todo : InScope(p)' /\ Block[p] <= tick'[m].to => Done(p)'
    BY <2>3, <2>4, <2>5, <2>6
  <2>7. base' # NoCursor
    BY <2>2
  <2>8. \A p \in Pool : ~(base' < Block[p] /\ Block[p] <= cursor')
    BY <2>1, <2>2
  <2>9. NoPoolPassedBy'
    BY <2>8
  <2>10. ASSUME NEW m \in Loop, NEW p \in Pool, tick'[m].pc = "mark", tick'[m].at = {p}
         PROVE  detected'[p] > 0
    BY <2>3, <2>4, <2>10
  <2> QED
    BY <2>4, <2>6, <2>7, <2>9, <2>10
<1>9. ASSUME NEW l \in Loop, CaughtUp(l) PROVE GapInv'
  BY <1>9, GapSchedule DEF CaughtUp
<1>10. ASSUME NEW l \in Loop, GetLogs(l) PROVE GapInv'
  BY <1>10 DEF GetLogs, RangeEnd
<1>11. ASSUME NEW l \in Loop, Advance(l) PROVE GapInv'
  BY <1>11 DEF Advance, Schedule, Waiting, Off
<1>12. ASSUME NEW l \in Loop, NEW h \in (head - Lag)..head, Fire(l, h) PROVE GapInv'
  BY <1>12 DEF Fire
<1>13. ASSUME NEW l \in Loop, TickFails(l) PROVE GapInv'
  BY <1>13, GapSchedule DEF TickFails
<1>14. ASSUME NEW l \in Loop, NEW p \in Pool, PassOver(l, p) PROVE GapInv'
  BY <1>14 DEF PassOver, NextLog, Drop
<1>15. ASSUME NEW l \in Loop, NEW p \in Pool, TooThin(l, p) PROVE GapInv'
  BY <1>15 DEF TooThin, NextLog, Drop
<1>16. ASSUME NEW l \in Loop, NEW p \in Pool, Irrelevant(l, p) PROVE GapInv'
  BY <1>16 DEF Irrelevant, NextLog, Drop
<1>17. ASSUME NEW l \in Loop, NEW p \in Pool, Take(l, p) PROVE GapInv'
  BY <1>17 DEF Take, NextLog
<1>18. ASSUME NEW l \in Loop, NEW p \in Pool, PublishPool(l, p) PROVE GapInv'
  BY <1>18 DEF PublishPool
<1>19. ASSUME NEW l \in Loop, NEW p \in Pool, PublishToken(l, p) PROVE GapInv'
  <2>1. \A q \in Pool : detected'[q] >= detected[q]
    BY <1>19 DEF PublishToken
  <2>2. detected'[p] > 0
    BY <1>19 DEF PublishToken
  <2>3. UNCHANGED <<cursor, seen, base, thin>>
    BY <1>19 DEF PublishToken
  <2>4. /\ tick[l].pc = "token" /\ tick[l].at = {p}
        /\ tick' = [tick EXCEPT ![l].pc = "mark"]
    BY <1>19 DEF PublishToken
  <2>5. ASSUME NEW m \in Loop
        PROVE  tick'[m].todo = tick[m].todo /\ tick'[m].to = tick[m].to /\ tick'[m].at = tick[m].at
    BY <2>4
  <2>6. ASSUME NEW m \in Loop PROVE tick'[m].pc = IF m = l THEN "mark" ELSE tick[m].pc
    BY <2>4
  <2>7. detected' \in [Pool -> Nat]
    BY <1>19 DEF PublishToken
  <2>8. \A q \in Pool : Done(q) => Done(q)'
    BY <2>1, <2>3, <2>7
  <2>9. \A q \in Pool : InScope(q)' <=> InScope(q)
    BY <2>3
  <2>10. NoPoolPassedBy'
    BY <2>3, <2>8, <2>9
  <2>11. ASSUME NEW m \in Loop, tick'[m].pc \in Scanning
         PROVE  /\ base' # NoCursor
                /\ \A q \in Pool \ tick'[m].todo : InScope(q)' /\ Block[q] <= tick'[m].to => Done(q)'
    <3>1. tick[m].pc \in Scanning
      BY <2>4, <2>6, <2>11
    <3> QED
      BY <2>3, <2>5, <2>8, <2>9, <3>1
  <2>12. ASSUME NEW m \in Loop, NEW q \in Pool, tick'[m].pc = "mark", tick'[m].at = {q}
         PROVE  detected'[q] > 0
    <3>1. CASE m = l
      BY <2>2, <2>4, <2>5, <2>12, <3>1
    <3>2. CASE m # l
      BY <2>1, <2>5, <2>6, <2>7, <2>12, <3>2
    <3> QED
      BY <3>1, <3>2
  <2>13. \A q \in seen' : ToPool(q) /\ QuoteOf(q) => detected'[q] > 0
    BY <2>1, <2>3, <2>7
  <2> QED
    BY <2>3, <2>10, <2>11, <2>12, <2>13
<1>20. ASSUME NEW l \in Loop, NEW p \in Pool, MarkSeen(l, p) PROVE GapInv'
  BY <1>20 DEF MarkSeen
<1> QED
  BY <1>1, <1>2, <1>3, <1>4, <1>5, <1>6, <1>7, <1>8, <1>9, <1>10, <1>11, <1>12, <1>13,
     <1>14, <1>15, <1>16, <1>17, <1>18, <1>19, <1>20 DEF Next, TickStep

(* A pool behind the cursor was announced or found too thin, for any       *)
(* pools, ranges, lagging heads, faults and number of loops.               *)
THEOREM NonePassedBy == Spec => []NoPoolPassedBy
<1>1. TypeOK /\ GapInv /\ [Next]_vars => TypeOK' /\ GapInv'
  BY TypeStep, GapStep
<1>2. GapInv => NoPoolPassedBy
  BY DEF GapInv
<1> QED
  BY <1>1, <1>2, TypeInit, GapInit, PTL DEF Spec

-----------------------------------------------------------------------------
(* The loops that have a pool in hand, by how far they are: one that has   *)
(* not published pool.created yet will, so each counts as an announcement, *)
(* and all but the first have an excuse.                                   *)
Phases == {"publish", "token", "mark"}
At(p, phase) == {l \in Loop : tick[l].at = {p} /\ tick[l].pc = phase}
Hand(p) == At(p, "publish") \cup At(p, "token") \cup At(p, "mark")
First(p) == IF p \in seen \/ Hand(p) # {} THEN 1 ELSE 0

TwiceInv ==
  \A p \in Pool :
    /\ detected[p] + Cardinality(At(p, "token")) <= created[p]
    /\ created[p] + Cardinality(At(p, "publish")) <= excuse[p] + First(p)

LEMMA AtFinite ==
  ASSUME NEW p, NEW phase
  PROVE  /\ IsFiniteSet(At(p, phase)) /\ Cardinality(At(p, phase)) \in Nat
         /\ IsFiniteSet(At(p, phase)') /\ Cardinality(At(p, phase)') \in Nat
<1>1. IsFiniteSet(At(p, phase)) /\ IsFiniteSet(At(p, phase)')
  BY FS_Subset, ScannerAssumption DEF At
<1> QED
  BY <1>1, FS_CardinalityType

(* What one loop's move does to the counts.                                *)
LEMMA AtGains ==
  ASSUME TypeOK, NEW l \in Loop, NEW s \in Stages, tick' = [tick EXCEPT ![l] = s],
         NEW p \in Pool, NEW phase \in Phases, s.at = {p}, s.pc = phase, tick[l].pc # phase
  PROVE  /\ l \in At(p, phase)'
         /\ Cardinality(At(p, phase)') = Cardinality(At(p, phase)) + 1
<1>1. At(p, phase)' = At(p, phase) \cup {l} /\ l \notin At(p, phase)
  BY DEF At, TypeOK
<1>2. Cardinality(At(p, phase) \cup {l}) = Cardinality(At(p, phase)) + 1
  BY <1>1, AtFinite, FS_AddElement
<1> QED
  BY <1>1, <1>2

LEMMA AtLoses ==
  ASSUME TypeOK, NEW l \in Loop, NEW s \in Stages, tick' = [tick EXCEPT ![l] = s],
         NEW p \in Pool, NEW phase \in Phases, s.pc # phase, l \in At(p, phase)
  PROVE  Cardinality(At(p, phase)') = Cardinality(At(p, phase)) - 1
<1>1. At(p, phase)' = At(p, phase) \ {l}
  BY DEF At, TypeOK
<1>2. Cardinality(At(p, phase) \ {l}) = Cardinality(At(p, phase)) - 1
  BY AtFinite, FS_RemoveElement
<1> QED
  BY <1>1, <1>2

LEMMA AtKeeps ==
  ASSUME TypeOK, NEW l \in Loop, NEW s \in Stages, tick' = [tick EXCEPT ![l] = s],
         NEW p \in Pool, NEW phase \in Phases, l \notin At(p, phase),
         s.pc # phase \/ s.at # {p}
  PROVE  At(p, phase)' = At(p, phase)
  BY DEF At, TypeOK

(* A step that takes no pool in hand and puts none down.                   *)
LEMMA TwiceCalm ==
  ASSUME TypeOK, TypeOK', TwiceInv, UNCHANGED <<events, excuse>>, seen \subseteq seen',
         \A p \in Pool : \A phase \in Phases : At(p, phase)' = At(p, phase)
  PROVE  TwiceInv'
<1> SUFFICES ASSUME NEW p \in Pool
             PROVE  /\ detected'[p] + Cardinality(At(p, "token")') <= created'[p]
                    /\ created'[p] + Cardinality(At(p, "publish")') <= excuse'[p] + First(p)'
  BY DEF TwiceInv
<1>1. Hand(p)' = Hand(p) /\ First(p)' >= First(p)
  BY DEF Hand, First, Phases
<1>2. First(p) \in Nat /\ First(p)' \in Nat
  BY DEF First
<1>3. /\ created[p] \in Nat /\ detected[p] \in Nat /\ excuse[p] \in Nat
      /\ created' = created /\ detected' = detected /\ excuse' = excuse
  BY DEF TypeOK, events
<1> QED
  BY <1>1, <1>2, <1>3, AtFinite DEF TwiceInv, Phases

(* The end of a tick: a pool that was announced and not marked is excused, *)
(* and one that was not announced is put down.                             *)
LEMMA TwiceScheduled ==
  ASSUME TypeOK, TypeOK', TwiceInv, NEW l \in Loop, Schedule(l), UNCHANGED <<store, events>>,
         excuse' = Abandoned(l)
  PROVE  TwiceInv'
<1>1. PICK s \in Stages : tick' = [tick EXCEPT ![l] = s] /\ s.pc \in {"off", "timer"}
  BY OffTyped DEF Schedule, Waiting, Off
<1> SUFFICES ASSUME NEW p \in Pool
             PROVE  /\ detected'[p] + Cardinality(At(p, "token")') <= created'[p]
                    /\ created'[p] + Cardinality(At(p, "publish")') <= excuse'[p] + First(p)'
  BY DEF TwiceInv
<1>2. /\ created[p] \in Nat /\ detected[p] \in Nat /\ excuse[p] \in Nat
      /\ created' = created /\ detected' = detected /\ seen' = seen
      /\ excuse'[p] = IF Unmarked(l, p) THEN excuse[p] + 1 ELSE excuse[p]
  BY DEF TypeOK, events, store, Abandoned
<1>3. ASSUME NEW phase \in Phases
      PROVE  /\ l \in At(p, phase) => Cardinality(At(p, phase)') = Cardinality(At(p, phase)) - 1
             /\ l \notin At(p, phase) => At(p, phase)' = At(p, phase)
  <2>1. s.pc # phase
    BY <1>1 DEF Phases
  <2> QED
    BY <1>1, <2>1, AtLoses, AtKeeps
<1> USE DEF Phases
<1>4. /\ detected[p] + Cardinality(At(p, "token")) <= created[p]
      /\ created[p] + Cardinality(At(p, "publish")) <= excuse[p] + First(p)
  BY DEF TwiceInv
<1>5. First(p) \in {0, 1} /\ First(p)' \in {0, 1}
  BY DEF First
<1>6. Unmarked(l, p) <=> l \in At(p, "token") \cup At(p, "mark")
  BY DEF Unmarked, Holds, At
<1>7. /\ Cardinality(At(p, "publish")) \in Nat /\ Cardinality(At(p, "publish")') \in Nat
      /\ Cardinality(At(p, "token")) \in Nat /\ Cardinality(At(p, "token")') \in Nat
  BY AtFinite
<1>8. /\ Cardinality(At(p, "publish")') <= Cardinality(At(p, "publish"))
      /\ Cardinality(At(p, "token")') <= Cardinality(At(p, "token"))
  BY <1>3, <1>7
<1>9. CASE Unmarked(l, p)
  BY <1>2, <1>4, <1>5, <1>7, <1>8, <1>9
<1>10. CASE l \in At(p, "publish")
  <2>1. ~Unmarked(l, p)
    BY <1>6, <1>10 DEF At
  <2> QED
    BY <1>2, <1>3, <1>4, <1>5, <1>7, <1>8, <1>10, <2>1
<1>11. CASE l \notin Hand(p)
  <2>1. Hand(p)' = Hand(p)
    BY <1>3, <1>11 DEF Hand
  <2>2. First(p)' = First(p)
    BY <1>2, <2>1 DEF First
  <2> QED
    BY <1>2, <1>4, <1>5, <1>6, <1>7, <1>8, <1>11, <2>2 DEF Hand
<1> QED
  BY <1>6, <1>9, <1>10, <1>11 DEF Hand

LEMMA TwiceInit == Init => TwiceInv
<1> SUFFICES ASSUME Init, NEW p \in Pool
             PROVE  /\ detected[p] + Cardinality(At(p, "token")) <= created[p]
                    /\ created[p] + Cardinality(At(p, "publish")) <= excuse[p] + First(p)
  BY DEF TwiceInv
<1>1. At(p, "token") = {} /\ At(p, "publish") = {}
  BY DEF Init, At, Off
<1>2. First(p) \in {0, 1} /\ created[p] = 0 /\ detected[p] = 0 /\ excuse[p] = 0
  BY DEF Init, First
<1> QED
  BY <1>1, <1>2, FS_EmptySet

LEMMA TwiceCrash ==
  ASSUME TypeOK, TypeOK', TwiceInv, Crash
  PROVE  TwiceInv'
<1> SUFFICES ASSUME NEW p \in Pool
             PROVE  /\ detected'[p] + Cardinality(At(p, "token")') <= created'[p]
                    /\ created'[p] + Cardinality(At(p, "publish")') <= excuse'[p] + First(p)'
  BY DEF TwiceInv
<1> DEFINE again == ~durable \/ \E l \in Loop : Unmarked(l, p)
<1>1. /\ created[p] \in Nat /\ detected[p] \in Nat /\ excuse[p] \in Nat
      /\ created' = created /\ detected' = detected
      /\ excuse'[p] = IF again THEN excuse[p] + 1 ELSE excuse[p]
      /\ durable => seen' = seen
  BY DEF TypeOK, Crash, events, store
<1>2. At(p, "publish")' = {} /\ At(p, "token")' = {}
  BY DEF Crash, At, Off
<1>3. Cardinality(At(p, "publish")') = 0 /\ Cardinality(At(p, "token")') = 0
  BY <1>2, FS_EmptySet
<1>4. /\ detected[p] + Cardinality(At(p, "token")) <= created[p]
      /\ created[p] + Cardinality(At(p, "publish")) <= excuse[p] + First(p)
  BY DEF TwiceInv
<1>5. /\ First(p) \in {0, 1} /\ First(p)' \in {0, 1}
      /\ Cardinality(At(p, "publish")) \in Nat /\ Cardinality(At(p, "token")) \in Nat
  BY AtFinite DEF First
<1>6. CASE again
  BY <1>1, <1>3, <1>4, <1>5, <1>6
<1>7. CASE ~again /\ p \in seen
  <2>1. First(p)' = 1
    BY <1>1, <1>7 DEF First
  <2> QED
    BY <1>1, <1>3, <1>4, <1>5, <1>7, <2>1
<1>8. CASE ~again /\ p \notin seen /\ At(p, "publish") # {}
  <2>1. Cardinality(At(p, "publish")) # 0
    BY <1>8, AtFinite, FS_EmptySet
  <2> QED
    BY <1>1, <1>3, <1>4, <1>5, <1>8, <2>1
<1>9. CASE ~again /\ p \notin seen /\ At(p, "publish") = {}
  <2>1. Hand(p) = {}
    BY <1>9 DEF Hand, At, Unmarked, Holds
  <2>2. First(p) = 0
    BY <1>9, <2>1 DEF First
  <2> QED
    BY <1>1, <1>3, <1>4, <1>5, <1>9, <2>2
<1> QED
  BY <1>6, <1>7, <1>8, <1>9

(* A step of the loop that has p in hand, for p itself and for the others. *)
LEMMA TwiceOthers ==
  ASSUME TypeOK, TypeOK', TwiceInv, NEW l \in Loop, NEW s \in Stages, NEW p \in Pool,
         tick' = [tick EXCEPT ![l] = s], s.pc \in Phases => s.at = {p},
         tick[l].pc \in Phases => tick[l].at = {p},
         NEW q \in Pool \ {p}, seen \subseteq seen', UNCHANGED <<created[q], detected[q]>>,
         excuse'[q] >= excuse[q]
  PROVE  /\ detected'[q] + Cardinality(At(q, "token")') <= created'[q]
         /\ created'[q] + Cardinality(At(q, "publish")') <= excuse'[q] + First(q)'
<1>1. ASSUME NEW phase \in Phases PROVE At(q, phase)' = At(q, phase)
  <2>1. {p} # {q}
    OBVIOUS
  <2> QED
    BY <2>1 DEF At, TypeOK
<1>2. At(q, "publish")' = At(q, "publish") /\ At(q, "token")' = At(q, "token") /\ Hand(q)' = Hand(q)
  BY <1>1 DEF Phases, Hand
<1>3. First(q)' >= First(q) /\ First(q) \in {0, 1} /\ First(q)' \in {0, 1}
  BY <1>2 DEF First
<1>4. /\ detected[q] + Cardinality(At(q, "token")) <= created[q]
      /\ created[q] + Cardinality(At(q, "publish")) <= excuse[q] + First(q)
  BY DEF TwiceInv
<1>5. created[q] \in Nat /\ detected[q] \in Nat /\ excuse[q] \in Nat /\ excuse'[q] \in Nat
  BY DEF TypeOK
<1> QED
  BY <1>2, <1>3, <1>4, <1>5, AtFinite

LEMMA TwiceTake ==
  ASSUME TypeOK, TypeOK', TwiceInv, NEW l \in Loop, NEW p \in Pool, Take(l, p)
  PROVE  TwiceInv'
<1>1. PICK s \in Stages : tick' = [tick EXCEPT ![l] = s] /\ s.pc = "publish" /\ s.at = {p}
  <2> DEFINE r == [tick[l] EXCEPT !.pc = "publish", !.at = {p}]
  <2>1. r \in Stages /\ r.pc = "publish" /\ r.at = {p}
    BY Staged DEF Stages, InTick, Take
  <2>2. tick' = [tick EXCEPT ![l] = r]
    BY DEF Take, TypeOK, Stages
  <2> QED
    BY <2>1, <2>2
<1>2. /\ created' = created /\ detected' = detected /\ seen' = seen
      /\ tick[l].pc = "logs" /\ p \notin seen
      /\ excuse' = IF \E m \in Loop \ {l} : Holds(m, p)
                   THEN [excuse EXCEPT ![p] = @ + 1] ELSE excuse
  BY DEF Take, NextLog, events, store
<1>3. /\ Cardinality(At(p, "publish")') = Cardinality(At(p, "publish")) + 1
      /\ At(p, "token")' = At(p, "token") /\ l \in At(p, "publish")'
  <2>1. l \notin At(p, "token") /\ tick[l].pc # "publish"
    BY <1>2 DEF At
  <2>2. At(p, "token")' = At(p, "token")
    BY <1>1, <2>1, AtKeeps DEF Phases
  <2> QED
    BY <1>1, <2>1, <2>2, AtGains DEF Phases
<1>4. First(p)' = 1
  BY <1>3 DEF First, Hand
<1>5. /\ detected[p] + Cardinality(At(p, "token")) <= created[p]
      /\ created[p] + Cardinality(At(p, "publish")) <= excuse[p] + First(p)
  BY DEF TwiceInv
<1>6. created[p] \in Nat /\ detected[p] \in Nat /\ excuse[p] \in Nat /\ First(p) \in {0, 1}
  BY DEF TypeOK, First
<1>7. excuse'[p] + 1 >= excuse[p] + First(p) + 1
  <2>1. CASE \E m \in Loop \ {l} : Holds(m, p)
    BY <1>2, <1>6, <2>1 DEF TypeOK
  <2>2. CASE ~\E m \in Loop \ {l} : Holds(m, p)
    <3>1. Hand(p) = {}
      BY <1>2, <2>2 DEF Hand, At, Holds
    <3>2. First(p) = 0
      BY <1>2, <3>1 DEF First
    <3> QED
      BY <1>2, <1>6, <2>2, <3>2
  <2> QED
    BY <2>1, <2>2
<1>8. excuse'[p] \in Nat
  BY DEF TypeOK
<1>9. ASSUME NEW q \in Pool \ {p}
      PROVE  /\ detected'[q] + Cardinality(At(q, "token")') <= created'[q]
             /\ created'[q] + Cardinality(At(q, "publish")') <= excuse'[q] + First(q)'
  <2>1. excuse'[q] = excuse[q]
    BY <1>2 DEF TypeOK
  <2>2. excuse'[q] >= excuse[q]
    BY <2>1 DEF TypeOK
  <2> QED
    BY <1>1, <1>2, <2>2, TwiceOthers DEF Phases
<1>10. /\ detected'[p] + Cardinality(At(p, "token")') <= created'[p]
       /\ created'[p] + Cardinality(At(p, "publish")') <= excuse'[p] + First(p)'
  BY <1>2, <1>3, <1>4, <1>5, <1>6, <1>7, <1>8, AtFinite
<1> QED
  BY <1>9, <1>10 DEF TwiceInv

LEMMA TwicePublishPool ==
  ASSUME TypeOK, TypeOK', TwiceInv, NEW l \in Loop, NEW p \in Pool, PublishPool(l, p)
  PROVE  TwiceInv'
<1>1. PICK s \in Stages : tick' = [tick EXCEPT ![l] = s] /\ s.pc = "token" /\ s.at = {p}
  <2> DEFINE r == [tick[l] EXCEPT !.pc = "token"]
  <2>1. r \in Stages /\ r.pc = "token" /\ r.at = {p}
    BY Staged DEF Stages, InTick, PublishPool
  <2>2. tick' = [tick EXCEPT ![l] = r]
    BY DEF PublishPool, TypeOK, Stages
  <2> QED
    BY <2>1, <2>2
<1>2. /\ created' = [created EXCEPT ![p] = @ + 1] /\ detected' = detected /\ seen' = seen
      /\ tick[l].pc = "publish" /\ tick[l].at = {p} /\ excuse' = excuse
  BY DEF PublishPool, store, history
<1>3. /\ Cardinality(At(p, "publish")') = Cardinality(At(p, "publish")) - 1
      /\ Cardinality(At(p, "token")') = Cardinality(At(p, "token")) + 1
      /\ l \in At(p, "token")' /\ l \in At(p, "publish")
  <2>1. l \in At(p, "publish") /\ tick[l].pc # "token"
    BY <1>2 DEF At
  <2>2. Cardinality(At(p, "publish")') = Cardinality(At(p, "publish")) - 1
    BY <1>1, <2>1, AtLoses DEF Phases
  <2> QED
    BY <1>1, <2>1, <2>2, AtGains DEF Phases
<1>4. First(p)' = 1 /\ First(p) = 1
  BY <1>3 DEF First, Hand
<1>5. /\ detected[p] + Cardinality(At(p, "token")) <= created[p]
      /\ created[p] + Cardinality(At(p, "publish")) <= excuse[p] + First(p)
  BY DEF TwiceInv
<1>6. /\ created[p] \in Nat /\ detected[p] \in Nat /\ excuse[p] \in Nat
      /\ created'[p] = created[p] + 1
  BY <1>2 DEF TypeOK
<1>7. ASSUME NEW q \in Pool \ {p}
      PROVE  /\ detected'[q] + Cardinality(At(q, "token")') <= created'[q]
             /\ created'[q] + Cardinality(At(q, "publish")') <= excuse'[q] + First(q)'
  <2>1. created'[q] = created[q] /\ excuse'[q] >= excuse[q]
    BY <1>2 DEF TypeOK
  <2> QED
    BY <1>1, <1>2, <2>1, TwiceOthers DEF Phases
<1>8. /\ detected'[p] + Cardinality(At(p, "token")') <= created'[p]
      /\ created'[p] + Cardinality(At(p, "publish")') <= excuse'[p] + First(p)'
  BY <1>2, <1>3, <1>4, <1>5, <1>6, AtFinite
<1> QED
  BY <1>7, <1>8 DEF TwiceInv

LEMMA TwicePublishToken ==
  ASSUME TypeOK, TypeOK', TwiceInv, NEW l \in Loop, NEW p \in Pool, PublishToken(l, p)
  PROVE  TwiceInv'
<1>1. PICK s \in Stages : tick' = [tick EXCEPT ![l] = s] /\ s.pc = "mark" /\ s.at = {p}
  <2> DEFINE r == [tick[l] EXCEPT !.pc = "mark"]
  <2>1. r \in Stages /\ r.pc = "mark" /\ r.at = {p}
    BY Staged DEF Stages, InTick, PublishToken
  <2>2. tick' = [tick EXCEPT ![l] = r]
    BY DEF PublishToken, TypeOK, Stages
  <2> QED
    BY <2>1, <2>2
<1>2. /\ detected' = [detected EXCEPT ![p] = @ + 1] /\ created' = created /\ seen' = seen
      /\ tick[l].pc = "token" /\ tick[l].at = {p} /\ excuse' = excuse
  BY DEF PublishToken, store, history
<1>3. /\ Cardinality(At(p, "token")') = Cardinality(At(p, "token")) - 1
      /\ At(p, "publish")' = At(p, "publish")
      /\ l \in At(p, "mark")' /\ l \in At(p, "token")
  <2>1. l \in At(p, "token") /\ l \notin At(p, "publish") /\ tick[l].pc # "mark"
    BY <1>2 DEF At
  <2>2. Cardinality(At(p, "token")') = Cardinality(At(p, "token")) - 1
    BY <1>1, <2>1, AtLoses DEF Phases
  <2>3. At(p, "publish")' = At(p, "publish")
    BY <1>1, <2>1, AtKeeps DEF Phases
  <2> QED
    BY <1>1, <2>1, <2>2, <2>3, AtGains DEF Phases
<1>4. First(p)' = 1 /\ First(p) = 1
  BY <1>3 DEF First, Hand
<1>5. /\ detected[p] + Cardinality(At(p, "token")) <= created[p]
      /\ created[p] + Cardinality(At(p, "publish")) <= excuse[p] + First(p)
  BY DEF TwiceInv
<1>6. /\ created[p] \in Nat /\ detected[p] \in Nat /\ excuse[p] \in Nat
      /\ detected'[p] = detected[p] + 1
  BY <1>2 DEF TypeOK
<1>7. ASSUME NEW q \in Pool \ {p}
      PROVE  /\ detected'[q] + Cardinality(At(q, "token")') <= created'[q]
             /\ created'[q] + Cardinality(At(q, "publish")') <= excuse'[q] + First(q)'
  <2>1. detected'[q] = detected[q] /\ excuse'[q] >= excuse[q]
    BY <1>2 DEF TypeOK
  <2> QED
    BY <1>1, <1>2, <2>1, TwiceOthers DEF Phases
<1>8. /\ detected'[p] + Cardinality(At(p, "token")') <= created'[p]
      /\ created'[p] + Cardinality(At(p, "publish")') <= excuse'[p] + First(p)'
  BY <1>2, <1>3, <1>4, <1>5, <1>6, AtFinite
<1> QED
  BY <1>7, <1>8 DEF TwiceInv

LEMMA TwiceMarkSeen ==
  ASSUME TypeOK, TypeOK', TwiceInv, NEW l \in Loop, NEW p \in Pool, MarkSeen(l, p)
  PROVE  TwiceInv'
<1>1. PICK s \in Stages : tick' = [tick EXCEPT ![l] = s] /\ s.pc = "logs"
  <2> DEFINE r == [tick[l] EXCEPT !.pc = "logs", !.at = {}, !.todo = @ \ {p}]
  <2>1. r \in Stages /\ r.pc = "logs"
    BY Staged DEF Stages, InTick, MarkSeen
  <2>2. tick' = [tick EXCEPT ![l] = r]
    BY DEF MarkSeen, TypeOK, Stages
  <2> QED
    BY <2>1, <2>2
<1>2. /\ detected' = detected /\ created' = created /\ seen' = seen \cup {p}
      /\ tick[l].pc = "mark" /\ tick[l].at = {p} /\ excuse' = excuse
  BY DEF MarkSeen, events, history
<1>3. At(p, "token")' = At(p, "token") /\ At(p, "publish")' = At(p, "publish")
  BY <1>1, <1>2, AtKeeps DEF Phases, At
<1>4. First(p)' = 1 /\ First(p) \in {0, 1}
  BY <1>2 DEF First
<1>5. /\ detected[p] + Cardinality(At(p, "token")) <= created[p]
      /\ created[p] + Cardinality(At(p, "publish")) <= excuse[p] + First(p)
  BY DEF TwiceInv
<1>6. created[p] \in Nat /\ detected[p] \in Nat /\ excuse[p] \in Nat
  BY DEF TypeOK
<1>7. ASSUME NEW q \in Pool \ {p}
      PROVE  /\ detected'[q] + Cardinality(At(q, "token")') <= created'[q]
             /\ created'[q] + Cardinality(At(q, "publish")') <= excuse'[q] + First(q)'
  <2>1. excuse'[q] >= excuse[q]
    BY <1>2 DEF TypeOK
  <2> QED
    BY <1>1, <1>2, <2>1, TwiceOthers DEF Phases
<1>8. /\ detected'[p] + Cardinality(At(p, "token")') <= created'[p]
      /\ created'[p] + Cardinality(At(p, "publish")') <= excuse'[p] + First(p)'
  BY <1>2, <1>3, <1>4, <1>5, <1>6, AtFinite
<1> QED
  BY <1>7, <1>8 DEF TwiceInv

LEMMA TwiceStep == TypeOK /\ TypeOK' /\ TwiceInv /\ [Next]_vars => TwiceInv'
<1> SUFFICES ASSUME TypeOK, TypeOK', TwiceInv, [Next]_vars PROVE TwiceInv'
  OBVIOUS
<1> USE DEF chain, store, events, history
<1>0. ASSUME UNCHANGED <<tick, events, excuse, seen>> PROVE TwiceInv'
  BY <1>0, TwiceCalm DEF At
<1>1. CASE UNCHANGED vars
  BY <1>0, <1>1 DEF vars
<1>2. CASE Mine
  BY <1>0, <1>2 DEF Mine
<1>3. CASE Stop
  <2>1. \A p \in Pool : \A phase \in Phases : At(p, phase)' = At(p, phase)
    BY <1>3 DEF Stop, At, Off, Phases
  <2> QED
    BY <1>3, <2>1, TwiceCalm DEF Stop
<1>4. CASE Crash
  BY <1>4, TwiceCrash
<1>5. ASSUME NEW p \in Pool, Fund(p) PROVE TwiceInv'
  BY <1>0, <1>5 DEF Fund
<1>6. ASSUME NEW l \in Loop, UNCHANGED <<events, excuse>>, seen \subseteq seen',
             tick[l].pc \notin Phases, \A m \in Loop \ {l} : tick'[m] = tick[m],
             tick'[l].pc \notin Phases
      PROVE  TwiceInv'
  <2>1. \A p \in Pool : \A phase \in Phases : At(p, phase)' = At(p, phase)
    BY <1>6 DEF At
  <2> QED
    BY <1>6, <2>1, TwiceCalm
<1>7. ASSUME NEW l \in Loop, Start(l) PROVE TwiceInv'
  BY <1>6, <1>7 DEF Start, Waiting, Off, Phases, TypeOK
<1>8. ASSUME NEW l \in Loop, FirstRun(l) PROVE TwiceInv'
  BY <1>6, <1>8 DEF FirstRun, Phases, TypeOK, Stages
<1>9. ASSUME NEW l \in Loop, SetFirst(l) PROVE TwiceInv'
  BY <1>6, <1>9 DEF SetFirst, Schedule, Waiting, Off, Phases, TypeOK
<1>10. ASSUME NEW l \in Loop, CaughtUp(l) PROVE TwiceInv'
  BY <1>6, <1>10 DEF CaughtUp, Schedule, Waiting, Off, Phases, TypeOK
<1>11. ASSUME NEW l \in Loop, GetLogs(l) PROVE TwiceInv'
  BY <1>6, <1>11 DEF GetLogs, Phases, TypeOK, Stages
<1>12. ASSUME NEW l \in Loop, Advance(l) PROVE TwiceInv'
  BY <1>6, <1>12 DEF Advance, Schedule, Waiting, Off, Phases, TypeOK
<1>13. ASSUME NEW l \in Loop, NEW h \in (head - Lag)..head, Fire(l, h) PROVE TwiceInv'
  BY <1>6, <1>13 DEF Fire, Phases, TypeOK, Stages
<1>14. ASSUME NEW l \in Loop, TickFails(l) PROVE TwiceInv'
  BY <1>14, TwiceScheduled DEF TickFails
<1>15. ASSUME NEW l \in Loop, NEW p \in Pool, PassOver(l, p) PROVE TwiceInv'
  BY <1>6, <1>15 DEF PassOver, NextLog, Drop, Phases, TypeOK, Stages
<1>16. ASSUME NEW l \in Loop, NEW p \in Pool, TooThin(l, p) PROVE TwiceInv'
  BY <1>6, <1>16 DEF TooThin, NextLog, Drop, Phases, TypeOK, Stages
<1>17. ASSUME NEW l \in Loop, NEW p \in Pool, Irrelevant(l, p) PROVE TwiceInv'
  BY <1>6, <1>17 DEF Irrelevant, NextLog, Drop, Phases, TypeOK, Stages
<1>18. ASSUME NEW l \in Loop, NEW p \in Pool, Take(l, p) PROVE TwiceInv'
  BY <1>18, TwiceTake
<1>19. ASSUME NEW l \in Loop, NEW p \in Pool, PublishPool(l, p) PROVE TwiceInv'
  BY <1>19, TwicePublishPool
<1>20. ASSUME NEW l \in Loop, NEW p \in Pool, PublishToken(l, p) PROVE TwiceInv'
  BY <1>20, TwicePublishToken
<1>21. ASSUME NEW l \in Loop, NEW p \in Pool, MarkSeen(l, p) PROVE TwiceInv'
  BY <1>21, TwiceMarkSeen
<1> QED
  BY <1>1, <1>2, <1>3, <1>4, <1>5, <1>7, <1>8, <1>9, <1>10, <1>11, <1>12, <1>13,
     <1>14, <1>15, <1>16, <1>17, <1>18, <1>19, <1>20, <1>21 DEF Next, TickStep

(* A pool is announced again only when a tick that had announced it died,  *)
(* another had it in hand, or the store was lost, for any number of loops. *)
THEOREM TwiceForCause == Spec => []TwiceOnlyWithCause
<1>1. TypeOK /\ TwiceInv /\ [Next]_vars => TypeOK' /\ TwiceInv'
  BY TypeStep, TwiceStep
<1>2. TypeOK /\ TwiceInv => TwiceOnlyWithCause
  <2> SUFFICES ASSUME TypeOK, TwiceInv, NEW p \in Pool
               PROVE  detected[p] <= created[p] /\ created[p] <= 1 + excuse[p]
    BY DEF TwiceOnlyWithCause
  <2>1. /\ detected[p] + Cardinality(At(p, "token")) <= created[p]
        /\ created[p] + Cardinality(At(p, "publish")) <= excuse[p] + First(p)
    BY DEF TwiceInv
  <2>2. /\ First(p) \in {0, 1} /\ Cardinality(At(p, "publish")) \in Nat
        /\ Cardinality(At(p, "token")) \in Nat
    BY AtFinite DEF First
  <2>3. created[p] \in Nat /\ detected[p] \in Nat /\ excuse[p] \in Nat
    BY DEF TypeOK
  <2> QED
    BY <2>1, <2>2, <2>3
<1> QED
  BY <1>1, <1>2, TypeInit, TwiceInit, PTL DEF Spec

-----------------------------------------------------------------------------
(* The polling loops.  While the scanner runs, the loop whose timer was    *)
(* set last is one of them, so stop() ends a loop: at once, or when its    *)
(* tick is over; only a start() in between can add one.                    *)
Looping == {l \in Loop : Alive(l)}
InFlight == \E l \in Loop : tick[l].pc \in InTick

LoopInv ==
  /\ LoopsOnlyByHandover
  /\ running => timer \in Looping
  /\ running \/ Cardinality(Looping) <= overlaps \/ InFlight

LEMMA LoopCount ==
  /\ IsFiniteSet(Looping) /\ Cardinality(Looping) \in Nat
  /\ IsFiniteSet(Looping') /\ Cardinality(Looping') \in Nat
<1>1. IsFiniteSet(Looping) /\ IsFiniteSet(Looping')
  BY FS_Subset, ScannerAssumption DEF Looping
<1> QED
  BY <1>1, FS_CardinalityType

(* The number of loops in terms of their set.                              *)
LEMMA LoopsCounted == LoopsOnlyByHandover <=> Cardinality(Looping) <= 1 + overlaps
  BY DEF LoopsOnlyByHandover, Looping

(* A loop that ends is one less, one that starts one more.                 *)
LEMMA LoopLess ==
  ASSUME NEW l \in Looping, Looping' = Looping \ {l}
  PROVE  Cardinality(Looping') = Cardinality(Looping) - 1
  BY LoopCount, FS_RemoveElement

LEMMA LoopMore ==
  ASSUME NEW l, l \notin Looping, Looping' = Looping \cup {l}
  PROVE  Cardinality(Looping') = Cardinality(Looping) + 1
  BY LoopCount, FS_AddElement

LEMMA LoopStart ==
  ASSUME TypeOK, LoopInv, NEW l \in Loop, Start(l)
  PROVE  LoopInv'
<1>1. /\ ~running /\ tick[l].pc = "off" /\ running' = TRUE /\ timer' = l
      /\ tick' = [tick EXCEPT ![l] = Waiting]
      /\ overlaps' = IF InFlight THEN overlaps + 1 ELSE overlaps
  BY DEF Start, InFlight
<1>2. Looping' = Looping \cup {l} /\ l \notin Looping
  BY <1>1 DEF Looping, Alive, Waiting, Off, TypeOK
<1>3. Cardinality(Looping') = Cardinality(Looping) + 1
  BY <1>2, LoopMore
<1>4. /\ InFlight => Cardinality(Looping) <= 1 + overlaps
      /\ ~InFlight => Cardinality(Looping) <= overlaps
  BY <1>1, LoopsCounted DEF LoopInv
<1>5. overlaps \in Nat /\ overlaps' \in Nat
  BY <1>1 DEF TypeOK
<1>6. Cardinality(Looping') <= 1 + overlaps'
  BY <1>1, <1>3, <1>4, <1>5, LoopCount
<1>7. LoopsOnlyByHandover'
  BY <1>6 DEF LoopsOnlyByHandover, Looping
<1> QED
  BY <1>1, <1>2, <1>7 DEF LoopInv

LEMMA LoopStop ==
  ASSUME TypeOK, LoopInv, Stop
  PROVE  LoopInv'
<1>1. /\ running /\ running' = FALSE /\ overlaps' = overlaps
      /\ tick' = [l \in Loop |-> IF l = timer /\ tick[l].pc = "timer" THEN Off ELSE tick[l]]
  BY DEF Stop, history
<1>2. timer \in Looping /\ Cardinality(Looping) <= 1 + overlaps /\ overlaps \in Nat
  BY <1>1, LoopsCounted DEF LoopInv, TypeOK
<1>3. CASE tick[timer].pc = "timer"
  <2>1. Looping' = Looping \ {timer}
    BY <1>1, <1>2, <1>3 DEF Looping, Alive, Off, TypeOK
  <2>2. Cardinality(Looping') <= overlaps'
    <3>1. Cardinality(Looping') = Cardinality(Looping) - 1
      BY <1>2, <2>1, LoopLess
    <3>2. /\ Cardinality(Looping) \in Nat /\ Cardinality(Looping') \in Nat
          /\ Cardinality(Looping) <= 1 + overlaps /\ overlaps \in Nat /\ overlaps' = overlaps
      BY <1>1, <1>2, LoopCount
    <3> HIDE DEF Looping
    <3> QED
      BY <3>1, <3>2
  <2>3. LoopsOnlyByHandover'
    BY <1>1, <1>2, <2>2, LoopCount DEF LoopsOnlyByHandover, Looping
  <2> QED
    BY <1>1, <2>2, <2>3 DEF LoopInv
<1>4. CASE tick[timer].pc # "timer"
  <2>1. tick' = tick
    BY <1>1, <1>4 DEF TypeOK
  <2>2. Looping' = Looping /\ timer \in Loop
    BY <1>2, <2>1 DEF Looping, Alive
  <2>3. tick[timer].pc \in InTick
    BY <1>2, <1>4, <2>2 DEF Looping, Alive, TypeOK, Stages
  <2>4. InFlight'
    BY <2>1, <2>2, <2>3 DEF InFlight
  <2>5. LoopsOnlyByHandover'
    BY <1>1, <2>1 DEF LoopInv, LoopsOnlyByHandover, Alive
  <2> QED
    BY <1>1, <2>4, <2>5 DEF LoopInv
<1> QED
  BY <1>3, <1>4

(* A tick that ends goes on or, once stopped, is one loop less.            *)
LEMMA LoopSchedule ==
  ASSUME TypeOK, LoopInv, NEW l \in Loop, tick[l].pc \in InTick, Schedule(l),
         UNCHANGED <<running, overlaps>>
  PROVE  LoopInv'
<1>1. l \in Looping
  BY DEF Looping, Alive, InTick
<1>2. Cardinality(Looping) <= 1 + overlaps /\ overlaps \in Nat
  BY LoopsCounted DEF LoopInv, TypeOK
<1>3. CASE running
  <2>1. Looping' = Looping /\ timer' = l
    BY <1>1, <1>3 DEF Schedule, Looping, Alive, Waiting, Off, TypeOK
  <2>2. Cardinality(Looping') <= 1 + overlaps'
    BY <1>2, <2>1
  <2>3. LoopsOnlyByHandover'
    BY <2>2 DEF LoopsOnlyByHandover, Looping
  <2> QED
    BY <1>1, <1>3, <2>1, <2>3 DEF LoopInv
<1>4. CASE ~running
  <2>1. Looping' = Looping \ {l}
    BY <1>1, <1>4 DEF Schedule, Looping, Alive, Off, TypeOK
  <2>2. Cardinality(Looping') <= overlaps'
    <3>1. Cardinality(Looping') = Cardinality(Looping) - 1
      BY <1>1, <2>1, LoopLess
    <3>2. Cardinality(Looping) \in Nat /\ Cardinality(Looping') \in Nat
      BY LoopCount
    <3> HIDE DEF Looping
    <3> QED
      BY <1>1, <1>2, <3>1, <3>2
  <2>3. LoopsOnlyByHandover'
    BY <1>2, <2>2, LoopCount DEF LoopsOnlyByHandover, Looping
  <2> QED
    BY <1>4, <2>2, <2>3 DEF LoopInv
<1> QED
  BY <1>3, <1>4

(* Steps within a tick neither end nor start a loop.                       *)
LEMMA LoopMoves ==
  ASSUME TypeOK, LoopInv, NEW l \in Loop, Alive(l), tick'[l].pc \in InTick,
         \A m \in Loop \ {l} : tick'[m] = tick[m], UNCHANGED <<running, timer, overlaps>>
  PROVE  LoopInv'
<1>1. Looping' = Looping
  BY DEF Looping, Alive, InTick
<1>2. LoopsOnlyByHandover'
  BY <1>1, LoopsCounted DEF LoopInv, LoopsOnlyByHandover, Looping
<1>3. InFlight'
  BY DEF InFlight
<1> QED
  BY <1>1, <1>2, <1>3 DEF LoopInv

LEMMA LoopStep == TypeOK /\ LoopInv /\ [Next]_vars => LoopInv'
<1> SUFFICES ASSUME TypeOK, LoopInv, [Next]_vars PROVE LoopInv'
  OBVIOUS
<1> USE DEF chain, store, events, history
<1>0. ASSUME UNCHANGED <<tick, running, timer, overlaps>> PROVE LoopInv'
  BY <1>0 DEF LoopInv, LoopsOnlyByHandover, Looping, Alive, InFlight
<1>1. CASE UNCHANGED vars \/ Mine
  BY <1>0, <1>1 DEF vars, Mine
<1>2. CASE Crash
  <2>1. /\ tick' = [l \in Loop |-> Off] /\ running' = FALSE /\ overlaps' = overlaps
    BY <1>2 DEF Crash
  <2>2. Looping' = {}
    BY <2>1 DEF Looping, Alive, Off
  <2>3. Cardinality(Looping') = 0 /\ overlaps \in Nat
    BY <2>2, FS_EmptySet DEF TypeOK
  <2>4. LoopsOnlyByHandover'
    BY <2>1, <2>3 DEF LoopsOnlyByHandover, Looping
  <2> QED
    BY <2>1, <2>3, <2>4 DEF LoopInv
<1>3. ASSUME NEW p \in Pool, Fund(p) PROVE LoopInv'
  BY <1>0, <1>3 DEF Fund
<1>4. ASSUME NEW l \in Loop, FirstRun(l) \/ GetLogs(l) PROVE LoopInv'
  BY <1>4, LoopMoves DEF FirstRun, GetLogs, Alive, InTick, TypeOK, Stages
<1>5. ASSUME NEW l \in Loop, NEW h \in (head - Lag)..head, Fire(l, h) PROVE LoopInv'
  BY <1>5, LoopMoves DEF Fire, Alive, InTick, TypeOK, Stages
<1>6. ASSUME NEW l \in Loop, SetFirst(l) \/ CaughtUp(l) \/ Advance(l) \/ TickFails(l) PROVE LoopInv'
  BY <1>6, LoopSchedule DEF SetFirst, CaughtUp, Advance, TickFails, InTick
<1>7. ASSUME NEW l \in Loop, NEW p \in Pool, PassOver(l, p) \/ TooThin(l, p) \/ Irrelevant(l, p)
      PROVE  LoopInv'
  BY <1>7, LoopMoves DEF PassOver, TooThin, Irrelevant, NextLog, Drop, Alive, InTick, TypeOK, Stages
<1>8. ASSUME NEW l \in Loop, NEW p \in Pool, Take(l, p) \/ MarkSeen(l, p) PROVE LoopInv'
  BY <1>8, LoopMoves DEF Take, MarkSeen, NextLog, Alive, InTick, TypeOK, Stages
<1>9. ASSUME NEW l \in Loop, NEW p \in Pool, PublishPool(l, p) \/ PublishToken(l, p) PROVE LoopInv'
  BY <1>9, LoopMoves DEF PublishPool, PublishToken, Alive, InTick, TypeOK, Stages
<1>10. ASSUME NEW l \in Loop, Start(l) PROVE LoopInv'
  BY <1>10, LoopStart
<1> QED
  BY <1>1, <1>2, <1>3, <1>4, <1>5, <1>6, <1>7, <1>8, <1>9, <1>10, LoopStop DEF Next, TickStep

(* However often the scanner is stopped, started and restarted, a loop too *)
(* many comes only from a start() that found a tick in flight.             *)
THEOREM LoopsBounded == Spec => []LoopsOnlyByHandover
<1>1. Init => LoopInv
  <2> SUFFICES ASSUME Init PROVE LoopInv
    OBVIOUS
  <2>1. Looping = {} /\ running = FALSE /\ overlaps = 0
    BY DEF Init, Looping, Alive, Off
  <2>2. Cardinality(Looping) = 0
    BY <2>1, FS_EmptySet
  <2> QED
    BY <2>1, <2>2, LoopsCounted DEF LoopInv
<1>2. TypeOK /\ LoopInv /\ [Next]_vars => TypeOK' /\ LoopInv'
  BY TypeStep, LoopStep
<1>3. LoopInv => LoopsOnlyByHandover
  BY DEF LoopInv
<1> QED
  BY <1>1, <1>2, <1>3, TypeInit, PTL DEF Spec

----------------------------------------------------------------------------
(* The shield: how old the reads are that an assessment, an entry and an   *)
(* answer rest on.                                                         *)
Asked == [pc : {"code"}, quick : BOOLEAN]
Assessing == [pc : {"detect"}, quick : BOOLEAN, age : Nat, left : Nat, verdict : Verdicts, late : BOOLEAN]
Pending == {k \in Assessing : k.age + k.left = DetectorTimeout}
Fresh == {k \in [pc : {"answered"}, age : Nat, verdict : Verdicts] : k.age < CacheTtl + DetectorTimeout}
Entry == {e \in [verdict : Verdicts, age : Nat, left : Nat \ {0}] :
            e.left <= CacheTtl /\ e.age + e.left <= CacheTtl + DetectorTimeout}

ShieldInv ==
    /\ calls \in [Caller -> {AtRest} \cup Asked \cup Pending \cup Fresh]
    /\ cache \in {NoEntry} \cup Entry

LEMMA TtlFacts == CacheTtl \in Nat \ {0} /\ DetectorTimeout \in Nat \ {0}
BY ShieldAssumption

LEMMA AssessmentTyped ==
  ASSUME NEW quick \in BOOLEAN, NEW j \in Assessments[quick]
  PROVE  j.verdict \in Verdicts /\ j.late \in BOOLEAN
<1>1. PICK w \in Worlds : j \in AssessmentsOf(DetectorsOf(quick), w)
  BY DEF Assessments
<1> DEFINE ds == DetectorsOf(quick)
<1>2. PICK mix \in FaultMixes :
        /\ j.verdict = Verdict(ds, w, mix)
        /\ j.late = \E d \in ds : Late(d, w, mix)
  <2>1. PICK mix \in FaultMixes :
          j = [verdict |-> Verdict(ds, w, mix), clear |-> Verdict(ds, w, {}),
               late |-> \E d \in ds : Late(d, w, mix), blind |-> Blindness(mix)]
    BY <1>1, Zenon DEF AssessmentsOf
  <2>2. j.verdict = Verdict(ds, w, mix) /\ j.late = \E d \in ds : Late(d, w, mix)
    BY <2>1, Zenon
  <2> QED
    BY <2>2
<1>3. Verdict(ds, w, mix) \in Verdicts
  BY DEF Verdict, Verdicts
<1>4. (\E d \in ds : Late(d, w, mix)) \in BOOLEAN
  OBVIOUS
<1> QED
  BY <1>2, <1>3, <1>4

LEMMA ShieldInitial == ShieldInit => ShieldInv
BY DEF ShieldInit, ShieldInv

LEMMA ShieldStep == ShieldInv /\ [ShieldNext]_shieldVars => ShieldInv'
<1> SUFFICES ASSUME ShieldInv, [ShieldNext]_shieldVars PROVE ShieldInv'
  OBVIOUS
<1> DEFINE States == {AtRest} \cup Asked \cup Pending \cup Fresh
<1>0. calls \in [Caller -> States] /\ cache \in {NoEntry} \cup Entry
  BY DEF ShieldInv
<1>1. CASE UNCHANGED shieldVars
  BY <1>1 DEF shieldVars, ShieldInv
<1>2. ASSUME NEW c \in Caller, Begin(c) PROVE ShieldInv'
  <2>1. calls' = [calls EXCEPT ![c] = IF cache.left > 0 THEN Hit ELSE Missed] /\ cache' = cache
    BY <1>2 DEF Begin
  <2>2. CASE cache.left > 0
    <3>1. cache \in Entry
      BY <1>0, <2>2 DEF NoEntry
    <3>2. Hit \in Fresh
      BY <3>1, TtlFacts DEF Entry, Hit, Fresh
    <3> HIDE DEF States
    <3>3. calls' = [calls EXCEPT ![c] = Hit] /\ Hit \in States
      BY <2>1, <2>2, <3>2 DEF States
    <3> QED
      BY <1>0, <2>1, <3>3 DEF ShieldInv, States
  <2>3. CASE ~(cache.left > 0)
    <3>1. Missed \in Asked
      BY DEF Missed, Asked
    <3> HIDE DEF States
    <3>2. calls' = [calls EXCEPT ![c] = Missed] /\ Missed \in States
      BY <2>1, <2>3, <3>1 DEF States
    <3> QED
      BY <1>0, <2>1, <3>2 DEF ShieldInv, States
  <2> QED
    BY <2>2, <2>3
<1>3. ASSUME NEW c \in Caller, BeginFull(c) PROVE ShieldInv'
  <2>1. /\ calls' = [calls EXCEPT ![c] = [pc |-> "code", quick |-> FALSE]] /\ cache' = cache
        /\ [pc |-> "code", quick |-> FALSE] \in Asked
    BY <1>3 DEF BeginFull, Asked
  <2> QED
    BY <1>0, <2>1 DEF ShieldInv
<1>4. ASSUME NEW c \in Caller, Detect(c) PROVE ShieldInv'
  <2> DEFINE k == [pc |-> "detect", quick |-> calls[c].quick, age |-> 0, left |-> DetectorTimeout,
                   verdict |-> judged'.verdict, late |-> judged'.late]
  <2>1. /\ calls[c].pc = "code" /\ judged' \in Assessments[calls[c].quick]
        /\ calls' = [calls EXCEPT ![c] = k] /\ cache' = cache
    BY <1>4 DEF Detect
  <2>2. calls[c].quick \in BOOLEAN
    BY <1>0, <2>1 DEF AtRest, Asked, Pending, Fresh, Assessing
  <2>3. judged'.verdict \in Verdicts /\ judged'.late \in BOOLEAN
    BY <2>1, <2>2, AssessmentTyped
  <2>4. k \in Pending
    <3>1. k \in Assessing
      BY <2>2, <2>3, TtlFacts DEF Assessing
    <3>2. k.age + k.left = DetectorTimeout
      BY TtlFacts
    <3> QED
      BY <3>1, <3>2 DEF Pending
  <2> HIDE DEF k
  <2> QED
    BY <1>0, <2>1, <2>4 DEF ShieldInv
<1>5. ASSUME NEW c \in Caller, Answer(c) PROVE ShieldInv'
  <2> DEFINE k == calls[c]
  <2>1. /\ k.pc = "detect" /\ calls' = [calls EXCEPT ![c] = Answered(k)] /\ cache' = Kept(k)
    BY <1>5 DEF Answer
  <2>2. k \in Pending
    BY <1>0, <2>1 DEF AtRest, Asked, Fresh
  <2> HIDE DEF k
  <2>3. k \in Assessing /\ k.age \in Nat /\ k.left \in Nat /\ k.verdict \in Verdicts
        /\ k.age + k.left = DetectorTimeout
    BY <2>2 DEF Pending, Assessing
  <2>4. k.age <= DetectorTimeout /\ k.age < CacheTtl + DetectorTimeout
    BY <2>3, TtlFacts
  <2>5. Answered(k) \in Fresh
    BY <2>3, <2>4 DEF Answered, Fresh
  <2>6. Kept(k) \in {NoEntry} \cup Entry
    <3>1. CASE k.quick
      <4>1. Kept(k) = [verdict |-> k.verdict, age |-> k.age, left |-> CacheTtl]
        BY <3>1 DEF Kept
      <4> QED
        BY <2>3, <2>4, <4>1, TtlFacts DEF Entry
    <3>2. CASE ~k.quick
      BY <1>0, <3>2 DEF Kept
    <3> QED
      BY <3>1, <3>2
  <2> QED
    BY <1>0, <2>1, <2>5, <2>6 DEF ShieldInv
<1>6. CASE Passes
  <2> DEFINE aged(k) == IF k.pc = "detect" THEN [k EXCEPT !.age = Older(@), !.left = @ - 1] ELSE k
  <2>1. /\ \A c \in Caller : calls[c].pc = "detect" => calls[c].left > 0
        /\ calls' = [c \in Caller |-> aged(calls[c])]
        /\ cache' = IF cache.left <= 1 THEN NoEntry ELSE [cache EXCEPT !.age = Older(@), !.left = @ - 1]
    BY <1>6 DEF Passes
  <2>2. \A n \in Nat : n < MaxAge => Older(n) = n + 1
    BY DEF Older
  <2>3. ASSUME NEW c \in Caller PROVE aged(calls[c]) \in States
    <3> DEFINE k == calls[c]
    <3>0. k \in States
      BY <1>0
    <3>1. CASE k.pc = "detect"
      <4>1. k \in Pending
        BY <1>0, <3>1 DEF AtRest, Asked, Fresh
      <4> HIDE DEF k
      <4>2. /\ k \in Assessing /\ k.age \in Nat /\ k.left \in Nat /\ k.age + k.left = DetectorTimeout
        BY <4>1 DEF Pending, Assessing
      <4>3. k.left > 0 /\ k.age < MaxAge
        <5>1. k.left > 0
          BY <2>1, <3>1 DEF k
        <5>2. k.age < MaxAge
          BY <4>2, TtlFacts DEF MaxAge
        <5> QED
          BY <5>1, <5>2
      <4>4. aged(k) = [k EXCEPT !.age = k.age + 1, !.left = k.left - 1]
        BY <2>2, <3>1, <4>2, <4>3
      <4>5. k.age + 1 \in Nat /\ k.left - 1 \in Nat /\ (k.age + 1) + (k.left - 1) = DetectorTimeout
        BY <4>2, <4>3
      <4> HIDE DEF aged
      <4>6. aged(k) \in Assessing /\ aged(k).age = k.age + 1 /\ aged(k).left = k.left - 1
        BY <4>2, <4>4, <4>5 DEF Assessing
      <4>7. aged(k) \in Pending
        BY <4>5, <4>6 DEF Pending
      <4> QED
        BY <4>7 DEF k
    <3>2. CASE k.pc # "detect"
      BY <3>0, <3>2
    <3> QED
      BY <3>1, <3>2
  <2>4. calls' \in [Caller -> States]
    <3> HIDE DEF aged, States
    <3> QED
      BY <2>1, <2>3
  <2>5. cache' \in {NoEntry} \cup Entry
    <3>1. CASE cache.left <= 1
      BY <2>1, <3>1
    <3>2. CASE ~(cache.left <= 1)
      <4>1. cache \in Entry
        BY <1>0, <3>2 DEF NoEntry
      <4>2. /\ cache \in [verdict : Verdicts, age : Nat, left : Nat \ {0}]
            /\ cache.age \in Nat /\ cache.left \in Nat \ {0, 1} /\ cache.left <= CacheTtl
            /\ cache.age + cache.left <= CacheTtl + DetectorTimeout
        BY <3>2, <4>1 DEF Entry
      <4>3. cache.age < MaxAge
        BY <4>2, TtlFacts DEF MaxAge
      <4>4. cache' = [cache EXCEPT !.age = cache.age + 1, !.left = cache.left - 1]
        BY <2>1, <2>2, <3>2, <4>2, <4>3
      <4>5. cache.age + 1 \in Nat /\ cache.left - 1 \in Nat \ {0} /\ cache.left - 1 <= CacheTtl
            /\ (cache.age + 1) + (cache.left - 1) <= CacheTtl + DetectorTimeout
        BY <4>2, TtlFacts
      <4>6. /\ cache' \in [verdict : Verdicts, age : Nat, left : Nat \ {0}]
            /\ cache'.age = cache.age + 1 /\ cache'.left = cache.left - 1
        BY <4>2, <4>4, <4>5
      <4> QED
        BY <4>5, <4>6 DEF Entry
    <3> QED
      BY <3>1, <3>2
  <2> HIDE DEF States
  <2> QED
    BY <2>4, <2>5 DEF ShieldInv, States
<1> QED
  BY <1>1, <1>2, <1>3, <1>4, <1>5, <1>6 DEF ShieldNext

(* analyzer.ts:128-140: for any callers, worlds and mix, an answer,     *)
(* from the cache or not, is younger than the cache's TTL and a timeout.   *)
THEOREM AnswersAreRecent == ShieldSpec => []AnswerIsRecent
<1>1. ShieldInv => AnswerIsRecent
  BY DEF ShieldInv, AnswerIsRecent, AtRest, Asked, Pending, Assessing, Fresh
<1> QED
  BY <1>1, ShieldInitial, ShieldStep, PTL DEF ShieldSpec

(* Ages and timers of the shield stay within the bounds of its model.      *)
THEOREM ShieldTypeCorrect == ShieldSpec => []ShieldTypeOK
<1>1. ASSUME NEW e \in Entry
      PROVE  e \in [verdict : Verdicts, age : 0..MaxAge, left : 0..CacheTtl]
  <2>1. /\ e \in [verdict : Verdicts, age : Nat, left : Nat \ {0}]
        /\ e.left <= CacheTtl /\ e.age + e.left <= CacheTtl + DetectorTimeout
    BY DEF Entry
  <2>2. e.age \in 0..MaxAge /\ e.left \in 0..CacheTtl
    BY <2>1, TtlFacts DEF MaxAge
  <2> QED
    BY <2>1, <2>2
<1>2. ShieldInv => ShieldTypeOK
  <2> SUFFICES ASSUME ShieldInv PROVE ShieldTypeOK
    OBVIOUS
  <2>1. cache = NoEntry \/ cache \in [verdict : Verdicts, age : 0..MaxAge, left : 0..CacheTtl]
    BY <1>1 DEF ShieldInv
  <2>2. \A c \in Caller : calls[c].pc \in {"rest", "code", "detect", "answered"}
    BY DEF ShieldInv, AtRest, Asked, Pending, Assessing, Fresh
  <2> QED
    BY <2>1, <2>2 DEF ShieldTypeOK
<1> QED
  BY <1>2, ShieldInitial, ShieldStep, PTL DEF ShieldSpec

----------------------------------------------------------------------------
(* The shield's score as a sum of points, one number per detector.         *)
Points(w, mix) == [d \in Detector |-> Factor(d, w, mix) * Weight(d)]
WeightOf == [d \in Detector |-> Weight(d)]

Once(mix) == \A d \in Reading : ~(<<d, "error">> \in mix /\ <<d, "late">> \in mix)

LEMMA DetectorsFinite == IsFiniteSet(Detector) /\ Fast \subseteq Detector /\ Detector = Fast \cup {"concentration"}
<1>1. Detector = {"mint", "pause", "limits", "liquidity", "lp", "owner", "proxy", "taxes",
                  "honeypot", "shape", "concentration"}
  BY DEF Detector, ByCode, Reading
<1> DEFINE rank == [i \in 1..11 |->
        CASE i = 1 -> "mint" [] i = 2 -> "pause" [] i = 3 -> "limits" [] i = 4 -> "liquidity"
          [] i = 5 -> "lp" [] i = 6 -> "owner" [] i = 7 -> "proxy" [] i = 8 -> "taxes"
          [] i = 9 -> "honeypot" [] i = 10 -> "shape" [] i = 11 -> "concentration"]
<1>2. rank \in Surjection(1..11, Detector)
  <2>1. \A i \in 1..11 : rank[i] \in Detector
    BY <1>1
  <2>2. /\ rank[1] = "mint" /\ rank[2] = "pause" /\ rank[3] = "limits" /\ rank[4] = "liquidity"
        /\ rank[5] = "lp" /\ rank[6] = "owner" /\ rank[7] = "proxy" /\ rank[8] = "taxes"
        /\ rank[9] = "honeypot" /\ rank[10] = "shape" /\ rank[11] = "concentration"
    OBVIOUS
  <2>3. \A d \in Detector : \E i \in 1..11 : rank[i] = d
    <3> HIDE DEF rank
    <3> QED
      BY <1>1, <2>2
  <2>4. rank \in [1..11 -> Detector]
    BY <2>1
  <2> QED
    BY <2>3, <2>4 DEF Surjection
<1>3. IsFiniteSet(Detector)
  <2>1. IsFiniteSet(1..11)
    <3>1. 1 \in Int /\ 11 \in Int
      OBVIOUS
    <3> QED
      BY <3>1, FS_Interval, Zenon
  <2> HIDE DEF rank
  <2> QED
    BY <1>2, <2>1, FS_Surjection
<1> QED
  BY <1>3 DEF Fast, Detector, Reading

LEMMA WeightFacts ==
  /\ Weight("honeypot") = 20 /\ Weight("liquidity") = 15 /\ Weight("lp") = 15
  /\ Weight("owner") = 10 /\ Weight("mint") = 10 /\ Weight("pause") = 10
  /\ Weight("proxy") = 8 /\ Weight("taxes") = 8 /\ Weight("limits") = 6
  /\ Weight("concentration") = 5 /\ Weight("shape") = 3
BY DEF Weight

(* A sum over all detectors, or all but the slow one, written out.         *)
LEMMA SumWrittenOut ==
  ASSUME NEW f, \A d \in Detector : f[d] \in Int
  PROVE  /\ SumFunctionOnSet(f, Fast) =
              f["mint"] + f["pause"] + f["limits"] + f["liquidity"] + f["lp"] + f["owner"]
              + f["proxy"] + f["taxes"] + f["honeypot"] + f["shape"]
         /\ SumFunctionOnSet(f, Detector) = SumFunctionOnSet(f, Fast) + f["concentration"]
<1> DEFINE S0 == {}
           S1 == S0 \cup {"shape"}
           S2 == S1 \cup {"honeypot"}
           S3 == S2 \cup {"taxes"}
           S4 == S3 \cup {"proxy"}
           S5 == S4 \cup {"owner"}
           S6 == S5 \cup {"lp"}
           S7 == S6 \cup {"liquidity"}
           S8 == S7 \cup {"limits"}
           S9 == S8 \cup {"pause"}
           S10 == S9 \cup {"mint"}
           S11 == S10 \cup {"concentration"}
<1> DEFINE Sum(S) == SumFunctionOnSet(f, S)
<1>1. S11 = Detector /\ S10 = Fast
  BY DEF Detector, Fast, ByCode, Reading
<1>2. ASSUME NEW S \in SUBSET Detector, NEW d \in Detector, d \notin S
      PROVE  Sum(S \cup {d}) = f[d] + Sum(S)
  <2> DEFINE T == S \cup {d}
  <2>1. T \in SUBSET Detector /\ d \in T /\ T \ {d} = S
    BY <1>2
  <2>2. IsFiniteSet(T) /\ \A x \in T : f[x] \in Int
    BY <2>1, DetectorsFinite, FS_Subset
  <2> HIDE DEF T
  <2>3. SumFunctionOnSet(f, T) = f[d] + SumFunctionOnSet(f, T \ {d})
    BY <2>1, <2>2, SumRemove
  <2> QED
    BY <2>1, <2>3 DEF T
<1> HIDE DEF Sum
<1>3. Sum(S0) = 0
  BY FS_EmptySet, SumStep DEF Sum
<1>d. {"mint", "pause", "limits", "liquidity", "lp", "owner", "proxy", "taxes",
                  "honeypot", "shape", "concentration"} \subseteq Detector
  BY DEF Detector, ByCode, Reading
<1>4. Sum(S1) = f["shape"] + Sum(S0)
  BY <1>2, <1>d
<1>5. Sum(S2) = f["honeypot"] + Sum(S1)
  BY <1>2, <1>d
<1>6. Sum(S3) = f["taxes"] + Sum(S2)
  BY <1>2, <1>d
<1>7. Sum(S4) = f["proxy"] + Sum(S3)
  BY <1>2, <1>d
<1>8. Sum(S5) = f["owner"] + Sum(S4)
  BY <1>2, <1>d
<1>9. Sum(S6) = f["lp"] + Sum(S5)
  BY <1>2, <1>d
<1>10. Sum(S7) = f["liquidity"] + Sum(S6)
  BY <1>2, <1>d
<1>11. Sum(S8) = f["limits"] + Sum(S7)
  BY <1>2, <1>d
<1>12. Sum(S9) = f["pause"] + Sum(S8)
  BY <1>2, <1>d
<1>13. Sum(S10) = f["mint"] + Sum(S9)
  BY <1>2, <1>d
<1>14. Sum(S11) = f["concentration"] + Sum(S10)
  BY <1>2, <1>d
<1>15. /\ f["mint"] \in Int /\ f["pause"] \in Int /\ f["limits"] \in Int /\ f["liquidity"] \in Int
       /\ f["lp"] \in Int /\ f["owner"] \in Int /\ f["proxy"] \in Int /\ f["taxes"] \in Int
       /\ f["honeypot"] \in Int /\ f["shape"] \in Int /\ f["concentration"] \in Int
  BY <1>d
<1> HIDE DEF S0, S1, S2, S3, S4, S5, S6, S7, S8, S9, S10, S11
<1> QED
  BY <1>1, <1>3, <1>4, <1>5, <1>6, <1>7, <1>8, <1>9, <1>10, <1>11, <1>12, <1>13, <1>14, <1>15 DEF Sum

(* The score as a sum, for it is defined by a fold of its own.             *)
Weights(g, ds) ==
    g = [s \in SUBSET ds |-> IF s = {} THEN 0 ELSE Weight(Chosen(s)) + g[s \ {Chosen(s)}]]
Weighted(g, ds, w, mix) ==
    g = [s \in SUBSET ds |-> IF s = {} THEN 0
                             ELSE Factor(Chosen(s), w, mix) * Weight(Chosen(s)) + g[s \ {Chosen(s)}]]

LEMMA TotalIsSum ==
  ASSUME NEW ds \in SUBSET Detector
  PROVE  TotalWeight(ds) = SumFunctionOnSet(WeightOf, ds)
<1>1. TotalWeight(ds) = (CHOOSE g : Weights(g, ds))[ds]
  BY DEF TotalWeight, MapThenSumSet, MapThenFoldSet, Weights, Chosen
<1>2. \A g : Weights(g, ds) <=> Totals(g, WeightOf, ds)
  <2>1. \A s \in SUBSET ds : s # {} => Chosen(s) \in Detector
    BY DEF Chosen
  <2>2. \A s \in SUBSET ds : s # {} => WeightOf[Chosen(s)] = Weight(Chosen(s))
    BY <2>1 DEF WeightOf
  <2> QED
    BY <2>2 DEF Weights, Totals
<1>3. IsFiniteSet(ds)
  BY DetectorsFinite, FS_Subset
<1>4. \A d \in ds : WeightOf[d] \in Int
  BY WeightFacts DEF WeightOf, Detector, ByCode, Reading
<1>5. \E g : Totals(g, WeightOf, ds)
  BY <1>3, <1>4, TotalsOfSubsets
<1> DEFINE a == CHOOSE g : Weights(g, ds)
           b == CHOOSE g : Totals(g, WeightOf, ds)
<1>6. Totals(a, WeightOf, ds) /\ Totals(b, WeightOf, ds)
  BY <1>2, <1>5
<1> HIDE DEF a, b
<1>7. a[ds] = b[ds]
  BY <1>3, <1>6, TotalsAgree
<1> QED
  BY <1>1, <1>7, SumUnfolds DEF a, b

LEMMA ScoreIsSum ==
  ASSUME NEW ds \in SUBSET Detector, NEW w, NEW mix,
         \A d \in Detector : Points(w, mix)[d] \in Int
  PROVE  Score(ds, w, mix) = (200 * SumFunctionOnSet(Points(w, mix), ds) + TotalWeight(ds))
                                 \div (2 * TotalWeight(ds))
<1> DEFINE pts == Points(w, mix)
           sum == MapThenSumSet(LAMBDA d : Factor(d, w, mix) * Weight(d), ds)
<1>2. sum = (CHOOSE g : Weighted(g, ds, w, mix))[ds]
  BY DEF MapThenSumSet, MapThenFoldSet, Weighted, Chosen
<1>3. Score(ds, w, mix) = (200 * sum + TotalWeight(ds)) \div (2 * TotalWeight(ds))
  BY DEF Score
<1> HIDE DEF sum
<1>4. \A s \in SUBSET ds : s # {} => Chosen(s) \in Detector
  BY DEF Chosen
<1>6. \A g : Weighted(g, ds, w, mix) <=> Totals(g, pts, ds)
  <2>1. \A s \in SUBSET ds : s # {} => pts[Chosen(s)] = Factor(Chosen(s), w, mix) * Weight(Chosen(s))
    BY <1>4 DEF Points
  <2> HIDE DEF pts
  <2> QED
    BY <2>1 DEF Weighted, Totals
<1>7. IsFiniteSet(ds)
  BY DetectorsFinite, FS_Subset
<1>9. sum = SumFunctionOnSet(pts, ds)
  <2> HIDE DEF pts
  <2>1. \A d \in ds : pts[d] \in Int
    BY DEF pts
  <2>2. \E g : Totals(g, pts, ds)
    BY <1>7, <2>1, TotalsOfSubsets
  <2> DEFINE a == CHOOSE g : Weighted(g, ds, w, mix)
             b == CHOOSE g : Totals(g, pts, ds)
  <2>3. Totals(a, pts, ds) /\ Totals(b, pts, ds)
    BY <1>6, <2>2
  <2> HIDE DEF a, b
  <2>4. a[ds] = b[ds]
    BY <1>7, <2>3, TotalsAgree
  <2> QED
    BY <1>2, <2>4, SumUnfolds DEF a, b
<1> QED
  BY <1>3, <1>9

LEMMA TotalWeights == TotalWeight(Fast) = 105 /\ TotalWeight(Detector) = 110
<1>1. {"mint", "pause", "limits", "liquidity", "lp", "owner", "proxy", "taxes",
       "honeypot", "shape", "concentration"} \subseteq Detector
  BY DEF Detector, ByCode, Reading
<1>2. \A d \in Detector : WeightOf[d] = Weight(d) /\ WeightOf[d] \in Int
  BY WeightFacts DEF WeightOf, Detector, ByCode, Reading
<1>3. /\ SumFunctionOnSet(WeightOf, Fast) =
           WeightOf["mint"] + WeightOf["pause"] + WeightOf["limits"] + WeightOf["liquidity"]
           + WeightOf["lp"] + WeightOf["owner"] + WeightOf["proxy"] + WeightOf["taxes"]
           + WeightOf["honeypot"] + WeightOf["shape"]
      /\ SumFunctionOnSet(WeightOf, Detector) = SumFunctionOnSet(WeightOf, Fast) + WeightOf["concentration"]
  BY <1>2, SumWrittenOut
<1>4. SumFunctionOnSet(WeightOf, Fast) = 105 /\ SumFunctionOnSet(WeightOf, Detector) = 110
  BY <1>1, <1>2, <1>3, WeightFacts
<1> QED
  BY <1>4, TotalIsSum, DetectorsFinite

(* What a detector answers without a fault, and what it may answer with    *)
(* some: its own factor, that of a failed read, or the indeterminate one.  *)
LEMMA Unfaulted ==
  ASSUME NEW w, NEW d
  PROVE  Factor(d, w, {}) = Seen(d, w, w.code)
BY DEF Factor, Late, Errs, Found

LEMMA FactorIs ==
  ASSUME NEW w, NEW mix, NEW d
  PROVE  /\ <<"code", "error">> \in mix => Factor("shape", w, mix) = 100
         /\ (d # "shape" \/ <<"code", "error">> \notin mix) /\ Late(d, w, mix) /\ ~Errs(d, w, mix)
              => Factor(d, w, mix) = INDETERMINATE_SCORE
<1>1. ASSUME <<"code", "error">> \in mix PROVE Factor("shape", w, mix) = 100
  <2>1. ~Reads("shape", w, mix)
    BY <1>1 DEF Reads, ByCode
  <2>2. ~Late("shape", w, mix) /\ ~Errs("shape", w, mix) /\ "shape" # "owner"
    BY <2>1 DEF Late, Errs
  <2> QED
    BY <1>1, <2>2 DEF Factor
<1>2. ASSUME d # "shape" \/ <<"code", "error">> \notin mix, Late(d, w, mix), ~Errs(d, w, mix)
      PROVE  Factor(d, w, mix) = INDETERMINATE_SCORE
  BY <1>2 DEF Factor
<1> QED
  BY <1>1, <1>2

LEMMA Outcomes ==
  ASSUME NEW w, NEW mix, NEW d \in Detector, d # "shape" \/ <<"code", "error">> \notin mix, Once(mix)
  PROVE  /\ \/ Late(d, w, mix) /\ Factor(d, w, mix) = 50
            \/ Errs(d, w, mix) /\ Factor(d, w, mix) = Blind(d, Found(w, mix))
            \/ d = "owner" /\ w.owner = "contract" /\ Factor(d, w, mix) = 45
            \/ ~Late(d, w, mix) /\ ~Errs(d, w, mix) /\ Factor(d, w, mix) = Seen(d, w, Found(w, mix))
         /\ d \in ByCode => Factor(d, w, mix) = Seen(d, w, Found(w, mix))
<1>1. OwnerTier["eoa"] = 45
  BY DEF OwnerTier
<1>2. ASSUME d \in ByCode PROVE ~Late(d, w, mix) /\ ~Errs(d, w, mix) /\ d # "owner"
  BY <1>2 DEF Late, Errs, Reads, ByCode
<1>3. CASE Late(d, w, mix)
  <2>0. ~Errs(d, w, mix)
    <3>1. d \in ByCode \/ d \in Reading \/ d \notin Detector
      BY DEF Detector
    <3> QED
      BY <1>2, <1>3, <3>1 DEF Late, Errs, Once
  <2>1. Factor(d, w, mix) = INDETERMINATE_SCORE
    BY <1>3, <2>0, FactorIs
  <2>2. Factor(d, w, mix) = 50
    BY <2>1 DEF INDETERMINATE_SCORE
  <2> QED
    BY <1>2, <1>3, <2>2
<1>4. CASE ~Late(d, w, mix) /\ Errs(d, w, mix)
  <2>1. Factor(d, w, mix) = Blind(d, Found(w, mix))
    BY <1>4 DEF Factor
  <2> QED
    BY <1>2, <1>4, <2>1
<1>5. CASE ~Late(d, w, mix) /\ ~Errs(d, w, mix)
  <2>1. CASE d = "owner" /\ w.owner = "contract" /\ <<"owner code", "error">> \in mix
    <3>1. Factor(d, w, mix) = OwnerTier["eoa"]
      BY <1>5, <2>1 DEF Factor
    <3> QED
      BY <1>1, <1>2, <2>1, <3>1
  <2>2. CASE ~(d = "owner" /\ w.owner = "contract" /\ <<"owner code", "error">> \in mix)
    <3>1. Factor(d, w, mix) = Seen(d, w, Found(w, mix))
      BY <1>5, <2>2 DEF Factor
    <3> QED
      BY <1>5, <3>1
  <2> QED
    BY <2>1, <2>2
<1> QED
  BY <1>3, <1>4, <1>5

(* What each detector may see, and what it says when it reads nothing.     *)
LEMMA SeenBounds ==
  ASSUME NEW w \in World, NEW code \in SUBSET w.code
  PROVE  /\ \A d \in ByCode : Seen(d, w, code) = (IF d \in code THEN 70 ELSE 10)
         /\ Seen("liquidity", w, code) \in {5, 25, 50, 60, 90}
         /\ w.pool = "none" => Seen("liquidity", w, code) = 50
         /\ Seen("lp", w, code) \in {5, 35, 40, 50, 60, 85}
         /\ w.pool # "v2" => Seen("lp", w, code) \in {40, 50}
         /\ Seen("owner", w, code) \in {5, 20, 45, 55}
         /\ Seen("proxy", w, code) = (IF w.slot THEN 60 ELSE IF "delegatecall" \in code THEN 40 ELSE 10)
         /\ Seen("taxes", w, code) \in {10, 30, 45, 60, 90}
         /\ "taxes" \notin code => Seen("taxes", w, code) = 10
         /\ Seen("honeypot", w, code) \in {40, 50, 55, 70}
         /\ w.pool = "none" => Seen("honeypot", w, code) = 50
         /\ Seen("shape", w, code) \in {5, 70, 75}
         /\ Seen("concentration", w, code) \in {10, 35, 50, 70, 80}
<1>1. /\ w.liquidity \in {"deep", "moderate", "thin", "negligible"}
      /\ w.pool \in {"none", "v2", "v3"} /\ w.lp \in {"locked", "half", "loose", "none"}
      /\ w.owner \in {"none", "renounced", "eoa", "contract"} /\ w.slot \in BOOLEAN
      /\ w.tax \in {"unreadable", "low", "high", "punitive"}
      /\ w.balance \in {"some", "zero", "reverts"}
      /\ w.shape \in {"regular", "malformed", "reverts"}
      /\ w.held \in {"pool", "mixed", "elsewhere", "zero"}
  BY DEF World
<1>2. \A d \in ByCode : Seen(d, w, code) = (IF d \in code THEN 70 ELSE 10)
  BY DEF Seen, ByCode, BytecodeScore
<1>3. /\ Seen("liquidity", w, code) \in {5, 25, 50, 60, 90}
      /\ w.pool = "none" => Seen("liquidity", w, code) = 50
  <2>1. LiquidityTier[w.liquidity] \in {5, 25, 60, 90}
    BY <1>1 DEF LiquidityTier
  <2> QED
    BY <2>1 DEF Seen, ByCode
<1>4. /\ Seen("lp", w, code) \in {5, 35, 40, 50, 60, 85}
      /\ w.pool # "v2" => Seen("lp", w, code) \in {40, 50}
  <2>1. SecuredTier[w.lp] \in {5, 35, 60, 85}
    BY <1>1 DEF SecuredTier
  <2> QED
    BY <1>1, <2>1 DEF Seen, ByCode
<1>5. Seen("owner", w, code) \in {5, 20, 45, 55}
  <2>1. OwnerTier[w.owner] \in {5, 20, 45, 55}
    BY <1>1 DEF OwnerTier
  <2> QED
    BY <2>1 DEF Seen, ByCode
<1>6. Seen("proxy", w, code) = (IF w.slot THEN 60 ELSE IF "delegatecall" \in code THEN 40 ELSE 10)
  <2>1. Seen("proxy", w, code) = ProxyScore(w.slot, code)
    BY DEF Seen, ByCode
  <2> QED
    BY <1>1, <2>1 DEF ProxyScore
<1>7. /\ Seen("taxes", w, code) \in {10, 30, 45, 60, 90}
      /\ "taxes" \notin code => Seen("taxes", w, code) = 10
  <2>1. TaxTier[w.tax] \in {30, 45, 60, 90}
    BY <1>1 DEF TaxTier
  <2> QED
    BY <2>1 DEF Seen, ByCode
<1>8. /\ Seen("honeypot", w, code) \in {40, 50, 55, 70}
      /\ w.pool = "none" => Seen("honeypot", w, code) = 50
  <2>1. BalanceTier[w.balance] \in {40, 55, 70}
    BY <1>1 DEF BalanceTier
  <2> QED
    BY <2>1 DEF Seen, ByCode
<1>9. Seen("shape", w, code) \in {5, 70, 75}
  <2>1. ShapeTier[w.shape] \in {5, 70, 75}
    BY <1>1 DEF ShapeTier
  <2> QED
    BY <2>1 DEF Seen, ByCode
<1>10. Seen("concentration", w, code) \in {10, 35, 50, 70, 80}
  <2>1. HeldTier[w.held] \in {10, 35, 70, 80}
    BY <1>1 DEF HeldTier
  <2> QED
    BY <2>1 DEF Seen, ByCode
<1> QED
  BY <1>2, <1>3, <1>4, <1>5, <1>6, <1>7, <1>8, <1>9, <1>10

LEMMA BlindScores ==
  ASSUME NEW code
  PROVE  /\ Blind("owner", code) = 20 /\ Blind("honeypot", code) = 70 /\ Blind("shape", code) = 70
         /\ Blind("proxy", code) = (IF "delegatecall" \in code THEN 40 ELSE 10)
         /\ Blind("taxes", code) = (IF "taxes" \in code THEN 45 ELSE 10)
         /\ Blind("liquidity", code) = 50 /\ Blind("lp", code) = 50
         /\ Blind("concentration", code) = 50
BY DEF Blind, ProxyScore, INDETERMINATE_SCORE

(* The code is read: no fault takes more than this from a detector.        *)
LEMMA CodeIsRead ==
  ASSUME NEW w \in World, NEW mix, <<"code", "error">> \notin mix, Once(mix)
  PROVE  /\ \A d \in Detector : Factor(d, w, mix) \in 0..100
         /\ \A d \in ByCode : Factor(d, w, {}) = Factor(d, w, mix)
         /\ Factor("liquidity", w, {}) <= Factor("liquidity", w, mix) + 40
         /\ Factor("lp", w, {}) <= Factor("lp", w, mix) + 35
         /\ Factor("owner", w, {}) <= Factor("owner", w, mix) + 35
         /\ Factor("proxy", w, {}) <= Factor("proxy", w, mix) + 50
         /\ Factor("taxes", w, {}) <= Factor("taxes", w, mix) + 45
         /\ Factor("honeypot", w, {}) <= Factor("honeypot", w, mix) + 20
         /\ Factor("shape", w, {}) <= Factor("shape", w, mix) + 25
         /\ Factor("concentration", w, {}) <= Factor("concentration", w, mix) + 30
<1>1. Found(w, mix) = w.code /\ w.code \in SUBSET w.code
  BY DEF Found
<1> DEFINE S(d) == Seen(d, w, w.code)
           F(d) == Factor(d, w, mix)
<1>2. \A d \in Detector : /\ Factor(d, w, {}) = S(d)
                          /\ F(d) \in {50, Blind(d, w.code), S(d)} \/ (d = "owner" /\ F(d) = 45)
                          /\ d \in ByCode => F(d) = S(d)
  BY <1>1, Unfaulted, Outcomes
<1>3. /\ S("liquidity") \in {5, 25, 50, 60, 90} /\ S("lp") \in {5, 35, 40, 50, 60, 85}
      /\ S("owner") \in {5, 20, 45, 55} /\ S("proxy") \in {10, 40, 60}
      /\ S("taxes") \in {10, 30, 45, 60, 90} /\ S("honeypot") \in {40, 50, 55, 70}
      /\ S("shape") \in {5, 70, 75} /\ S("concentration") \in {10, 35, 50, 70, 80}
      /\ \A d \in ByCode : S(d) \in {10, 70}
      /\ "taxes" \notin w.code => S("taxes") = 10
      /\ S("proxy") = 40 => "delegatecall" \in w.code
  BY <1>1, SeenBounds
<1>4. \A d \in {"liquidity", "lp", "owner", "proxy", "taxes", "honeypot", "shape", "concentration"} :
         d \in Detector
  BY DEF Detector, ByCode, Reading
<1>b. /\ Blind("owner", w.code) = 20 /\ Blind("honeypot", w.code) = 70 /\ Blind("shape", w.code) = 70
      /\ Blind("proxy", w.code) \in {10, 40} /\ Blind("taxes", w.code) \in {10, 45}
      /\ "taxes" \in w.code => Blind("taxes", w.code) = 45
      /\ Blind("liquidity", w.code) = 50 /\ Blind("lp", w.code) = 50
      /\ Blind("concentration", w.code) = 50
  BY BlindScores
<1>f. /\ F("liquidity") \in {50, S("liquidity")} /\ F("lp") \in {50, S("lp")}
      /\ F("owner") \in {20, 45, 50, S("owner")}
      /\ F("proxy") \in {10, 40, 50, S("proxy")}
      /\ F("honeypot") \in {50, 70, S("honeypot")} /\ F("shape") \in {50, 70, S("shape")}
      /\ F("concentration") \in {50, S("concentration")}
  BY <1>2, <1>4, <1>b
<1>t. F("taxes") \in {50, Blind("taxes", w.code), S("taxes")}
  BY <1>2, <1>4
<1> HIDE DEF S, F
<1>5. F("liquidity") \in 0..100 /\ S("liquidity") <= F("liquidity") + 40
  BY <1>3, <1>f
<1>6. F("lp") \in 0..100 /\ S("lp") <= F("lp") + 35
  BY <1>3, <1>f
<1>7. F("owner") \in 0..100 /\ S("owner") <= F("owner") + 35
  BY <1>3, <1>f
<1>8. F("proxy") \in 0..100 /\ S("proxy") <= F("proxy") + 50
  BY <1>3, <1>f
<1>9. F("taxes") \in 0..100 /\ S("taxes") <= F("taxes") + 45
  BY <1>3, <1>f, <1>t, <1>b
<1>10. F("honeypot") \in 0..100 /\ S("honeypot") <= F("honeypot") + 20
  BY <1>3, <1>f
<1>11. F("shape") \in 0..100 /\ S("shape") <= F("shape") + 25
  BY <1>3, <1>f
<1>12. F("concentration") \in 0..100 /\ S("concentration") <= F("concentration") + 30
  BY <1>3, <1>f
<1>13. \A d \in ByCode : F(d) \in 0..100 /\ S(d) = F(d)
  <2>1. ASSUME NEW d \in ByCode PROVE F(d) = S(d) /\ S(d) \in {10, 70}
    BY <1>2, <1>3, <2>1 DEF Detector
  <2> QED
    BY <2>1
<1>14. \A d \in Detector : F(d) \in 0..100
  BY <1>5, <1>6, <1>7, <1>8, <1>9, <1>10, <1>11, <1>12, <1>13 DEF Detector, Reading
<1>15. \A d \in Detector : Factor(d, w, {}) = S(d)
  BY <1>2
<1>16. \A d \in ByCode : Factor(d, w, {}) = F(d)
  BY <1>13, <1>15 DEF Detector
<1> QED
  BY <1>15, <1>16, <1>4, <1>5, <1>6, <1>7, <1>8, <1>9, <1>10, <1>11, <1>12, <1>14 DEF F

(* Only the code is not read: what the scan of it would have found.        *)
LEMMA OnlyCodeIsNotRead ==
  ASSUME NEW w \in World, NEW mix, mix = {<<"code", "error">>}
  PROVE  /\ \A d \in Detector : Factor(d, w, mix) \in 0..100 /\ Factor(d, w, {}) \in 0..100
         /\ \A d \in ByCode : Factor(d, w, {}) <= Factor(d, w, mix) + 60
         /\ \A d \in {"liquidity", "lp", "owner", "honeypot", "shape", "concentration"} :
               Factor(d, w, {}) <= Factor(d, w, mix)
         /\ Factor("proxy", w, {}) <= Factor("proxy", w, mix) + 30
         /\ Factor("taxes", w, {}) <= Factor("taxes", w, mix) + 80
<1>1. Found(w, mix) = {} /\ {} \in SUBSET w.code /\ w.code \in SUBSET w.code
  BY DEF Found
<1> DEFINE S(d) == Seen(d, w, w.code)
           B(d) == Seen(d, w, {})
           F(d) == Factor(d, w, mix)
<1>2. \A d \in Detector : Factor(d, w, {}) = S(d)
  BY Unfaulted
<1>3. ASSUME NEW d \in Detector, d # "shape" PROVE F(d) = B(d)
  <2>1. <<d, "late">> \notin mix /\ <<d, "error">> \notin mix /\ <<"owner code", "error">> \notin mix
    BY DEF Detector, ByCode, Reading
  <2>2. ~Late(d, w, mix) /\ ~Errs(d, w, mix)
    BY <2>1 DEF Late, Errs
  <2> QED
    BY <1>1, <1>3, <2>1, <2>2 DEF Factor
<1>4. F("shape") = 100
  BY FactorIs
<1>5. /\ S("liquidity") \in {5, 25, 50, 60, 90} /\ S("lp") \in {5, 35, 40, 50, 60, 85}
      /\ S("owner") \in {5, 20, 45, 55} /\ S("proxy") \in {10, 40, 60}
      /\ S("taxes") \in {10, 30, 45, 60, 90} /\ S("honeypot") \in {40, 50, 55, 70}
      /\ S("shape") \in {5, 70, 75} /\ S("concentration") \in {10, 35, 50, 70, 80}
      /\ \A d \in ByCode : S(d) \in {10, 70} /\ B(d) = 10
      /\ B("taxes") = 10
      /\ B("proxy") \in {10, 60} /\ (S("proxy") = 60 => B("proxy") = 60)
  <2>1. /\ S("liquidity") \in {5, 25, 50, 60, 90} /\ S("lp") \in {5, 35, 40, 50, 60, 85}
        /\ S("owner") \in {5, 20, 45, 55}
        /\ S("taxes") \in {10, 30, 45, 60, 90} /\ S("honeypot") \in {40, 50, 55, 70}
        /\ S("shape") \in {5, 70, 75} /\ S("concentration") \in {10, 35, 50, 70, 80}
    BY <1>1, SeenBounds
  <2>2. S("proxy") = (IF w.slot THEN 60 ELSE IF "delegatecall" \in w.code THEN 40 ELSE 10)
    BY <1>1, SeenBounds
  <2>3. B("proxy") = (IF w.slot THEN 60 ELSE IF "delegatecall" \in {} THEN 40 ELSE 10)
    BY <1>1, SeenBounds
  <2>4. B("taxes") = 10
    BY <1>1, SeenBounds
  <2>5. \A d \in ByCode : S(d) \in {10, 70} /\ B(d) = 10
    BY <1>1, SeenBounds
  <2> HIDE DEF S, B
  <2> QED
    BY <2>1, <2>2, <2>3, <2>4, <2>5
<1>6. \A d \in {"liquidity", "lp", "owner", "honeypot", "concentration"} : B(d) = S(d)
  <2>1. ASSUME NEW d \in {"liquidity", "lp", "owner", "honeypot", "concentration"}, NEW code
        PROVE  Seen(d, w, code) = CASE d \in {"liquidity", "lp", "honeypot"} /\ w.pool = "none" -> 50
                                    [] d = "liquidity" /\ w.pool # "none" -> LiquidityTier[w.liquidity]
                                    [] d = "lp" /\ w.pool = "v3" -> 40
                                    [] d = "lp" /\ w.pool = "v2" -> SecuredTier[w.lp]
                                    [] d = "honeypot" /\ w.pool # "none" -> BalanceTier[w.balance]
                                    [] d = "owner" -> OwnerTier[w.owner]
                                    [] d = "concentration" -> IF w.pool = "none" /\ w.held # "zero" THEN 50
                                                              ELSE HeldTier[w.held]
    <3>1. d \notin ByCode /\ w.pool \in {"none", "v2", "v3"}
      BY DEF ByCode, World
    <3> QED
      BY <3>1 DEF Seen
  <2> QED
    BY <2>1
<1>7. \A d \in {"liquidity", "lp", "owner", "proxy", "taxes", "honeypot", "shape", "concentration"} :
         d \in Detector
  BY DEF Detector, ByCode, Reading
<1> HIDE DEF S, B, F
<1>8. \A d \in {"liquidity", "lp", "owner", "honeypot", "shape", "concentration"} :
         F(d) \in 0..100 /\ S(d) \in 0..100 /\ S(d) <= F(d)
  BY <1>3, <1>4, <1>5, <1>6, <1>7
<1>9. F("proxy") \in 0..100 /\ S("proxy") \in 0..100 /\ S("proxy") <= F("proxy") + 30
  BY <1>3, <1>5, <1>7
<1>10. F("taxes") \in 0..100 /\ S("taxes") \in 0..100 /\ S("taxes") <= F("taxes") + 80
  BY <1>3, <1>5, <1>7
<1>11. \A d \in ByCode : F(d) \in 0..100 /\ S(d) \in 0..100 /\ S(d) <= F(d) + 60
  <2>1. ASSUME NEW d \in ByCode PROVE d \in Detector /\ d # "shape"
    BY DEF Detector, ByCode
  <2> QED
    BY <1>3, <1>5, <2>1
<1>12. \A d \in Detector : F(d) \in 0..100 /\ S(d) \in 0..100
  BY <1>8, <1>9, <1>10, <1>11 DEF Detector, Reading
<1> QED
  BY <1>2, <1>7, <1>8, <1>9, <1>10, <1>11, <1>12 DEF F, Detector

(* Nothing is read: the score of a token nobody could look at.             *)
LEMMA NothingIsRead ==
  ASSUME NEW w \in World, NEW mix, <<"code", "error">> \in mix, Once(mix),
         \A d \in Reading : <<d, "error">> \in mix \/ <<d, "late">> \in mix
  PROVE  /\ \A d \in Detector : Factor(d, w, mix) \in 0..100
         /\ \A d \in ByCode \cup {"proxy", "taxes"} : Factor(d, w, mix) >= 10
         /\ \A d \in {"liquidity", "honeypot", "concentration"} : Factor(d, w, mix) >= 50
         /\ Factor("lp", w, mix) >= 40 /\ Factor("owner", w, mix) >= 20
         /\ Factor("shape", w, mix) = 100
<1>1. Found(w, mix) = {} /\ {} \in SUBSET w.code
  BY DEF Found
<1> DEFINE B(d) == Seen(d, w, {})
           F(d) == Factor(d, w, mix)
<1>2. \A d \in Detector \ {"shape"} :
         /\ F(d) \in {50, Blind(d, {}), B(d)} \/ (d = "owner" /\ F(d) = 45)
         /\ d \in ByCode => F(d) = B(d)
  <2>1. ASSUME NEW d \in Detector \ {"shape"}
        PROVE  /\ F(d) \in {50, Blind(d, {}), B(d)} \/ (d = "owner" /\ F(d) = 45)
               /\ d \in ByCode => F(d) = B(d)
    BY <1>1, <2>1, Outcomes
  <2> QED
    BY <2>1
<1>3. ASSUME NEW d \in {"liquidity", "honeypot", "lp", "concentration"}, Reads(d, w, mix)
      PROVE  F(d) \in {50, Blind(d, {})}
  <2>1. d \in Reading /\ d \in Detector /\ d # "shape" /\ d # "owner"
    BY DEF Reading, Detector
  <2>2. Late(d, w, mix) \/ Errs(d, w, mix)
    BY <1>3, <2>1 DEF Late, Errs
  <2> QED
    BY <1>1, <2>1, <2>2, Outcomes
<1>4. F("shape") = 100
  BY FactorIs
<1>5. /\ (w.pool = "none" => B("liquidity") = 50) /\ (w.pool = "none" => B("honeypot") = 50)
      /\ (w.pool # "v2" => B("lp") \in {40, 50})
      /\ B("owner") \in {5, 20, 45, 55} /\ B("proxy") \in {10, 60} /\ B("taxes") = 10
      /\ \A d \in ByCode : B(d) = 10
  BY <1>1, SeenBounds
<1>6. /\ Reads("liquidity", w, mix) <=> w.pool # "none"
      /\ Reads("honeypot", w, mix) <=> w.pool # "none"
      /\ Reads("lp", w, mix) <=> w.pool = "v2"
      /\ Reads("concentration", w, mix)
  BY DEF Reads, ByCode
<1>7. \A d \in {"liquidity", "lp", "owner", "proxy", "taxes", "honeypot", "concentration"} :
         d \in Detector \ {"shape"}
  BY DEF Detector, ByCode, Reading
<1>8. \E x \in {20, 45, 50} : F("owner") = x
  <2>1. "owner" \in Reading /\ "owner" \in Detector /\ "owner" # "shape" /\ Reads("owner", w, mix)
    BY DEF Reads, ByCode, Reading, Detector
  <2>2. Late("owner", w, mix) \/ Errs("owner", w, mix)
    BY <2>1 DEF Late, Errs
  <2> QED
    BY <1>1, <2>1, <2>2, Outcomes, BlindScores
<1> HIDE DEF B, F
<1>9. F("liquidity") \in 50..100
  BY <1>2, <1>3, <1>5, <1>6, <1>7, BlindScores
<1>10. F("honeypot") \in 50..100
  BY <1>2, <1>3, <1>5, <1>6, <1>7, BlindScores
<1>11. F("concentration") \in 50..100
  BY <1>3, <1>6, BlindScores
<1>12. F("lp") \in 40..100
  BY <1>2, <1>3, <1>5, <1>6, <1>7, BlindScores
<1>13. F("proxy") \in 10..100 /\ F("taxes") \in 10..100
  BY <1>2, <1>5, <1>7, BlindScores
<1>14. \A d \in ByCode : F(d) \in 10..100
  <2>1. ASSUME NEW d \in ByCode PROVE d \in Detector \ {"shape"}
    BY DEF Detector, ByCode
  <2> QED
    BY <1>2, <1>5, <2>1
<1>15. \A d \in Detector : F(d) \in 0..100
  BY <1>4, <1>8, <1>9, <1>10, <1>11, <1>12, <1>13, <1>14 DEF Detector, Reading
<1> QED
  BY <1>4, <1>8, <1>9, <1>10, <1>11, <1>12, <1>13, <1>14, <1>15 DEF F

(* The three views of a token: the points of each, compared.               *)
LEMMA PointsWrittenOut ==
  ASSUME NEW w, NEW mix, \A d \in Detector : Factor(d, w, mix) \in 0..100
  PROVE  /\ \A d \in Detector : Points(w, mix)[d] \in Int
         /\ SumFunctionOnSet(Points(w, mix), Fast) =
              10 * Factor("mint", w, mix) + 10 * Factor("pause", w, mix) + 6 * Factor("limits", w, mix)
              + 15 * Factor("liquidity", w, mix) + 15 * Factor("lp", w, mix) + 10 * Factor("owner", w, mix)
              + 8 * Factor("proxy", w, mix) + 8 * Factor("taxes", w, mix)
              + 20 * Factor("honeypot", w, mix) + 3 * Factor("shape", w, mix)
         /\ SumFunctionOnSet(Points(w, mix), Detector) =
              SumFunctionOnSet(Points(w, mix), Fast) + 5 * Factor("concentration", w, mix)
<1> DEFINE pts == Points(w, mix)
           F(d) == Factor(d, w, mix)
<1>1. {"mint", "pause", "limits", "liquidity", "lp", "owner", "proxy", "taxes",
       "honeypot", "shape", "concentration"} \subseteq Detector
  BY DEF Detector, ByCode, Reading
<1>2. \A d \in Detector : F(d) \in Int
  OBVIOUS
<1>3. \A d \in Detector : pts[d] = F(d) * Weight(d)
  BY DEF Points
<1> HIDE DEF pts, F
<1>4. /\ pts["mint"] = 10 * F("mint") /\ pts["pause"] = 10 * F("pause") /\ pts["limits"] = 6 * F("limits")
      /\ pts["liquidity"] = 15 * F("liquidity") /\ pts["lp"] = 15 * F("lp") /\ pts["owner"] = 10 * F("owner")
      /\ pts["proxy"] = 8 * F("proxy") /\ pts["taxes"] = 8 * F("taxes")
      /\ pts["honeypot"] = 20 * F("honeypot") /\ pts["shape"] = 3 * F("shape")
      /\ pts["concentration"] = 5 * F("concentration")
  BY <1>1, <1>2, <1>3, WeightFacts
<1>5. \A d \in Detector : pts[d] \in Int
  <2>1. \A d \in Detector : Weight(d) \in Int
    BY WeightFacts DEF Detector, ByCode, Reading
  <2> QED
    BY <1>2, <1>3, <2>1
<1>6. /\ SumFunctionOnSet(pts, Fast) =
              pts["mint"] + pts["pause"] + pts["limits"] + pts["liquidity"] + pts["lp"] + pts["owner"]
              + pts["proxy"] + pts["taxes"] + pts["honeypot"] + pts["shape"]
      /\ SumFunctionOnSet(pts, Detector) = SumFunctionOnSet(pts, Fast) + pts["concentration"]
  BY <1>5, SumWrittenOut
<1> QED
  BY <1>4, <1>5, <1>6 DEF pts, F

LEMMA VerdictByPoints ==
  ASSUME NEW quick \in BOOLEAN, NEW w, NEW mix,
         \A d \in Detector : Factor(d, w, mix) \in 0..100
  PROVE  LET total == IF quick THEN 105 ELSE 110
             sum == SumFunctionOnSet(Points(w, mix), DetectorsOf(quick))
         IN /\ sum \in Int
            /\ Verdict(DetectorsOf(quick), w, mix) = "safe" => 200 * sum + total < 6000 * total
            /\ Verdict(DetectorsOf(quick), w, mix) = "danger" => 200 * sum + total >= 12000 * total
<1> DEFINE total == IF quick THEN 105 ELSE 110
           ds == DetectorsOf(quick)
           sum == SumFunctionOnSet(Points(w, mix), ds)
           score == (200 * sum + total) \div (2 * total)
<1>1. ds \in SUBSET Detector /\ TotalWeight(ds) = total
  BY TotalWeights, DetectorsFinite DEF DetectorsOf
<1>2. \A d \in Detector : Points(w, mix)[d] \in Int
  BY PointsWrittenOut
<1>3. Score(ds, w, mix) = score
  BY <1>1, <1>2, ScoreIsSum
<1>4. sum \in Int
  <2>1. \A d \in {"mint", "pause", "limits", "liquidity", "lp", "owner", "proxy", "taxes",
                  "honeypot", "shape", "concentration"} : Factor(d, w, mix) \in Int
    BY DEF Detector, ByCode, Reading
  <2> QED
    BY <2>1, PointsWrittenOut DEF DetectorsOf
<1>5. /\ Verdict(ds, w, mix) = "safe" => score < 3000
      /\ Verdict(ds, w, mix) = "danger" => ~(score < 6000)
  BY <1>3 DEF Verdict
<1>6. total \in {105, 110}
  OBVIOUS
<1> HIDE DEF sum
<1>7. score \in Int
  BY <1>4
<1> QED
  BY <1>4, <1>5, <1>7 DEF sum

DetectorNames == {"mint", "pause", "limits", "liquidity", "lp", "owner", "proxy", "taxes",
                  "honeypot", "shape", "concentration"}
Sum(quick, w, mix) == SumFunctionOnSet(Points(w, mix), DetectorsOf(quick))

LEMMA NamesAreDetectors == \A d \in DetectorNames : d \in Detector
BY DEF DetectorNames, Detector, ByCode, Reading

LEMMA SumIs ==
  ASSUME NEW quick \in BOOLEAN, NEW w, NEW mix, \A d \in Detector : Factor(d, w, mix) \in 0..100
  PROVE  /\ \A d \in DetectorNames : Factor(d, w, mix) \in Int
         /\ Sum(quick, w, mix) =
              10 * Factor("mint", w, mix) + 10 * Factor("pause", w, mix) + 6 * Factor("limits", w, mix)
              + 15 * Factor("liquidity", w, mix) + 15 * Factor("lp", w, mix) + 10 * Factor("owner", w, mix)
              + 8 * Factor("proxy", w, mix) + 8 * Factor("taxes", w, mix)
              + 20 * Factor("honeypot", w, mix) + 3 * Factor("shape", w, mix)
              + (IF quick THEN 0 ELSE 5 * Factor("concentration", w, mix))
         /\ Sum(quick, w, mix) \in Int
<1>1. \A d \in DetectorNames : Factor(d, w, mix) \in Int
  BY NamesAreDetectors
<1> DEFINE F(d) == Factor(d, w, mix)
<1>2. /\ F("mint") \in Int /\ F("pause") \in Int /\ F("limits") \in Int /\ F("liquidity") \in Int
      /\ F("lp") \in Int /\ F("owner") \in Int /\ F("proxy") \in Int /\ F("taxes") \in Int
      /\ F("honeypot") \in Int /\ F("shape") \in Int /\ F("concentration") \in Int
  BY <1>1 DEF DetectorNames
<1> DEFINE fast == 10 * F("mint") + 10 * F("pause") + 6 * F("limits")
              + 15 * F("liquidity") + 15 * F("lp") + 10 * F("owner")
              + 8 * F("proxy") + 8 * F("taxes") + 20 * F("honeypot") + 3 * F("shape")
<1>3. /\ SumFunctionOnSet(Points(w, mix), Fast) = fast
      /\ SumFunctionOnSet(Points(w, mix), Detector) = fast + 5 * F("concentration")
  BY PointsWrittenOut
<1>4. Sum(quick, w, mix) = fast + (IF quick THEN 0 ELSE 5 * F("concentration"))
  <2>1. fast \in Int
    BY <1>2
  <2> HIDE DEF fast
  <2> QED
    BY <1>2, <1>3, <2>1 DEF Sum, DetectorsOf
<1>5. Sum(quick, w, mix) \in Int
  BY <1>2, <1>4
<1> QED
  BY <1>1, <1>4, <1>5

LEMMA PointsWhenCodeIsRead ==
  ASSUME NEW quick \in BOOLEAN, NEW w \in World, NEW mix, <<"code", "error">> \notin mix, Once(mix)
  PROVE  /\ \A d \in Detector : Factor(d, w, mix) \in 0..100 /\ Factor(d, w, {}) \in 0..100
         /\ Sum(quick, w, {}) <= Sum(quick, w, mix) + (IF quick THEN 2710 ELSE 2860)
<1> DEFINE F(d) == Factor(d, w, mix)
           C(d) == Factor(d, w, {})
<1>1. <<"code", "error">> \notin {} /\ Once({})
  BY DEF Once
<1>2. /\ \A d \in Detector : F(d) \in 0..100 /\ C(d) \in 0..100
      /\ \A d \in ByCode : C(d) = F(d)
      /\ C("liquidity") <= F("liquidity") + 40 /\ C("lp") <= F("lp") + 35
      /\ C("owner") <= F("owner") + 35 /\ C("proxy") <= F("proxy") + 50
      /\ C("taxes") <= F("taxes") + 45 /\ C("honeypot") <= F("honeypot") + 20
      /\ C("shape") <= F("shape") + 25 /\ C("concentration") <= F("concentration") + 30
  BY <1>1, CodeIsRead
<1>3. C("mint") = F("mint") /\ C("pause") = F("pause") /\ C("limits") = F("limits")
  BY <1>2 DEF ByCode
<1>4. /\ F("mint") \in Int /\ F("pause") \in Int /\ F("limits") \in Int /\ F("liquidity") \in Int
      /\ F("lp") \in Int /\ F("owner") \in Int /\ F("proxy") \in Int /\ F("taxes") \in Int
      /\ F("honeypot") \in Int /\ F("shape") \in Int /\ F("concentration") \in Int
  BY <1>2, SumIs DEF DetectorNames
<1>5. Sum(quick, w, mix) = 10 * F("mint") + 10 * F("pause") + 6 * F("limits")
              + 15 * F("liquidity") + 15 * F("lp") + 10 * F("owner")
              + 8 * F("proxy") + 8 * F("taxes") + 20 * F("honeypot") + 3 * F("shape")
              + (IF quick THEN 0 ELSE 5 * F("concentration"))
  BY <1>2, SumIs
<1>6. /\ C("mint") \in Int /\ C("pause") \in Int /\ C("limits") \in Int /\ C("liquidity") \in Int
      /\ C("lp") \in Int /\ C("owner") \in Int /\ C("proxy") \in Int /\ C("taxes") \in Int
      /\ C("honeypot") \in Int /\ C("shape") \in Int /\ C("concentration") \in Int
  BY <1>2, SumIs DEF DetectorNames
<1>7. Sum(quick, w, {}) = 10 * C("mint") + 10 * C("pause") + 6 * C("limits")
              + 15 * C("liquidity") + 15 * C("lp") + 10 * C("owner")
              + 8 * C("proxy") + 8 * C("taxes") + 20 * C("honeypot") + 3 * C("shape")
              + (IF quick THEN 0 ELSE 5 * C("concentration"))
  BY <1>2, SumIs
<1>8. Sum(quick, w, mix) \in Int
  BY <1>2, SumIs
<1>9. Sum(quick, w, {}) \in Int
  BY <1>2, SumIs
<1> HIDE DEF F, C
<1> QED
  BY <1>2, <1>3, <1>4, <1>5, <1>6, <1>7, <1>8, <1>9 DEF F, C

LEMMA PointsWhenOnlyCodeIsNot ==
  ASSUME NEW quick \in BOOLEAN, NEW w \in World, NEW mix, mix = {<<"code", "error">>}
  PROVE  /\ \A d \in Detector : Factor(d, w, mix) \in 0..100 /\ Factor(d, w, {}) \in 0..100
         /\ Sum(quick, w, {}) <= Sum(quick, w, mix) + 2440
<1> DEFINE F(d) == Factor(d, w, mix)
           C(d) == Factor(d, w, {})
<1>1. /\ \A d \in Detector : F(d) \in 0..100 /\ C(d) \in 0..100
      /\ \A d \in ByCode : C(d) <= F(d) + 60
      /\ \A d \in {"liquidity", "lp", "owner", "honeypot", "shape", "concentration"} : C(d) <= F(d)
      /\ C("proxy") <= F("proxy") + 30
      /\ C("taxes") <= F("taxes") + 80
  BY OnlyCodeIsNotRead
<1>2. /\ C("mint") <= F("mint") + 60 /\ C("pause") <= F("pause") + 60 /\ C("limits") <= F("limits") + 60
  BY <1>1 DEF ByCode
<1>3. /\ C("liquidity") <= F("liquidity") /\ C("lp") <= F("lp") /\ C("owner") <= F("owner")
      /\ C("honeypot") <= F("honeypot") /\ C("shape") <= F("shape")
      /\ C("concentration") <= F("concentration")
  BY <1>1
<1>4. /\ F("mint") \in Int /\ F("pause") \in Int /\ F("limits") \in Int /\ F("liquidity") \in Int
      /\ F("lp") \in Int /\ F("owner") \in Int /\ F("proxy") \in Int /\ F("taxes") \in Int
      /\ F("honeypot") \in Int /\ F("shape") \in Int /\ F("concentration") \in Int
  BY <1>1, SumIs DEF DetectorNames
<1>5. Sum(quick, w, mix) = 10 * F("mint") + 10 * F("pause") + 6 * F("limits")
              + 15 * F("liquidity") + 15 * F("lp") + 10 * F("owner")
              + 8 * F("proxy") + 8 * F("taxes") + 20 * F("honeypot") + 3 * F("shape")
              + (IF quick THEN 0 ELSE 5 * F("concentration"))
  BY <1>1, SumIs
<1>6. /\ C("mint") \in Int /\ C("pause") \in Int /\ C("limits") \in Int /\ C("liquidity") \in Int
      /\ C("lp") \in Int /\ C("owner") \in Int /\ C("proxy") \in Int /\ C("taxes") \in Int
      /\ C("honeypot") \in Int /\ C("shape") \in Int /\ C("concentration") \in Int
  BY <1>1, SumIs DEF DetectorNames
<1>7. Sum(quick, w, {}) = 10 * C("mint") + 10 * C("pause") + 6 * C("limits")
              + 15 * C("liquidity") + 15 * C("lp") + 10 * C("owner")
              + 8 * C("proxy") + 8 * C("taxes") + 20 * C("honeypot") + 3 * C("shape")
              + (IF quick THEN 0 ELSE 5 * C("concentration"))
  BY <1>1, SumIs
<1>8. Sum(quick, w, mix) \in Int
  BY <1>1, SumIs
<1>9. Sum(quick, w, {}) \in Int
  BY <1>1, SumIs
<1> HIDE DEF F, C
<1> QED
  BY <1>1, <1>2, <1>3, <1>4, <1>5, <1>6, <1>7, <1>8, <1>9 DEF F, C

LEMMA PointsWhenNothingIsRead ==
  ASSUME NEW quick \in BOOLEAN, NEW w \in World, NEW mix, <<"code", "error">> \in mix, Once(mix),
         \A d \in Reading : <<d, "error">> \in mix \/ <<d, "late">> \in mix
  PROVE  /\ \A d \in Detector : Factor(d, w, mix) \in 0..100
         /\ Sum(quick, w, mix) >= (IF quick THEN 3270 ELSE 3520)
<1> DEFINE F(d) == Factor(d, w, mix)
<1>1. /\ \A d \in Detector : F(d) \in 0..100
      /\ \A d \in ByCode \cup {"proxy", "taxes"} : F(d) >= 10
      /\ \A d \in {"liquidity", "honeypot", "concentration"} : F(d) >= 50
      /\ F("lp") >= 40 /\ F("owner") >= 20 /\ F("shape") = 100
  BY NothingIsRead
<1>2. /\ F("mint") >= 10 /\ F("pause") >= 10 /\ F("limits") >= 10
      /\ F("proxy") >= 10 /\ F("taxes") >= 10
      /\ F("liquidity") >= 50 /\ F("honeypot") >= 50 /\ F("concentration") >= 50
  BY <1>1 DEF ByCode
<1>4. /\ F("mint") \in Int /\ F("pause") \in Int /\ F("limits") \in Int /\ F("liquidity") \in Int
      /\ F("lp") \in Int /\ F("owner") \in Int /\ F("proxy") \in Int /\ F("taxes") \in Int
      /\ F("honeypot") \in Int /\ F("shape") \in Int /\ F("concentration") \in Int
  BY <1>1, SumIs DEF DetectorNames
<1>5. Sum(quick, w, mix) = 10 * F("mint") + 10 * F("pause") + 6 * F("limits")
              + 15 * F("liquidity") + 15 * F("lp") + 10 * F("owner")
              + 8 * F("proxy") + 8 * F("taxes") + 20 * F("honeypot") + 3 * F("shape")
              + (IF quick THEN 0 ELSE 5 * F("concentration"))
  BY <1>1, SumIs
<1>8. Sum(quick, w, mix) \in Int
  BY <1>1, SumIs
<1> HIDE DEF F
<1> QED
  BY <1>1, <1>2, <1>4, <1>5, <1>8 DEF F

LEMMA BadTokensAreNotSafe ==
  ASSUME NEW quick \in BOOLEAN, NEW w \in World, NEW mix, Once(mix)
  PROVE  /\ /\ Blindness(mix) \in {"code is read", "only code is not"}
            /\ Verdict(DetectorsOf(quick), w, {}) = "danger"
            => Verdict(DetectorsOf(quick), w, mix) # "safe"
         /\ Blindness(mix) = "nothing is" => Verdict(DetectorsOf(quick), w, mix) # "safe"
<1> DEFINE ds == DetectorsOf(quick)
<1>0. PICK total \in {105, 110} : total = IF quick THEN 105 ELSE 110
  OBVIOUS
<1>1. ASSUME NEW m, \A d \in Detector : Factor(d, w, m) \in 0..100
      PROVE  /\ Sum(quick, w, m) \in Int
             /\ Verdict(ds, w, m) = "safe" => 200 * Sum(quick, w, m) + total < 6000 * total
             /\ Verdict(ds, w, m) = "danger" => 200 * Sum(quick, w, m) + total >= 12000 * total
  BY <1>0, <1>1, VerdictByPoints DEF Sum
<1>2. ASSUME Blindness(mix) = "code is read", Verdict(ds, w, {}) = "danger" PROVE Verdict(ds, w, mix) # "safe"
  <2>1. <<"code", "error">> \notin mix
    BY <1>2 DEF Blindness
  <2>2. /\ \A d \in Detector : Factor(d, w, mix) \in 0..100
        /\ \A d \in Detector : Factor(d, w, {}) \in 0..100
        /\ Sum(quick, w, {}) <= Sum(quick, w, mix) + (IF quick THEN 2710 ELSE 2860)
    BY <2>1, PointsWhenCodeIsRead
  <2>3. /\ Sum(quick, w, mix) \in Int
        /\ Verdict(ds, w, mix) = "safe" => 200 * Sum(quick, w, mix) + total < 6000 * total
    BY <1>1, <2>2
  <2>4. Sum(quick, w, {}) \in Int /\ 200 * Sum(quick, w, {}) + total >= 12000 * total
    <3>1. \A d \in Detector : Factor(d, w, {}) \in 0..100
      BY <2>2
    <3>2. /\ Sum(quick, w, {}) \in Int
          /\ Verdict(ds, w, {}) = "danger" => 200 * Sum(quick, w, {}) + total >= 12000 * total
      BY <1>1, <3>1
    <3>3. Verdict(ds, w, {}) = "danger"
      BY <1>2, Zenon
    <3>4. 200 * Sum(quick, w, {}) + total >= 12000 * total
      BY <3>2, <3>3
    <3> QED
      BY <3>2, <3>4
  <2> QED
    BY <1>0, <2>2, <2>3, <2>4
<1>3. ASSUME Blindness(mix) = "only code is not", Verdict(ds, w, {}) = "danger"
      PROVE  Verdict(ds, w, mix) # "safe"
  <2>1. mix = {<<"code", "error">>}
    BY <1>3 DEF Blindness
  <2>2. /\ \A d \in Detector : Factor(d, w, mix) \in 0..100
        /\ \A d \in Detector : Factor(d, w, {}) \in 0..100
        /\ Sum(quick, w, {}) <= Sum(quick, w, mix) + 2440
    BY <2>1, PointsWhenOnlyCodeIsNot
  <2>3. /\ Sum(quick, w, mix) \in Int
        /\ Verdict(ds, w, mix) = "safe" => 200 * Sum(quick, w, mix) + total < 6000 * total
    BY <1>1, <2>2
  <2>4. Sum(quick, w, {}) \in Int /\ 200 * Sum(quick, w, {}) + total >= 12000 * total
    <3>1. \A d \in Detector : Factor(d, w, {}) \in 0..100
      BY <2>2
    <3>2. /\ Sum(quick, w, {}) \in Int
          /\ Verdict(ds, w, {}) = "danger" => 200 * Sum(quick, w, {}) + total >= 12000 * total
      BY <1>1, <3>1
    <3>3. Verdict(ds, w, {}) = "danger"
      BY <1>3, Zenon
    <3>4. 200 * Sum(quick, w, {}) + total >= 12000 * total
      BY <3>2, <3>3
    <3> QED
      BY <3>2, <3>4
  <2> QED
    BY <1>0, <2>2, <2>3, <2>4
<1>4. ASSUME Blindness(mix) = "nothing is" PROVE Verdict(ds, w, mix) # "safe"
  <2>1. <<"code", "error">> \in mix /\ \A d \in Reading : Failed(d, mix)
    BY <1>4 DEF Blindness
  <2>2. \A d \in Reading : <<d, "error">> \in mix \/ <<d, "late">> \in mix
    BY <2>1 DEF Failed
  <2>3. /\ \A d \in Detector : Factor(d, w, mix) \in 0..100
        /\ Sum(quick, w, mix) >= (IF quick THEN 3270 ELSE 3520)
    BY <2>1, <2>2, PointsWhenNothingIsRead
  <2>4. /\ Sum(quick, w, mix) \in Int
        /\ Verdict(ds, w, mix) = "safe" => 200 * Sum(quick, w, mix) + total < 6000 * total
    BY <1>1, <2>3
  <2> QED
    BY <1>0, <2>3, <2>4
<1> HIDE DEF ds
<1> QED
  BY <1>2, <1>3, <1>4 DEF ds

(* What the last step found is an assessment of a world under a mix.       *)
JudgedInv == judged = Nothing \/ \E quick \in BOOLEAN : judged \in Assessments[quick]

LEMMA JudgedStep == ShieldInv /\ JudgedInv /\ [ShieldNext]_shieldVars => JudgedInv'
<1> SUFFICES ASSUME ShieldInv, JudgedInv, [ShieldNext]_shieldVars PROVE JudgedInv'
  OBVIOUS
<1>1. CASE UNCHANGED shieldVars
  BY <1>1 DEF shieldVars, JudgedInv
<1>2. ASSUME NEW c \in Caller, Begin(c) \/ BeginFull(c) \/ Answer(c) PROVE JudgedInv'
  BY <1>2 DEF Begin, BeginFull, Answer, JudgedInv
<1>3. ASSUME NEW c \in Caller, Detect(c) PROVE JudgedInv'
  <2>1. calls[c].pc = "code" /\ judged' \in Assessments[calls[c].quick]
    BY <1>3 DEF Detect
  <2>2. calls[c].quick \in BOOLEAN
    BY <2>1 DEF ShieldInv, AtRest, Asked, Pending, Fresh, Assessing
  <2> QED
    BY <2>1, <2>2 DEF JudgedInv
<1>4. ASSUME Passes PROVE JudgedInv'
  BY <1>4 DEF Passes, JudgedInv
<1> QED
  BY <1>1, <1>2, <1>3, <1>4 DEF ShieldNext

LEMMA JudgedRight == JudgedInv => DangerSurvivesFaults
<1> SUFFICES ASSUME JudgedInv PROVE DangerSurvivesFaults
  OBVIOUS
<1>1. CASE judged = Nothing
  BY <1>1 DEF Nothing, DangerSurvivesFaults
<1>2. ASSUME NEW quick \in BOOLEAN, judged \in Assessments[quick] PROVE DangerSurvivesFaults
  <2>1. PICK w \in Worlds : judged \in AssessmentsOf(DetectorsOf(quick), w)
    BY <1>2 DEF Assessments
  <2> DEFINE ds == DetectorsOf(quick)
  <2>2. PICK mix \in FaultMixes :
          judged = [verdict |-> Verdict(ds, w, mix), clear |-> Verdict(ds, w, {}),
                    late |-> \E d \in ds : Late(d, w, mix), blind |-> Blindness(mix)]
    BY <2>1, Zenon DEF AssessmentsOf
  <2>3. judged.verdict = Verdict(ds, w, mix) /\ judged.clear = Verdict(ds, w, {})
          /\ judged.blind = Blindness(mix)
    BY <2>2, Zenon
  <2>4. Once(mix) /\ w \in World
    <3>1. w \in World
      BY ShieldAssumption
    <3>2. ASSUME NEW d \in Reading, <<d, "error">> \in mix, <<d, "late">> \in mix PROVE FALSE
      <4>1. {<<d, "error">>, <<d, "late">>} \subseteq mix
        BY <3>2
      <4> QED
        BY <4>1, ShieldAssumption
    <3> QED
      BY <3>1, <3>2 DEF Once
  <2>5. /\ /\ Blindness(mix) \in {"code is read", "only code is not"}
           /\ Verdict(ds, w, {}) = "danger"
           => Verdict(ds, w, mix) # "safe"
        /\ Blindness(mix) = "nothing is" => Verdict(ds, w, mix) # "safe"
    BY <2>4, BadTokensAreNotSafe
  <2> HIDE DEF ds
  <2> QED
    BY <2>3, <2>5 DEF DangerSurvivesFaults
<1> QED
  BY <1>1, <1>2 DEF JudgedInv

(* DangerSurvivesFaults, for every set of tokens and every mix of faults   *)
(* (analyzer.ts:44, detector.ts:45): failing reads take at most 26 points  *)
(* off the score as long as the code is read, 24 without it, and 30 lie    *)
(* between the verdicts.                                                   *)
THEOREM DangerIsSeen == ShieldSpec => []DangerSurvivesFaults
<1>1. ShieldInit => ShieldInv /\ JudgedInv
  BY ShieldInitial DEF ShieldInit, JudgedInv
<1>2. ShieldInv /\ JudgedInv /\ [ShieldNext]_shieldVars => ShieldInv' /\ JudgedInv'
  BY ShieldStep, JudgedStep
<1> QED
  BY <1>1, <1>2, JudgedRight, PTL DEF ShieldSpec
=============================================================================
