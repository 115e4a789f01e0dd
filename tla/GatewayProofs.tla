---------------------------- MODULE GatewayProofs ----------------------------
(***************************************************************************)
(* The parts of the gateway and of the services beside it, proved for any  *)
(* number of requests, clients, replicas, events and trades: the sessions  *)
(* of the feed, the rate limiter's window and its Retry-After, the alert   *)
(* engine's rules, the dispatcher's token buckets, and the portfolio's     *)
(* read-model: book and analytics against the fold of the trades, and the  *)
(* pages a client reads.                                                   *)
(***************************************************************************)
EXTENDS Access, EventsGateway, AlertEngine, Dispatcher, Portfolio,
        SequenceTheorems, FoldLemmas

----------------------------------------------------------------------------
(* The feed: what a session's parts say of each other.  The last but one   *)
(* conjunct is the absence of a gap between the end of the check and the   *)
(* registration, the last one what keeps a subscription's client reachable *)
Sessions ==
    /\ \A c \in Client : socket[c] = "none" =>
          /\ auth[c] = "none" /\ answers[c] = "none" /\ waiting[c] = None
          /\ topics[c] = {} /\ c \notin clients
    /\ \A c \in Client : auth[c] = "none" => socket[c] = "none"
    /\ \A c \in clients : auth[c] = "granted"
    /\ \A c \in Client : socket[c] = "open" /\ auth[c] = "granted" => c \in clients
    /\ \A c \in Client : topics[c] # {} => auth[c] = "granted" /\ c \in Readers

FeedInv == FeedTypeOK /\ Sessions /\ RefusedOnlyWithCause

LEMMA FeedInitial == FeedInit => FeedInv
<1> SUFFICES ASSUME FeedInit PROVE FeedInv
  OBVIOUS
<1>1. FeedTypeOK
  BY FeedAssumption DEF FeedInit, FeedTypeOK, Answer
<1>2. Sessions /\ RefusedOnlyWithCause
  BY DEF FeedInit, Sessions, RefusedOnlyWithCause
<1> QED
  BY <1>1, <1>2 DEF FeedInv

(* What obeying a command leaves, for a client that has been granted.      *)
LEMMA Obeyed ==
  ASSUME FeedInv, NEW c \in Client, NEW m \in Command, Obey(c, m), auth[c] = "granted"
  PROVE  /\ topics' \in [Client -> SUBSET Topic] /\ answers' \in [Client -> Answer]
         /\ \A d \in Client : topics'[d] # {} => auth[d] = "granted" /\ d \in Readers
         /\ \A d \in Client \ {c} : answers'[d] = answers[d] /\ topics'[d] = topics[d]
         /\ answers'[c] # "unauthorized"
<1> USE DEF FeedInv, FeedTypeOK, Sessions, Command, Answer
<1>1. CASE m.verb = "unsubscribe"
  BY <1>1 DEF Obey
<1>2. CASE m.verb # "unsubscribe" /\ c \in Readers
  BY <1>2 DEF Obey
<1>3. CASE m.verb # "unsubscribe" /\ c \notin Readers
  BY <1>3 DEF Obey
<1> QED
  BY <1>1, <1>2, <1>3

LEMMA FeedStep == FeedInv /\ [FeedNext]_feedVars => FeedInv'
<1> SUFFICES ASSUME FeedInv, [FeedNext]_feedVars PROVE FeedInv'
  OBVIOUS
<1> USE FeedAssumption DEF FeedInv, FeedTypeOK, Sessions, RefusedOnlyWithCause
<1>1. CASE UNCHANGED feedVars
  BY <1>1 DEF feedVars
<1>2. CASE PingAll
  BY <1>2 DEF PingAll, Silent
<1>3. ASSUME NEW t \in Topic, FanOut(t) PROVE FeedInv'
  <2>1. buffered' \in [Client -> 0..(MaxBuffered + 1)] /\ fanned' \in 0..MaxEvents
    BY <1>3 DEF FanOut, Listeners, Slow
  <2>2. \A c \in Client : socket'[c] = IF c \in Slow(t) THEN "closing" ELSE socket[c]
    BY <1>3 DEF FanOut
  <2>3. \A c \in Slow(t) : socket[c] = "open"
    BY DEF Slow, Listeners
  <2>4. clients' = clients \ Slow(t) /\ UNCHANGED <<peer, auth, topics, alive, pinged, waiting,
                                                  answers, rejections>>
    BY <1>3 DEF FanOut
  <2>5. socket' \in [Client -> {"none", "open", "closing", "closed"}]
    BY <1>3 DEF FanOut
  <2> QED
    BY <2>1, <2>2, <2>3, <2>4, <2>5
<1>4. ASSUME NEW c \in Client, Connect(c) PROVE FeedInv'
  BY <1>4 DEF Connect
<1>5. ASSUME NEW c \in Client, Grant(c) PROVE FeedInv'
  BY <1>5 DEF Grant
<1>6. ASSUME NEW c \in Client, Refuse(c) PROVE FeedInv'
  BY <1>6 DEF Refuse
<1>7. ASSUME NEW c \in Client, CheckRejects(c) PROVE FeedInv'
  BY <1>7 DEF CheckRejects
<1>8. ASSUME NEW c \in Client, Disconnect(c) PROVE FeedInv'
  BY <1>8 DEF Disconnect
<1>9. ASSUME NEW c \in Client, Vanish(c) PROVE FeedInv'
  BY <1>9 DEF Vanish
<1>10. ASSUME NEW c \in Client, Resume(c) PROVE FeedInv'
  <2>1. waiting[c] \in Command /\ auth[c] # "none"
    BY <1>10 DEF Resume
  <2>2. CASE auth[c] = "granted"
    <3>1. Obey(c, waiting[c])
      BY <1>10, <2>2 DEF Resume
    <3> QED
      BY <1>10, <2>1, <2>2, <3>1, Obeyed DEF Resume
  <2>3. CASE auth[c] = "refused"
    BY <1>10, <2>3 DEF Resume, Answer
  <2> QED
    BY <1>10, <2>1, <2>2, <2>3 DEF Resume
<1>11. ASSUME NEW c \in Client, Drain(c) PROVE FeedInv'
  BY <1>11 DEF Drain
<1>12. ASSUME NEW c \in Client, Pong(c) PROVE FeedInv'
  BY <1>12 DEF Pong
<1>13. ASSUME NEW c \in Client, NEW m \in Command, Receive(c, m) PROVE FeedInv'
  <2>1. CASE c \in clients
    <3>1. Obey(c, m) /\ auth[c] = "granted" /\ socket[c] = "open"
      BY <1>13, <2>1 DEF Receive
    <3> QED
      BY <1>13, <2>1, <3>1, Obeyed DEF Receive
  <2>2. CASE c \notin clients /\ auth[c] = "pending"
    BY <1>13, <2>2 DEF Receive
  <2>3. CASE c \notin clients /\ auth[c] # "pending"
    BY <1>13, <2>3 DEF Receive, Answer
  <2> QED
    BY <2>1, <2>2, <2>3
<1> QED
  BY <1>1, <1>2, <1>3, <1>4, <1>5, <1>6, <1>7, <1>8, <1>9, <1>10, <1>11, <1>12, <1>13 DEF FeedNext

LEMMA FeedInvariant == FeedSpec => []FeedInv
  BY FeedInitial, FeedStep, PTL DEF FeedSpec

(* The types of the feed: no client is two things at once, and no buffer   *)
(* grows past the frame that makes its consumer slow.                      *)
THEOREM FeedTypeCorrect == FeedSpec => []FeedTypeOK
<1>1. FeedInv => FeedTypeOK
  BY DEF FeedInv
<1> QED
  BY <1>1, FeedInvariant, PTL

(* Who commands right after `open` is not told that it is not              *)
(* authenticated, whatever the order of check, command, heartbeat, close.  *)
THEOREM NobodyRefusedEarly == FeedSpec => []RefusedOnlyWithCause
<1>1. FeedInv => RefusedOnlyWithCause
  BY DEF FeedInv
<1> QED
  BY <1>1, FeedInvariant, PTL

(* Every subscription of an open connection is one that fanOut reaches,    *)
(* and its client may read.                                                *)
THEOREM SubscriptionsAreFed == FeedSpec => []SubscribedMeansFed
<1>1. FeedInv => SubscribedMeansFed
  BY DEF FeedInv, Sessions, SubscribedMeansFed
<1> QED
  BY <1>1, FeedInvariant, PTL

----------------------------------------------------------------------------
(* The rate limiter.  Only what the window depends on is typed.            *)
LimiterTypeOK ==
    /\ now \in Nat
    /\ req \in [Request -> [at : Stages, call : UNION {Call[r] : r \in Request},
                            stamp : Nat, late : BOOLEAN]]
    /\ hits \in [Caller -> SUBSET Request]

(* A request that was let through is in its caller's set, or was aged out  *)
(* by one that came a whole window later.                                  *)
HitKept ==
    \A q \in Request : Passed(q) =>
        \/ q \in hits[req[q].call.by]
        \/ \E x \in Request : /\ req[x].call.by = req[q].call.by /\ Counts(x)
                              /\ req[x].stamp >= req[q].stamp + Window

AccessInv == LimiterTypeOK /\ HitKept /\ WindowHolds

LEMMA CallTyped ==
  ASSUME NEW c \in UNION {Call[r] : r \in Request}
  PROVE  c.by \in Caller
  BY AccessAssumption DEF Request, Caller

LEMMA ByTyped ==
  ASSUME LimiterTypeOK, NEW r \in Request
  PROVE  /\ req[r].call.by \in Caller /\ req[r].stamp \in Nat
         /\ req[r] \in [at : Stages, call : UNION {Call[q] : q \in Request},
                        stamp : Nat, late : BOOLEAN]
  BY CallTyped DEF LimiterTypeOK

LEMMA Moved ==
  ASSUME LimiterTypeOK, NEW r \in Request, NEW stage \in Stages, Goto(r, stage)
  PROVE  /\ req' \in [Request -> [at : Stages, call : UNION {Call[q] : q \in Request},
                                  stamp : Nat, late : BOOLEAN]]
         /\ req'[r].at = stage /\ req'[r].call = req[r].call /\ req'[r].stamp = req[r].stamp
         /\ req'[r].late = req[r].late /\ \A q \in Request \ {r} : req'[q] = req[q]
<1> DEFINE s == [req[r] EXCEPT !.at = stage]
<1>1. /\ s \in [at : Stages, call : UNION {Call[q] : q \in Request}, stamp : Nat, late : BOOLEAN]
      /\ s.at = stage /\ s.call = req[r].call /\ s.stamp = req[r].stamp /\ s.late = req[r].late
  BY ByTyped
<1>2. req' = [req EXCEPT ![r] = s]
  BY DEF Goto
<1> HIDE DEF s
<1> QED
  BY <1>1, <1>2 DEF LimiterTypeOK

LEMMA AccessInitial == AccessInit => AccessInv
<1> SUFFICES ASSUME AccessInit PROVE AccessInv
  OBVIOUS
<1>1. \A r \in Request : (CHOOSE c \in Call[r] : TRUE) \in Call[r]
  BY AccessAssumption DEF Request
<1>2. LimiterTypeOK
  BY <1>1 DEF AccessInit, LimiterTypeOK, Stages
<1>3. \A r \in Request : ~Passed(r)
  BY DEF AccessInit, Passed
<1> QED
  BY <1>2, <1>3 DEF AccessInv, HitKept, WindowHolds

(* A step of one request that neither lets it through nor takes anything   *)
(* from those that were: the window and the kept hits stand.               *)
LEMMA Bystander ==
  ASSUME AccessInv, NEW r \in Request, LimiterTypeOK',
         \A q \in Request \ {r} : req'[q] = req[q],
         Passed(r) <=> Passed(r)',
         Passed(r) => req'[r].call = req[r].call /\ req'[r].stamp = req[r].stamp
                      /\ req'[r].late = req[r].late,
         Counts(r) => Counts(r)' /\ req'[r].call = req[r].call /\ req'[r].stamp = req[r].stamp,
         \A q \in Request : Passed(q) /\ q \in hits[req[q].call.by] =>
             \/ q \in hits'[req[q].call.by]
             \/ \E x \in Request : /\ req'[x].call.by = req[q].call.by /\ Counts(x)'
                                   /\ req'[x].stamp >= req[q].stamp + Window
  PROVE  AccessInv'
<1>1. \A q \in Request : /\ Passed(q)' <=> Passed(q)
                         /\ Passed(q) => /\ req'[q].call.by = req[q].call.by
                                         /\ req'[q].stamp = req[q].stamp
                                         /\ req'[q].late = req[q].late
                         /\ Counts(q) => /\ Counts(q)' /\ req'[q].call.by = req[q].call.by
                                         /\ req'[q].stamp = req[q].stamp
  BY DEF Passed, Counts
<1>2. HitKept'
  BY <1>1 DEF AccessInv, HitKept
<1>3. \A q \in Request : Passed(q) => WindowUpTo(q)' = WindowUpTo(q)
  BY <1>1 DEF WindowUpTo
<1>4. \A q \in Request, x \in Request : Passed(q) /\ x \in WindowUpTo(q) => req'[x].late = req[x].late
  BY <1>1 DEF WindowUpTo
<1>5. \A q \in Request : WindowUpTo(q) \subseteq Request
  BY DEF WindowUpTo
<1>6. WindowHolds'
  BY <1>1, <1>3, <1>4, <1>5 DEF AccessInv, WindowHolds
<1> QED
  BY <1>2, <1>6 DEF AccessInv

(* The sorted set after the MULTI of r: who left it is a window older.     *)
LEMMA Entered ==
  ASSUME LimiterTypeOK, NEW r \in Request, Enter(r)
  PROVE  /\ hits' \in [Caller -> SUBSET Request]
         /\ \A q \in Request : q \in hits[req[q].call.by] =>
               \/ q \in hits'[req[q].call.by]
               \/ req[r].call.by = req[q].call.by /\ req[r].stamp >= req[q].stamp + Window
<1>1. Counted(r) \subseteq Request
  BY ByTyped DEF Counted, LimiterTypeOK
<1>2. req[r].call.by \in Caller
  BY ByTyped
<1>3. hits' \in [Caller -> SUBSET Request]
  BY <1>1, <1>2 DEF Enter, LimiterTypeOK
<1>4. ASSUME NEW q \in Request, q \in hits[req[q].call.by], q \notin hits'[req[q].call.by]
      PROVE  req[r].call.by = req[q].call.by /\ req[r].stamp >= req[q].stamp + Window
  <2>1. req[r].call.by = req[q].call.by
    BY <1>2, <1>4 DEF Enter, LimiterTypeOK
  <2>2. q \notin Counted(r)
    BY <1>2, <1>4, <2>1 DEF Enter, LimiterTypeOK
  <2>3. ~(req[q].stamp > req[r].stamp - Window)
    BY <1>4, <2>1, <2>2 DEF Counted
  <2> QED
    BY <2>1, <2>3, ByTyped, AccessAssumption
<1> QED
  BY <1>3, <1>4

(* The budget is kept by the one step that spends it.                      *)
LEMMA ServedInWindow ==
  ASSUME AccessInv, NEW p \in Request, HitServed(p)
  PROVE  AccessInv'
<1> USE DEF AccessInv
<1>1. req[p].at = "stamped" /\ Cardinality(Counted(p)) <= Limit /\ Enter(p)
  BY DEF HitServed
<1>2. /\ req'[p].at = "handler" /\ req'[p].late = Overtaken(p)
      /\ req'[p].call = req[p].call /\ req'[p].stamp = req[p].stamp
      /\ \A q \in Request \ {p} : req'[q] = req[q]
  <2>1. req' = [req EXCEPT ![p] = [@ EXCEPT !.at = "handler", !.late = Overtaken(p)]]
    BY DEF HitServed
  <2> QED
    BY <2>1 DEF LimiterTypeOK
<1>3. LimiterTypeOK'
  <2>1. now' \in Nat
    BY DEF HitServed, LimiterTypeOK
  <2>2. hits' \in [Caller -> SUBSET Request]
    BY <1>1, Entered
  <2>3. Overtaken(p) \in BOOLEAN
    BY DEF Overtaken
  <2>4. req' \in [Request -> [at : Stages, call : UNION {Call[r] : r \in Request},
                              stamp : Nat, late : BOOLEAN]]
    <3> DEFINE s == [req[p] EXCEPT !.at = "handler", !.late = Overtaken(p)]
    <3>1. s \in [at : Stages, call : UNION {Call[r] : r \in Request}, stamp : Nat, late : BOOLEAN]
      BY <2>3, ByTyped DEF Stages
    <3>2. req' = [req EXCEPT ![p] = s]
      BY DEF HitServed, LimiterTypeOK
    <3> HIDE DEF s
    <3> QED
      BY <3>1, <3>2 DEF LimiterTypeOK
  <2> QED
    BY <2>1, <2>2, <2>4 DEF LimiterTypeOK
<1>4. \A q \in Request \ {p} : (Passed(q)' <=> Passed(q)) /\ (Counts(q)' <=> Counts(q))
  BY <1>2 DEF Passed, Counts
<1>5. Passed(p)' /\ Counts(p)' /\ ~Passed(p) /\ ~Counts(p)
  BY <1>1, <1>2 DEF Passed, Counts
<1>6. p \in hits'[req[p].call.by]
  BY <1>1, ByTyped DEF Enter, Counted, LimiterTypeOK
<1>7. HitKept'
  <2> SUFFICES ASSUME NEW q \in Request, Passed(q)'
      PROVE  \/ q \in hits'[req'[q].call.by]
             \/ \E x \in Request : /\ req'[x].call.by = req'[q].call.by /\ Counts(x)'
                                   /\ req'[x].stamp >= req'[q].stamp + Window
    BY DEF HitKept
  <2>1. CASE q = p
    BY <1>2, <1>6, <2>1
  <2>2. CASE q # p
    <3>1. Passed(q) /\ req'[q] = req[q]
      BY <1>2, <1>4, <2>2
    <3>2. CASE q \in hits[req[q].call.by]
      BY <1>1, <1>2, <1>5, <3>1, <3>2, Entered
    <3>3. CASE q \notin hits[req[q].call.by]
      <4>1. PICK x \in Request : /\ req[x].call.by = req[q].call.by /\ Counts(x)
                                 /\ req[x].stamp >= req[q].stamp + Window
        BY <3>1, <3>3 DEF HitKept
      <4>2. x # p
        BY <4>1, <1>5
      <4> QED
        BY <1>2, <1>4, <3>1, <4>1, <4>2
    <3> QED
      BY <3>2, <3>3
  <2> QED
    BY <2>1, <2>2
<1>8. WindowHolds'
  <2> SUFFICES ASSUME NEW r \in Request, Passed(r)'
      PROVE  \/ Cardinality(WindowUpTo(r)') <= Limit
             \/ \E q \in WindowUpTo(r)' : req'[q].late
    BY DEF WindowHolds
  <2>1. CASE p \notin WindowUpTo(r)'
    <3>1. r # p
      BY <1>2, <1>5, <2>1, ByTyped, AccessAssumption DEF WindowUpTo
    <3>2. WindowUpTo(r)' = WindowUpTo(r)
      BY <1>2, <1>4, <1>5, <2>1, <3>1 DEF WindowUpTo
    <3>3. \A q \in WindowUpTo(r) : req'[q].late = req[q].late
      BY <1>2, <1>5 DEF WindowUpTo
    <3>4. Passed(r)
      BY <1>4, <3>1
    <3> QED
      BY <3>2, <3>3, <3>4 DEF WindowHolds
  <2>2. CASE p \in WindowUpTo(r)' /\ Overtaken(p)
    BY <1>2, <2>2
  <2>3. CASE p \in WindowUpTo(r)' /\ ~Overtaken(p)
    <3>1. req[p].call.by = req[r].call.by /\ req[p].stamp <= req[r].stamp
      BY <1>2, <2>3 DEF WindowUpTo
    <3>2. req[r].stamp = req[p].stamp
      <4>1. CASE r = p
        BY <4>1
      <4>2. CASE r # p
        <5>1. Counts(r)
          BY <1>4, <4>2 DEF Passed, Counts
        <5>2. ~(req[r].stamp > req[p].stamp)
          BY <2>3, <3>1, <5>1 DEF Overtaken
        <5> QED
          BY <3>1, <5>2, ByTyped
      <4> QED
        BY <4>1, <4>2
    <3>3. WindowUpTo(r)' \subseteq Counted(p)
      <4> SUFFICES ASSUME NEW q \in WindowUpTo(r)', q # p
          PROVE  q \in Counted(p)
        BY DEF Counted
      <4>1. /\ q \in Request /\ Passed(q) /\ req[q].call.by = req[p].call.by
            /\ req[q].stamp > req[p].stamp - Window
        BY <1>2, <1>4, <3>1, <3>2 DEF WindowUpTo
      <4>2. q \in hits[req[q].call.by]
        <5> SUFFICES ASSUME NEW x \in Request, req[x].call.by = req[q].call.by, Counts(x),
                            req[x].stamp >= req[q].stamp + Window
            PROVE  FALSE
          BY <4>1 DEF HitKept
        <5>1. req[x].stamp > req[p].stamp
          BY <4>1, ByTyped, AccessAssumption
        <5> QED
          BY <2>3, <4>1, <5>1 DEF Overtaken
      <4> QED
        BY <4>1, <4>2 DEF Counted
    <3>4. IsFiniteSet(Counted(p))
      <4>1. Counted(p) \subseteq Request
        BY ByTyped DEF Counted, LimiterTypeOK
      <4>2. IsFiniteSet(Request)
        BY AccessAssumption, FS_Interval DEF Request
      <4> QED
        BY <4>1, <4>2, FS_Subset
    <3>5. /\ Cardinality(WindowUpTo(r)') <= Cardinality(Counted(p))
          /\ Cardinality(WindowUpTo(r)') \in Nat /\ Cardinality(Counted(p)) \in Nat
      BY <3>3, <3>4, FS_Subset, FS_CardinalityType
    <3> QED
      BY <1>1, <3>5, AccessAssumption
  <2> QED
    BY <2>1, <2>2, <2>3
<1> QED
  BY <1>3, <1>7, <1>8

LEMMA AccessStep == AccessInv /\ [AccessNext]_accessVars => AccessInv'
<1> SUFFICES ASSUME AccessInv, [AccessNext]_accessVars PROVE AccessInv'
  OBVIOUS
<1>1. CASE UNCHANGED <<req, hits>> /\ now' \in Nat
  BY <1>1 DEF AccessInv, LimiterTypeOK, HitKept, WindowHolds, Passed, Counts, WindowUpTo
<1>2. CASE UNCHANGED accessVars
  BY <1>1, <1>2 DEF accessVars, AccessInv, LimiterTypeOK
<1>3. CASE Tick
  BY <1>1, <1>3 DEF Tick, AccessInv, LimiterTypeOK
<1>4. ASSUME NEW r \in Request, NEW c \in Call[r], Authenticate(r, c) PROVE AccessInv'
  <2>1. req[r].at = "new" /\ req'[r].at \in {"unauthorized", "forbidden", "stamped"}
        /\ UNCHANGED <<now, hits>> /\ \A q \in Request \ {r} : req'[q] = req[q]
    BY <1>4 DEF Authenticate, AccessInv, LimiterTypeOK
  <2>2. LimiterTypeOK'
    BY <1>4 DEF Authenticate, AccessInv, LimiterTypeOK, Stages
  <2>3. ~Passed(r) /\ ~Passed(r)' /\ ~Counts(r)
    BY <2>1 DEF Passed, Counts
  <2> QED
    BY <2>1, <2>2, <2>3, Bystander
<1>5. ASSUME NEW r \in Request, HitServed(r) PROVE AccessInv'
  BY <1>5, ServedInWindow
<1>6. ASSUME NEW r \in Request, req[r].at \in {"stamped", "giveback"},
             Enter(r) \/ UNCHANGED hits, UNCHANGED now,
             Goto(r, "giveback") \/ Goto(r, "unavailable")
      PROVE  AccessInv'
  <2>1. /\ req'[r].at \in {"giveback", "unavailable"}
        /\ req'[r].call = req[r].call /\ req'[r].stamp = req[r].stamp
        /\ \A q \in Request \ {r} : req'[q] = req[q]
    BY <1>6, Moved DEF AccessInv, Stages
  <2>2. LimiterTypeOK'
    <3>1. hits' \in [Caller -> SUBSET Request]
      BY <1>6, Entered DEF AccessInv, LimiterTypeOK
    <3>2. req' \in [Request -> [at : Stages, call : UNION {Call[q] : q \in Request},
                                stamp : Nat, late : BOOLEAN]]
      BY <1>6, Moved DEF AccessInv, Stages
    <3> QED
      BY <1>6, <3>1, <3>2 DEF AccessInv, LimiterTypeOK
  <2>3. ~Passed(r) /\ ~Passed(r)' /\ Counts(r)'
    BY <1>6, <2>1 DEF Passed, Counts
  <2>4. \A q \in Request : q \in hits[req[q].call.by] =>
            \/ q \in hits'[req[q].call.by]
            \/ req[r].call.by = req[q].call.by /\ req[r].stamp >= req[q].stamp + Window
    BY <1>6, Entered DEF AccessInv
  <2> QED
    BY <2>1, <2>2, <2>3, <2>4, Bystander
<1>7. ASSUME NEW r \in Request, HitDenied(r) PROVE AccessInv'
  BY <1>6, <1>7 DEF HitDenied
<1>8. ASSUME NEW r \in Request, StoreFails(r) PROVE AccessInv'
  BY <1>6, <1>8 DEF StoreFails
<1>9. ASSUME NEW r \in Request, GiveBack(r) PROVE AccessInv'
  <2>1. /\ req[r].at = "giveback" /\ req'[r].at = "denied"
        /\ req'[r].call = req[r].call /\ req'[r].stamp = req[r].stamp
        /\ \A q \in Request \ {r} : req'[q] = req[q]
    BY <1>9, Moved DEF GiveBack, AccessInv, Stages
  <2>2. LimiterTypeOK'
    <3>1. hits' \in [Caller -> SUBSET Request] /\ now' \in Nat
      BY <1>9, ByTyped DEF GiveBack, AccessInv, LimiterTypeOK
    <3>2. req' \in [Request -> [at : Stages, call : UNION {Call[q] : q \in Request},
                                stamp : Nat, late : BOOLEAN]]
      BY <1>9, Moved DEF GiveBack, AccessInv, Stages
    <3> QED
      BY <3>1, <3>2 DEF LimiterTypeOK
  <2>3. ~Passed(r) /\ ~Passed(r)' /\ Counts(r)'
    BY <2>1 DEF Passed, Counts
  <2>4. \A q \in Request \ {r} : q \in hits[req[q].call.by] => q \in hits'[req[q].call.by]
    BY <1>9, ByTyped DEF GiveBack, AccessInv, LimiterTypeOK
  <2> QED
    BY <2>1, <2>2, <2>3, <2>4, Bystander
<1>10. ASSUME NEW r \in Request, Handle(r) PROVE AccessInv'
  <2>1. /\ req[r].at = "handler" /\ req'[r].at = "served" /\ req'[r].late = req[r].late
        /\ req'[r].call = req[r].call /\ req'[r].stamp = req[r].stamp
        /\ UNCHANGED <<now, hits>> /\ \A q \in Request \ {r} : req'[q] = req[q]
    BY <1>10, Moved DEF Handle, AccessInv, Stages
  <2>2. LimiterTypeOK'
    <3>1. req' \in [Request -> [at : Stages, call : UNION {Call[q] : q \in Request},
                                stamp : Nat, late : BOOLEAN]]
      BY <1>10, Moved DEF Handle, AccessInv, Stages
    <3> QED
      BY <1>10, <3>1 DEF Handle, AccessInv, LimiterTypeOK
  <2>3. Passed(r) /\ Passed(r)' /\ Counts(r)'
    BY <2>1 DEF Passed, Counts
  <2> QED
    BY <2>1, <2>2, <2>3, Bystander
<1> QED
  BY <1>2, <1>3, <1>4, <1>5, <1>7, <1>8, <1>9, <1>10 DEF AccessNext

(* No window of one identity holds more served requests than the budget,   *)
(* unless one of them was overtaken, for any number of requests and        *)
(* identities, any budget and any failing calls of the store.              *)
THEOREM BudgetKept == AccessSpec => []WindowHolds
<1>1. AccessInv => WindowHolds
  BY DEF AccessInv
<1> QED
  BY <1>1, AccessInitial, AccessStep, PTL DEF AccessSpec

----------------------------------------------------------------------------
(* The alert engines.  What an engine has recorded and not yet counted for *)
(* a rule is no obstacle: a rule whose turn has come, and that finds       *)
(* Threshold signals, has fired since the last of them less one cool-down. *)
Raised == Cardinality(DOMAIN signals)

AlertShape ==
    /\ clock \in Nat /\ handed \in 0..Raised /\ Raised \in Nat
    /\ signals \in [1..Raised -> 0..clock]
    /\ series \in [Engine -> SUBSET (1..handed)] /\ observed \in [Engine -> SUBSET (1..handed)]
    /\ todo \in [Engine -> SUBSET Rule]
    /\ lastFired \in [Engine -> [Rule -> Nat \cup {Never}]]

StillCounted ==
    \A e \in Engine, r \in Rule : Recent(e, r) \subseteq series[e] /\ series[e] \subseteq observed[e]

AnsweredSpikes ==
    \A e \in Engine, r \in Rule :
        r \notin todo[e] /\ Cardinality(Recent(e, r)) >= Threshold[r]
        => /\ lastFired[e][r] # Never
           /\ \A s \in observed[e] : lastFired[e][r] >= signals[s] - Cooldown

AlertInv == AlertShape /\ StillCounted /\ AnsweredSpikes

LEMMA RuleFacts ==
  ASSUME NEW r \in Rule
  PROVE  /\ WindowOf[r] \in Nat \ {0} /\ Threshold[r] \in Nat \ {0} /\ Cooldown \in Nat
         /\ clock \in Nat => Horizon \in Int /\ Horizon <= clock - WindowOf[r]
<1> DEFINE Widths == {WindowOf[q] : q \in Rule}
           f == [q \in Rule |-> WindowOf[q]]
<1>1. f \in Surjection(Rule, Widths)
  BY DEF Surjection
<1>2. Widths \in SUBSET Int /\ WindowOf[r] \in Widths
  BY AlertAssumption
<1>3. IsFiniteSet(Widths)
  <2> HIDE DEF Widths, f
  <2> QED
    BY <1>1, AlertAssumption, FS_Surjection
<1>4. PICK n \in Widths : \A m \in Widths : m <= n
  <2> HIDE DEF Widths
  <2> QED
    BY <1>2, <1>3, LargestExists
<1>5. Max(Widths) \in Widths /\ \A m \in Widths : Max(Widths) >= m
  <2> HIDE DEF Widths
  <2>1. \A m \in Widths : n >= m
    BY <1>2, <1>4
  <2> QED
    BY <1>4, <2>1 DEF Max
<1>6. Horizon = clock - Max(Widths)
  BY DEF Horizon
<1>7. WindowOf[r] \in Nat \ {0} /\ Threshold[r] \in Nat \ {0} /\ Cooldown \in Nat
  BY AlertAssumption
<1> HIDE DEF Widths
<1>8. Max(Widths) \in Int /\ Max(Widths) >= WindowOf[r]
  BY <1>2, <1>5
<1>9. ASSUME clock \in Nat PROVE Horizon \in Int /\ Horizon <= clock - WindowOf[r]
  BY <1>6, <1>7, <1>8, <1>9
<1> QED
  BY <1>7, <1>9

LEMMA RecentFinite ==
  ASSUME AlertShape, NEW e \in Engine, NEW r
  PROVE  IsFiniteSet(Recent(e, r)) /\ Cardinality(Recent(e, r)) \in Nat /\ Recent(e, r) \subseteq observed[e]
<1>1. Recent(e, r) \subseteq 1..handed /\ handed \in Int /\ Recent(e, r) \subseteq observed[e]
  BY DEF AlertShape, Recent
<1>2. IsFiniteSet(1..handed)
  BY <1>1, FS_Interval
<1> QED
  BY <1>1, <1>2, FS_Subset, FS_CardinalityType

LEMMA AlertInitial == AlertInit => AlertInv
<1> SUFFICES ASSUME AlertInit PROVE AlertInv
  OBVIOUS
<1>1. DOMAIN signals = {} /\ Cardinality({}) = 0
  BY FS_EmptySet DEF AlertInit
<1>2. Raised = 0
  BY <1>1 DEF Raised
<1>3. AlertShape
  BY <1>1, <1>2 DEF AlertInit, AlertShape
<1>4. ASSUME NEW e \in Engine, NEW r \in Rule
      PROVE  Recent(e, r) = {} /\ observed[e] = {} /\ series[e] = {}
  BY DEF AlertInit, Recent
<1>5. ASSUME NEW e \in Engine, NEW r \in Rule PROVE ~(Cardinality(Recent(e, r)) >= Threshold[r])
  <2>1. Cardinality(Recent(e, r)) = 0
    BY <1>1, <1>4
  <2> QED
    BY <2>1, RuleFacts
<1>6. AnsweredSpikes
  BY <1>5 DEF AnsweredSpikes
<1> QED
  BY <1>3, <1>4, <1>6 DEF AlertInv, StillCounted

(* A step that records nothing at an engine: fewer signals are recent.     *)
LEMMA RecentShrinks ==
  ASSUME AlertInv, NEW e \in Engine, NEW r \in Rule,
         observed'[e] = observed[e], clock' \in Nat, clock <= clock',
         \A s \in 1..handed : signals'[s] = signals[s]
  PROVE  /\ Recent(e, r)' \subseteq Recent(e, r)
         /\ Cardinality(Recent(e, r)') >= Threshold[r] => Cardinality(Recent(e, r)) >= Threshold[r]
<1>1. Recent(e, r)' \subseteq Recent(e, r)
  <2> SUFFICES ASSUME NEW s \in observed[e], signals'[s] > clock' - WindowOf[r]
               PROVE  signals[s] > clock - WindowOf[r]
    BY DEF Recent
  <2>1. s \in 1..handed /\ handed \in 0..Raised /\ signals[s] \in Int /\ clock \in Int /\ WindowOf[r] \in Int
    BY RuleFacts DEF AlertInv, AlertShape
  <2> QED
    BY <2>1
<1>2. IsFiniteSet(Recent(e, r)) /\ Cardinality(Recent(e, r)) \in Nat
  BY RecentFinite DEF AlertInv
<1>3. Cardinality(Recent(e, r)') <= Cardinality(Recent(e, r)) /\ Cardinality(Recent(e, r)') \in Nat
  BY <1>1, <1>2, FS_Subset, FS_CardinalityType
<1> QED
  BY <1>1, <1>2, <1>3, RuleFacts

(* Time passes, or a failure happens.                                      *)
LEMMA WaitingStep ==
  ASSUME AlertInv, Pass \/ Raise \/ UNCHANGED alertVars
  PROVE  AlertInv'
<1>1. /\ UNCHANGED <<handed, series, todo, lastFired, observed>>
      /\ clock' \in Nat /\ clock <= clock'
  BY DEF AlertInv, AlertShape, Pass, Raise, alertVars
<1>2. /\ Raised' \in Nat /\ handed' \in 0..Raised' /\ signals' \in [1..Raised' -> 0..clock']
      /\ \A s \in 1..handed : signals'[s] = signals[s]
  <2>1. CASE Raise
    <3> DEFINE n == Raised
    <3>1. signals' = [i \in 1..(n + 1) |-> IF i <= n THEN signals[i] ELSE clock] /\ clock' = clock
      BY <2>1 DEF Raise, Raised
    <3>2. n \in Nat /\ DOMAIN signals' = 1..(n + 1)
      BY <3>1 DEF AlertInv, AlertShape
    <3>3. Cardinality(1..(n + 1)) = n + 1
      <4> HIDE DEF n
      <4> QED
        BY <3>2, FS_Interval
    <3>4. Raised' = n + 1
      BY <3>2, <3>3 DEF Raised
    <3> QED
      BY <1>1, <3>1, <3>2, <3>4 DEF AlertInv, AlertShape
  <2>2. CASE Pass \/ UNCHANGED alertVars
    <3>1. signals' = signals
      BY <2>2 DEF Pass, alertVars
    <3>2. Raised' = Raised
      BY <3>1 DEF Raised
    <3> QED
      BY <1>1, <3>1, <3>2 DEF AlertInv, AlertShape
  <2> QED
    BY <2>1, <2>2
<1>3. AlertShape'
  BY <1>1, <1>2 DEF AlertInv, AlertShape
<1>4. ASSUME NEW e \in Engine, NEW r \in Rule
      PROVE  /\ Recent(e, r)' \subseteq Recent(e, r)
             /\ Cardinality(Recent(e, r)') >= Threshold[r] => Cardinality(Recent(e, r)) >= Threshold[r]
  BY <1>1, <1>2, RecentShrinks
<1>5. StillCounted'
  BY <1>1, <1>4 DEF AlertInv, StillCounted
<1>6. AnsweredSpikes'
  <2> SUFFICES ASSUME NEW e \in Engine, NEW r \in Rule, r \notin todo'[e],
                      Cardinality(Recent(e, r)') >= Threshold[r]
               PROVE  /\ lastFired'[e][r] # Never
                      /\ \A s \in observed'[e] : lastFired'[e][r] >= signals'[s] - Cooldown
    BY DEF AnsweredSpikes
  <2>1. /\ lastFired[e][r] # Never
        /\ \A s \in observed[e] : lastFired[e][r] >= signals[s] - Cooldown
    BY <1>1, <1>4 DEF AlertInv, AnsweredSpikes
  <2>2. \A s \in observed[e] : s \in 1..handed
    BY DEF AlertInv, AlertShape
  <2> QED
    BY <1>1, <1>2, <2>1, <2>2
<1> QED
  BY <1>3, <1>5, <1>6 DEF AlertInv

(* The steps of an engine leave the clock, the signals and the other       *)
(* engines alone.                                                          *)
LEMMA EngineAlone ==
  ASSUME AlertInv, NEW e \in Engine, UNCHANGED <<clock, signals>>, AlertShape',
         \A d \in Engine \ {e} : /\ series'[d] = series[d] /\ observed'[d] = observed[d]
                                 /\ todo'[d] = todo[d] /\ lastFired'[d] = lastFired[d],
         \A r \in Rule : Recent(e, r)' \subseteq series'[e] /\ series'[e] \subseteq observed'[e],
         \A r \in Rule : r \notin todo'[e] /\ Cardinality(Recent(e, r)') >= Threshold[r]
            => /\ lastFired'[e][r] # Never
               /\ \A s \in observed'[e] : lastFired'[e][r] >= signals'[s] - Cooldown
  PROVE  AlertInv'
<1>1. \A d \in Engine \ {e}, r \in Rule : Recent(d, r)' = Recent(d, r)
  BY DEF Recent
<1>2. StillCounted'
  BY <1>1 DEF AlertInv, StillCounted
<1>3. AnsweredSpikes'
  BY <1>1 DEF AlertInv, AnsweredSpikes
<1> QED
  BY <1>2, <1>3 DEF AlertInv

LEMMA RecordStep == ASSUME AlertInv, NEW e \in Engine, Record(e) PROVE AlertInv'
<1> DEFINE n == handed + 1
<1>1. /\ handed < Raised /\ handed' = n /\ n \in 1..Raised /\ UNCHANGED <<clock, signals, lastFired>>
      /\ series' = [series EXCEPT ![e] = {s \in @ \cup {n} : signals[s] >= Horizon}]
      /\ observed' = [observed EXCEPT ![e] = @ \cup {n}]
      /\ todo' = [todo EXCEPT ![e] = Rule]
  BY DEF AlertInv, AlertShape, Record, Raised
<1>2. Raised' = Raised
  BY <1>1 DEF Raised
<1>3. AlertShape'
  <2>1. /\ observed' \in [Engine -> SUBSET (1..n)] /\ series' \in [Engine -> SUBSET (1..n)]
    <3>1. \A S \in SUBSET (1..handed) : S \in SUBSET (1..n) /\ S \cup {n} \in SUBSET (1..n)
      BY <1>1 DEF AlertInv, AlertShape
    <3> HIDE DEF n
    <3> QED
      BY <1>1, <3>1 DEF AlertInv, AlertShape
  <2>2. todo' \in [Engine -> SUBSET Rule] /\ n \in 0..Raised
    BY <1>1 DEF AlertInv, AlertShape
  <2> HIDE DEF n
  <2> QED
    BY <1>1, <1>2, <2>1, <2>2 DEF AlertInv, AlertShape
<1>4. \A d \in Engine \ {e} : /\ series'[d] = series[d] /\ observed'[d] = observed[d]
                              /\ todo'[d] = todo[d] /\ lastFired'[d] = lastFired[d]
  <2> HIDE DEF n
  <2> QED
    BY <1>1 DEF AlertInv, AlertShape
<1>5. ASSUME NEW r \in Rule PROVE Recent(e, r)' \subseteq series'[e] /\ series'[e] \subseteq observed'[e]
  <2>1. /\ series'[e] = {s \in series[e] \cup {n} : signals[s] >= Horizon}
        /\ observed'[e] = observed[e] \cup {n}
    <3> HIDE DEF n
    <3> QED
      BY <1>1 DEF AlertInv, AlertShape
  <2>2. series[e] \subseteq observed[e] /\ Recent(e, r) \subseteq series[e]
    BY DEF AlertInv, StillCounted
  <2>3. ASSUME NEW s \in observed'[e], signals[s] > clock - WindowOf[r] PROVE s \in series'[e]
    <3>1. s \in series[e] \cup {n}
      BY <2>1, <2>2, <2>3 DEF Recent
    <3>2. s \in 1..Raised
      BY <1>1, <3>1 DEF AlertInv, AlertShape
    <3>3. signals[s] \in Int /\ Horizon \in Int /\ Horizon <= clock - WindowOf[r]
          /\ clock \in Int /\ WindowOf[r] \in Int
      BY <3>2, RuleFacts DEF AlertInv, AlertShape
    <3> QED
      BY <2>1, <2>3, <3>1, <3>3
  <2>4. Recent(e, r)' = {s \in observed'[e] : signals[s] > clock - WindowOf[r]}
    BY <1>1 DEF Recent
  <2> HIDE DEF n
  <2> QED
    BY <2>1, <2>2, <2>3, <2>4
<1>6. \A r \in Rule : r \in todo'[e]
  BY <1>1 DEF AlertInv, AlertShape
<1> HIDE DEF n
<1> QED
  BY <1>1, <1>3, <1>4, <1>5, <1>6, EngineAlone

(* All that is recorded was raised by now, so a rule that fires, or is     *)
(* cooling down, answers for all of it.                                    *)
LEMMA EvaluateStep == ASSUME AlertInv, NEW e \in Engine, NEW r \in Rule, Evaluate(e, r) PROVE AlertInv'
<1>1. /\ UNCHANGED <<clock, signals, handed, series, observed>>
      /\ todo' = [todo EXCEPT ![e] = @ \ {r}]
      /\ lastFired' = IF Count(e, r) >= Threshold[r] /\ ~Cooling(e, r)
                      THEN [lastFired EXCEPT ![e][r] = clock] ELSE lastFired
  BY DEF Evaluate
<1>2. Raised' = Raised
  BY <1>1 DEF Raised
<1>3. AlertShape'
  BY <1>1, <1>2 DEF AlertInv, AlertShape
<1>4. /\ \A d \in Engine \ {e} : /\ series'[d] = series[d] /\ observed'[d] = observed[d]
                              /\ todo'[d] = todo[d] /\ lastFired'[d] = lastFired[d]
      /\ \A q \in Rule : q # r => lastFired'[e][q] = lastFired[e][q]
  BY <1>1 DEF AlertInv, AlertShape
<1>5. \A q \in Rule : Recent(e, q)' = Recent(e, q)
  BY <1>1 DEF Recent
<1>6. \A q \in Rule : Recent(e, q)' \subseteq series'[e] /\ series'[e] \subseteq observed'[e]
  BY <1>1, <1>5 DEF AlertInv, StillCounted
<1>7. \A s \in observed[e] : signals[s] \in Int /\ signals[s] <= clock
  BY DEF AlertInv, AlertShape
<1>8. ASSUME NEW q \in Rule, q \notin todo'[e], Cardinality(Recent(e, q)') >= Threshold[q]
      PROVE  /\ lastFired'[e][q] # Never
             /\ \A s \in observed'[e] : lastFired'[e][q] >= signals'[s] - Cooldown
  <2>1. CASE q # r
    <3>1. q \notin todo[e]
      BY <1>1, <1>8, <2>1 DEF AlertInv, AlertShape
    <3> QED
      BY <1>1, <1>4, <1>5, <1>8, <2>1, <3>1 DEF AlertInv, AnsweredSpikes
  <2>2. CASE q = r
    <3>1. Recent(e, r) = {s \in series[e] : signals[s] > clock - WindowOf[r]}
      BY DEF AlertInv, StillCounted, Recent
    <3>2. Count(e, r) >= Threshold[r]
      BY <1>5, <1>8, <2>2, <3>1 DEF Count
    <3>3. CASE Cooling(e, r)
      <4>1. lastFired' = lastFired /\ lastFired[e][r] # Never /\ clock - lastFired[e][r] < Cooldown
        BY <1>1, <3>3 DEF Cooling
      <4>2. lastFired[e][r] \in Int /\ clock \in Int /\ Cooldown \in Int
        BY RuleFacts DEF AlertInv, AlertShape, Never
      <4> QED
        BY <1>1, <1>7, <2>2, <4>1, <4>2
    <3>4. CASE ~Cooling(e, r)
      <4>1. lastFired'[e][r] = clock /\ clock \in Nat /\ Cooldown \in Nat
        BY <1>1, <3>2, <3>4, RuleFacts DEF AlertInv, AlertShape
      <4> QED
        BY <1>1, <1>7, <2>2, <4>1 DEF Never
    <3> QED
      BY <3>3, <3>4
  <2> QED
    BY <2>1, <2>2
<1> QED
  BY <1>1, <1>3, <1>4, <1>6, <1>8, EngineAlone

LEMMA RestartStep == ASSUME AlertInv, NEW e \in Engine, RestartEngine(e) PROVE AlertInv'
<1>1. /\ UNCHANGED <<clock, signals, handed>>
      /\ series' = [series EXCEPT ![e] = {}] /\ observed' = [observed EXCEPT ![e] = {}]
      /\ todo' = [todo EXCEPT ![e] = {}]
      /\ lastFired' = [lastFired EXCEPT ![e] = [r \in Rule |-> Never]]
  BY DEF RestartEngine
<1>2. Raised' = Raised
  BY <1>1 DEF Raised
<1>3. AlertShape'
  BY <1>1, <1>2 DEF AlertInv, AlertShape
<1>4. \A d \in Engine \ {e} : /\ series'[d] = series[d] /\ observed'[d] = observed[d]
                              /\ todo'[d] = todo[d] /\ lastFired'[d] = lastFired[d]
  BY <1>1 DEF AlertInv, AlertShape
<1>5. \A r \in Rule : Recent(e, r)' = {} /\ series'[e] = {} /\ observed'[e] = {}
  BY <1>1 DEF AlertInv, AlertShape, Recent
<1>6. Cardinality({}) = 0 /\ \A r \in Rule : ~(0 >= Threshold[r])
  BY FS_EmptySet, RuleFacts
<1> QED
  BY <1>1, <1>3, <1>4, <1>5, <1>6, EngineAlone

LEMMA AlertStep == AlertInv /\ [AlertNext]_alertVars => AlertInv'
BY WaitingStep, RecordStep, EvaluateStep, RestartStep DEF AlertNext

(* The clock, the stream and the restarts within their bounds.             *)
AlertBounds == clock \in 0..MaxClock /\ Raised \in 0..MaxSignals /\ restarts \in 0..MaxRestarts

LEMMA AlertBoundsStep == AlertInv /\ AlertBounds /\ [AlertNext]_alertVars => AlertBounds'
<1> SUFFICES ASSUME AlertInv, AlertBounds, [AlertNext]_alertVars PROVE AlertBounds'
  OBVIOUS
<1>1. CASE UNCHANGED alertVars
  BY <1>1 DEF alertVars, AlertBounds, Raised
<1>2. CASE Pass
  BY <1>2, AlertAssumption DEF Pass, AlertBounds, Raised
<1>3. CASE Raise
  <2>1. /\ Raised \in Nat /\ Raised < MaxSignals /\ DOMAIN signals' = 1..(Raised + 1)
        /\ UNCHANGED <<clock, restarts>>
    BY <1>3 DEF Raise, Raised, AlertInv, AlertShape
  <2>2. Cardinality(1..(Raised + 1)) = Raised + 1
    <3>1. 1 <= Raised + 1 /\ 1 \in Int /\ Raised + 1 \in Int /\ (Raised + 1) - 1 + 1 = Raised + 1
      BY <2>1
    <3> QED
      BY <3>1, <2>1, FS_Interval
  <2>3. Raised' = Raised + 1
    BY <2>1, <2>2 DEF Raised
  <2> QED
    BY <2>1, <2>3, AlertAssumption DEF AlertBounds
<1>4. ASSUME NEW e \in Engine, Record(e) PROVE AlertBounds'
  BY <1>4 DEF Record, AlertBounds, Raised
<1>5. ASSUME NEW e \in Engine, RestartEngine(e) PROVE AlertBounds'
  BY <1>5, AlertAssumption DEF RestartEngine, AlertBounds, Raised
<1>6. ASSUME NEW e \in Engine, NEW r \in Rule, Evaluate(e, r) PROVE AlertBounds'
  BY <1>6 DEF Evaluate, AlertBounds, Raised
<1> QED
  BY <1>1, <1>2, <1>3, <1>4, <1>5, <1>6 DEF AlertNext

(* What an engine counts are signals of the stream, whatever is lost.      *)
THEOREM AlertTypeCorrect == AlertSpec => []AlertTypeOK
<1>1. AlertInit => AlertBounds
  <2> SUFFICES ASSUME AlertInit PROVE AlertBounds
    OBVIOUS
  <2>1. clock = 0 /\ restarts = 0 /\ DOMAIN signals = {}
    BY DEF AlertInit
  <2>2. Raised = 0
    BY <2>1, FS_EmptySet DEF Raised
  <2> QED
    BY <2>1, <2>2, AlertAssumption DEF AlertBounds
<1>2. AlertInv /\ AlertBounds => AlertTypeOK
  <2> SUFFICES ASSUME AlertInv, AlertBounds PROVE AlertTypeOK
    OBVIOUS
  <2>1. DOMAIN signals = 1..Raised /\ handed \in 0..MaxSignals /\ 1..handed \subseteq Signal
    BY AlertAssumption DEF AlertInv, AlertShape, AlertBounds, Signal
  <2>2. DOMAIN signals = 1..Cardinality(DOMAIN signals)
    BY <2>1 DEF Raised
  <2>3. series \in [Engine -> SUBSET Signal] /\ observed \in [Engine -> SUBSET Signal]
    BY <2>1 DEF AlertInv, AlertShape
  <2> QED
    BY <2>1, <2>2, <2>3 DEF AlertInv, AlertShape, AlertBounds, AlertTypeOK
<1> QED
  BY <1>1, <1>2, AlertInitial, AlertStep, AlertBoundsStep, PTL DEF AlertSpec

(* alerting/engine.ts:121-148: when the signals that are recent to the     *)
(* replicas are more than they can share without one of them having        *)
(* Threshold, some replica has fired since the window less a cool-down     *)
(* began, for any rules, any number of replicas and any restarts.          *)
THEOREM SpikesFire == AlertSpec => []GroupSpikeFires
<1>1. AlertInv => GroupSpikeFires
  <2> SUFFICES ASSUME AlertInv, NEW r \in Rule, \A e \in Engine : todo[e] = {},
                      Cardinality(UNION {Recent(e, r) : e \in Engine})
                        > Cardinality(Engine) * (Threshold[r] - 1)
               PROVE  \E e \in Engine : FiredSince(e, r, clock - WindowOf[r] - Cooldown)
    BY DEF GroupSpikeFires
  <2>1. /\ WindowOf[r] \in Nat \ {0} /\ Threshold[r] \in Nat \ {0} /\ Cooldown \in Nat
        /\ clock \in Nat /\ AlertShape
    BY RuleFacts DEF AlertInv, AlertShape
  <2>2. PICK e \in Engine : Cardinality(Recent(e, r)) >= Threshold[r]
    <3> DEFINE k == Threshold[r] - 1
               part == [e \in Engine |-> Recent(e, r)]
    <3> SUFFICES ASSUME \A e \in Engine : ~(Cardinality(Recent(e, r)) >= Threshold[r]) PROVE FALSE
      OBVIOUS
    <3>1. \A e \in Engine : IsFiniteSet(part[e]) /\ Cardinality(part[e]) <= k
      BY <2>1, RecentFinite
    <3>2. IsFiniteSet(Engine) /\ Cardinality(Engine) \in Nat /\ k \in Nat
      BY <2>1, AlertAssumption, FS_CardinalityType
    <3>3. {Recent(e, r) : e \in Engine} = {part[e] : e \in Engine}
      OBVIOUS
    <3> HIDE DEF part, k
    <3> DEFINE U == UNION {part[e] : e \in Engine}
    <3>4. IsFiniteSet(U) /\ Cardinality(U) <= Cardinality(Engine) * k
      BY <3>1, <3>2, UnionSize
    <3>5. Cardinality(U) \in Nat /\ Cardinality(Engine) * k \in Nat
      BY <3>2, <3>4, FS_CardinalityType
    <3>6. Cardinality(U) > Cardinality(Engine) * k
      BY <3>3 DEF k
    <3> QED
      BY <3>4, <3>5, <3>6
  <2>3. /\ lastFired[e][r] # Never
        /\ \A s \in observed[e] : lastFired[e][r] >= signals[s] - Cooldown
    BY <2>2 DEF AlertInv, AnsweredSpikes
  <2>4. PICK s \in observed[e] : signals[s] > clock - WindowOf[r]
    <3>1. Recent(e, r) # {}
      <4> SUFFICES ASSUME Recent(e, r) = {} PROVE FALSE
        OBVIOUS
      <4>1. Cardinality(Recent(e, r)) = 0
        BY FS_EmptySet
      <4>2. ~(0 >= Threshold[r])
        BY <2>1
      <4> QED
        BY <2>2, <4>1, <4>2
    <3> QED
      BY <3>1 DEF Recent
  <2>5. signals[s] \in Int /\ lastFired[e][r] \in Int
    BY <2>3 DEF AlertInv, AlertShape
  <2> QED
    BY <2>1, <2>3, <2>4, <2>5 DEF FiredSince
<1> QED
  BY <1>1, AlertInitial, AlertStep, PTL DEF AlertSpec

(* engine.ts:146-150: two firings of a rule by one process are a cool-down *)
(* apart, whatever is handed to it meanwhile.                              *)
THEOREM PagedOnce == AlertSpec => OnePagePerCooldown
<1>1. AlertInv /\ [AlertNext]_alertVars
        => [\A e \in Engine, r \in Rule :
              lastFired[e][r] # Never /\ lastFired'[e][r] \notin {Never, lastFired[e][r]}
              => lastFired'[e][r] - lastFired[e][r] >= Cooldown]_alertVars
  <2> SUFFICES ASSUME AlertInv, AlertNext, NEW e \in Engine, NEW r \in Rule,
                      lastFired[e][r] # Never, lastFired'[e][r] \notin {Never, lastFired[e][r]}
               PROVE  lastFired'[e][r] - lastFired[e][r] >= Cooldown
    OBVIOUS
  <2>1. AlertShape
    BY DEF AlertInv
  <2>2. CASE Pass \/ Raise
    BY <2>2 DEF Pass, Raise
  <2>3. ASSUME NEW d \in Engine, Record(d) PROVE FALSE
    BY <2>3 DEF Record
  <2>4. ASSUME NEW d \in Engine, RestartEngine(d) PROVE FALSE
    BY <2>1, <2>4 DEF RestartEngine, AlertShape
  <2>5. ASSUME NEW d \in Engine, NEW q \in Rule, Evaluate(d, q)
        PROVE  lastFired'[e][r] - lastFired[e][r] >= Cooldown
    <3>1. /\ ~Cooling(d, q) /\ lastFired' = [lastFired EXCEPT ![d][q] = clock] /\ d = e /\ q = r
      BY <2>1, <2>5 DEF Evaluate, AlertShape
    <3>2. lastFired'[e][r] = clock /\ ~(clock - lastFired[e][r] < Cooldown)
      BY <2>1, <3>1 DEF Cooling, AlertShape
    <3>3. lastFired[e][r] \in Int /\ clock \in Int /\ Cooldown \in Int
      BY <2>1, RuleFacts DEF AlertShape
    <3> QED
      BY <3>2, <3>3
  <2> QED
    BY <2>2, <2>3, <2>4, <2>5 DEF AlertNext
<1> QED
  BY <1>1, AlertInitial, AlertStep, PTL DEF AlertSpec, OnePagePerCooldown

----------------------------------------------------------------------------
(* Retry-After.  The hits that stay in a caller's set are within the       *)
(* budget, and the last promise still standing waits for one of them.      *)
SettledHits(c) == {q \in hits[c] : Stays(q)}

HitsOwned == \A c \in Caller : \A q \in hits[c] : req[q].call.by = c /\ Counts(q)

Promises ==
    /\ promise \in [Caller -> Nat \cup {NoPromise}] /\ unreliable \in Nat
    /\ unreliable = 0 =>
          /\ broken = {}
          /\ \A c \in Caller :
                /\ Cardinality(SettledHits(c)) <= Limit
                /\ promise[c] # NoPromise =>
                      \E q \in SettledHits(c) : req[q].stamp + Window <= promise[c]

RetryInv == AccessInv /\ HitsOwned /\ Promises

LEMMA HitsFinite ==
  ASSUME LimiterTypeOK, NEW c \in Caller
  PROVE  /\ IsFiniteSet(hits[c]) /\ hits[c] \subseteq Request
         /\ IsFiniteSet(SettledHits(c)) /\ SettledHits(c) \subseteq hits[c]
<1>1. IsFiniteSet(Request)
  BY AccessAssumption, FS_Interval DEF Request
<1>2. hits[c] \subseteq Request /\ SettledHits(c) \subseteq hits[c]
  BY DEF LimiterTypeOK, SettledHits
<1>3. IsFiniteSet(hits[c])
  BY <1>1, <1>2, FS_Subset
<1> QED
  BY <1>2, <1>3, FS_Subset

LEMMA RetryInitial == AccessInit => RetryInv
<1> SUFFICES ASSUME AccessInit PROVE RetryInv
  OBVIOUS
<1>1. AccessInv
  BY AccessInitial
<1>2. HitsOwned
  BY DEF AccessInit, HitsOwned
<1>3. /\ promise = [c \in Caller |-> NoPromise] /\ unreliable = 0 /\ broken = {}
      /\ \A c \in Caller : hits[c] = {} /\ SettledHits(c) = {}
  BY DEF AccessInit, SettledHits
<1>4. Cardinality({}) = 0 /\ Limit \in Nat
  BY FS_EmptySet, AccessAssumption
<1>5. Promises
  BY <1>3, <1>4 DEF Promises
<1> QED
  BY <1>1, <1>2, <1>5 DEF RetryInv

(* A step that leaves every caller's settled hits and promise as they are. *)
LEMMA NothingPromised ==
  ASSUME RetryInv, UNCHANGED <<promise, broken>>, unreliable' = unreliable,
         \A c \in Caller : SettledHits(c)' = SettledHits(c),
         \A c \in Caller : \A q \in SettledHits(c) : req'[q].stamp = req[q].stamp
  PROVE  Promises'
BY DEF RetryInv, Promises

LEMMA DeniedStep ==
  ASSUME RetryInv, NEW r \in Request, HitDenied(r)
  PROVE  HitsOwned' /\ Promises'
<1>2. LimiterTypeOK /\ HitsOwned /\ Promises
  BY DEF RetryInv, AccessInv
<1>3. PICK by \in Caller : by = req[r].call.by /\ req[r].stamp \in Nat
  BY <1>2, ByTyped
<1>1. /\ req[r].at = "stamped" /\ Cardinality(Counted(r)) > Limit
      /\ hits' = [hits EXCEPT ![by] = Counted(r)] /\ Goto(r, "giveback")
      /\ promise' = [promise EXCEPT ![by] = IF ~Overtaken(r) /\ FromOneThatStays(r)
                                            THEN RetryTime(r) ELSE NoPromise]
      /\ broken' = IF /\ promise[by] # NoPromise /\ req[r].stamp >= promise[by]
                      /\ \A q \in hits[by] : Stays(q)
                   THEN broken \cup {r} ELSE broken
      /\ UNCHANGED <<now, keys, unreliable>>
  BY <1>3 DEF HitDenied, Enter
<1>4. /\ req'[r].at = "giveback" /\ req'[r].call = req[r].call /\ req'[r].stamp = req[r].stamp
      /\ \A q \in Request \ {r} : req'[q] = req[q]
  BY <1>1, <1>2, Moved DEF Stages
<1>5. \A c \in Caller : r \notin hits[c] /\ hits[c] \subseteq Request
  BY <1>1, <1>2 DEF HitsOwned, Counts, LimiterTypeOK
<1>6. /\ hits'[by] = Counted(r) /\ \A c \in Caller \ {by} : hits'[c] = hits[c]
      /\ promise'[by] = IF ~Overtaken(r) /\ FromOneThatStays(r) THEN RetryTime(r) ELSE NoPromise
      /\ \A c \in Caller \ {by} : promise'[c] = promise[c]
  BY <1>1, <1>2, <1>3 DEF LimiterTypeOK, Promises
<1>7. \A q \in Counted(r) : q = r \/ (q \in hits[by] /\ req[q].stamp > req[r].stamp - Window)
  BY <1>3 DEF Counted
<1>8. HitsOwned'
  <2>1. \A q \in Request : Counts(q) => Counts(q)'
    BY <1>4 DEF Counts
  <2>2. Counts(r)' /\ req'[r].call.by = by
    BY <1>3, <1>4 DEF Counts
  <2>3. \A c \in Caller : \A q \in hits[c] : req'[q].call.by = c /\ Counts(q)'
    BY <1>2, <1>4, <1>5, <2>1 DEF HitsOwned
  <2> QED
    BY <1>3, <1>6, <1>7, <2>2, <2>3 DEF HitsOwned
<1>9. /\ \A c \in Caller \ {by} : SettledHits(c)' = SettledHits(c)
      /\ SettledHits(by)' = {q \in Counted(r) \ {r} : Stays(q)}
  <2>1. \A c \in Caller : \A q \in hits[c] : Stays(q)' <=> Stays(q)
    BY <1>4, <1>5 DEF Stays
  <2>2. ~Stays(r)'
    BY <1>4 DEF Stays
  <2>3. \A q \in Counted(r) \ {r} : q \in hits[by]
    BY <1>7
  <2> QED
    BY <1>3, <1>6, <2>1, <2>2, <2>3 DEF SettledHits
<1>10. promise' \in [Caller -> Nat \cup {NoPromise}]
       /\ (promise'[by] # NoPromise => \E q \in SettledHits(by)' : req'[q].stamp + Window <= promise'[by])
  <2>1. CASE ~Overtaken(r) /\ FromOneThatStays(r)
    <3>1. PICK q \in Counted(r) \ {r} : Stays(q) /\ req[q].stamp = Oldest(Counted(r))
      BY <2>1 DEF FromOneThatStays
    <3>2. q \in Request /\ req[q].stamp \in Nat /\ req'[q].stamp = req[q].stamp /\ q \in SettledHits(by)'
      BY <1>2, <1>3, <1>4, <1>5, <1>7, <1>9, <3>1, ByTyped
    <3>3. promise'[by] = req[q].stamp + Window /\ Window \in Nat
      BY <1>6, <2>1, <3>1, AccessAssumption DEF RetryTime
    <3>4. promise'[by] \in Nat /\ req'[q].stamp + Window <= promise'[by]
      BY <3>2, <3>3
    <3> QED
      BY <1>1, <1>2, <1>3, <1>6, <2>1, <3>2, <3>4 DEF Promises
  <2>2. CASE ~(~Overtaken(r) /\ FromOneThatStays(r))
    <3>1. promise'[by] = NoPromise
      BY <1>6, <2>2
    <3> QED
      BY <1>1, <1>2, <1>3, <2>2, <3>1 DEF Promises
  <2> QED
    BY <2>1, <2>2
<1>11. ASSUME unreliable = 0 PROVE Cardinality(SettledHits(by)') <= Limit
  <2>1. SettledHits(by)' \subseteq SettledHits(by)
    BY <1>7, <1>9 DEF SettledHits
  <2>2. Cardinality(SettledHits(by)) <= Limit /\ IsFiniteSet(SettledHits(by))
    BY <1>2, <1>3, <1>11, HitsFinite DEF Promises
  <2> DEFINE S == SettledHits(by)
             T == SettledHits(by)'
  <2>3. T \subseteq S /\ IsFiniteSet(S) /\ Cardinality(S) <= Limit
    BY <2>1, <2>2
  <2> HIDE DEF S, T
  <2>4. Cardinality(T) \in Nat /\ Cardinality(S) \in Nat /\ Cardinality(T) <= Cardinality(S)
    BY <2>3, FS_Subset, FS_CardinalityType
  <2> QED
    BY <2>3, <2>4, AccessAssumption DEF T
<1>12. ASSUME unreliable = 0 PROVE broken' = {}
  <2> SUFFICES ASSUME promise[by] # NoPromise, req[r].stamp >= promise[by], \A q \in hits[by] : Stays(q)
               PROVE  FALSE
    BY <1>1, <1>2, <1>12 DEF Promises
  <2>1. PICK q \in SettledHits(by) : req[q].stamp + Window <= promise[by]
    BY <1>2, <1>3, <1>12 DEF Promises
  <2>2. Cardinality(SettledHits(by)) <= Limit /\ IsFiniteSet(SettledHits(by))
    BY <1>2, <1>3, <1>12, HitsFinite DEF Promises
  <2>3. q # r /\ q \in Request /\ req[q].stamp \in Nat /\ promise[by] \in Nat
    BY <1>2, <1>3, <1>5, <2>1, ByTyped DEF SettledHits, Promises
  <2>4. ~(req[q].stamp > req[r].stamp - Window)
    <3>1. req[q].stamp + Window <= req[r].stamp
      BY <1>3, <2>1, <2>3, AccessAssumption
    <3> QED
      BY <1>3, <2>3, <3>1, AccessAssumption
  <2>5. Counted(r) \subseteq (SettledHits(by) \ {q}) \cup {r}
    BY <1>7, <2>3, <2>4 DEF SettledHits
  <2> DEFINE S == SettledHits(by)
             R == S \ {q}
  <2>6. IsFiniteSet(R) /\ Cardinality(R) = Cardinality(S) - 1 /\ Cardinality(S) \in Nat
    BY <2>1, <2>2, FS_RemoveElement, FS_CardinalityType
  <2>7. IsFiniteSet(R \cup {r}) /\ Cardinality(R \cup {r}) <= Cardinality(R) + 1
        /\ Cardinality(R \cup {r}) \in Nat /\ Cardinality(R) \in Nat
    <3> HIDE DEF R
    <3>1. IsFiniteSet(R)
      BY <2>6
    <3>2. /\ IsFiniteSet(R \cup {r})
          /\ Cardinality(R \cup {r}) = IF r \in R THEN Cardinality(R) ELSE Cardinality(R) + 1
      BY <3>1, FS_AddElement
    <3>3. Cardinality(R) \in Nat /\ Cardinality(R \cup {r}) \in Nat
      BY <3>1, <3>2, FS_CardinalityType
    <3> QED
      BY <3>2, <3>3
  <2>8. Cardinality(Counted(r)) <= Cardinality(R \cup {r}) /\ Cardinality(Counted(r)) \in Nat
    BY <2>5, <2>7, FS_Subset, FS_CardinalityType
  <2> HIDE DEF R
  <2> QED
    BY <1>1, <2>2, <2>6, <2>7, <2>8, AccessAssumption
<1>13. \A c \in Caller \ {by} : \A q \in SettledHits(c) : req'[q].stamp = req[q].stamp
  BY <1>4, <1>5 DEF SettledHits
<1>14. ASSUME unreliable = 0, NEW c \in Caller
       PROVE  /\ Cardinality(SettledHits(c)') <= Limit
              /\ promise'[c] # NoPromise =>
                    \E q \in SettledHits(c)' : req'[q].stamp + Window <= promise'[c]
  <2>1. CASE c = by
    BY <1>10, <1>11, <1>14, <2>1
  <2>2. CASE c # by
    BY <1>2, <1>6, <1>9, <1>13, <1>14, <2>2 DEF Promises
  <2> QED
    BY <2>1, <2>2
<1>15. unreliable' = unreliable /\ unreliable \in Nat
  BY <1>1, <1>2 DEF Promises
<1>16. Promises'
  BY <1>10, <1>12, <1>14, <1>15 DEF Promises
<1> QED
  BY <1>8, <1>16

LEMMA ServedStep ==
  ASSUME RetryInv, NEW r \in Request, HitServed(r)
  PROVE  HitsOwned' /\ Promises'
<1>2. LimiterTypeOK /\ HitsOwned /\ Promises
  BY DEF RetryInv, AccessInv
<1>3. PICK by \in Caller : by = req[r].call.by /\ req[r].stamp \in Nat
  BY <1>2, ByTyped
<1> DEFINE s == [req[r] EXCEPT !.at = "handler", !.late = Overtaken(r)]
<1>1. /\ req[r].at = "stamped" /\ Cardinality(Counted(r)) <= Limit
      /\ hits' = [hits EXCEPT ![by] = Counted(r)] /\ req' = [req EXCEPT ![r] = s]
      /\ promise' = [promise EXCEPT ![by] = NoPromise]
      /\ UNCHANGED <<broken, unreliable>>
  BY <1>3 DEF HitServed, Enter
<1>4. /\ s.at = "handler" /\ s.call = req[r].call
      /\ req'[r] = s /\ \A q \in Request \ {r} : req'[q] = req[q]
  <2>1. s.at = "handler" /\ s.call = req[r].call
    BY <1>2, ByTyped
  <2> HIDE DEF s
  <2> QED
    BY <1>1, <1>2, <2>1 DEF LimiterTypeOK
<1>5. \A c \in Caller : r \notin hits[c] /\ hits[c] \subseteq Request
  BY <1>1, <1>2 DEF HitsOwned, Counts, LimiterTypeOK
<1> HIDE DEF s
<1>6. /\ hits'[by] = Counted(r) /\ \A c \in Caller \ {by} : hits'[c] = hits[c]
      /\ promise'[by] = NoPromise /\ \A c \in Caller \ {by} : promise'[c] = promise[c]
      /\ promise' \in [Caller -> Nat \cup {NoPromise}]
  BY <1>1, <1>2, <1>3 DEF LimiterTypeOK, Promises
<1>7. \A q \in Counted(r) : q = r \/ q \in hits[by]
  BY <1>3 DEF Counted
<1>8. HitsOwned'
  <2>1. \A q \in Request : Counts(q) => Counts(q)'
    BY <1>4 DEF Counts
  <2>2. Counts(r)' /\ req'[r].call.by = by
    BY <1>3, <1>4 DEF Counts
  <2>3. \A c \in Caller : \A q \in hits[c] : req'[q].call.by = c /\ Counts(q)'
    BY <1>2, <1>4, <1>5, <2>1 DEF HitsOwned
  <2> QED
    BY <1>3, <1>6, <1>7, <2>2, <2>3 DEF HitsOwned
<1>9. \A c \in Caller \ {by} : SettledHits(c)' = SettledHits(c)
  BY <1>4, <1>5, <1>6 DEF SettledHits, Stays
<1>10. Cardinality(SettledHits(by)') <= Limit
  <2> DEFINE T == SettledHits(by)'
  <2>1. T \subseteq Counted(r)
    BY <1>6 DEF SettledHits
  <2>2. IsFiniteSet(Counted(r))
    <3>1. Counted(r) \subseteq hits[by] \cup {r} /\ IsFiniteSet(hits[by])
      BY <1>2, <1>3, <1>7, HitsFinite
    <3>2. IsFiniteSet(hits[by] \cup {r})
      BY <3>1, FS_AddElement
    <3> QED
      BY <3>1, <3>2, FS_Subset
  <2> HIDE DEF T
  <2>3. Cardinality(T) <= Cardinality(Counted(r)) /\ Cardinality(T) \in Nat
        /\ Cardinality(Counted(r)) \in Nat
    BY <2>1, <2>2, FS_Subset, FS_CardinalityType
  <2> QED
    BY <1>1, <2>3, AccessAssumption DEF T
<1>11. \A c \in Caller \ {by} : \A q \in SettledHits(c) : req'[q].stamp = req[q].stamp
  BY <1>4, <1>5 DEF SettledHits
<1> QED
  BY <1>1, <1>2, <1>3, <1>6, <1>8, <1>9, <1>10, <1>11 DEF Promises

LEMMA RetryStep == RetryInv /\ [AccessNext]_accessVars => RetryInv'
<1> SUFFICES ASSUME RetryInv, [AccessNext]_accessVars PROVE HitsOwned' /\ Promises'
  BY AccessStep DEF RetryInv
<1>0. LimiterTypeOK /\ HitsOwned /\ Promises
  BY DEF RetryInv, AccessInv
<1>01. \A c \in Caller : hits[c] \subseteq Request
  BY <1>0 DEF LimiterTypeOK
<1>1. CASE UNCHANGED accessVars \/ Tick
  <2>1. UNCHANGED <<req, hits, promise, broken, unreliable>>
    BY <1>1 DEF accessVars, Tick
  <2>2. HitsOwned'
    BY <1>0, <2>1 DEF HitsOwned, Counts
  <2>3. \A d \in Caller : SettledHits(d)' = SettledHits(d)
    BY <2>1 DEF SettledHits, Stays
  <2>4. \A d \in Caller : \A q \in SettledHits(d) : req'[q].stamp = req[q].stamp
    BY <2>1
  <2> QED
    BY <2>1, <2>2, <2>3, <2>4, NothingPromised
<1>2. ASSUME NEW r \in Request, NEW c \in Call[r], Authenticate(r, c) PROVE HitsOwned' /\ Promises'
  <2>1. /\ req[r].at = "new" /\ UNCHANGED <<hits, promise, broken, unreliable>>
        /\ \A q \in Request \ {r} : req'[q] = req[q]
    BY <1>0, <1>2 DEF Authenticate, LimiterTypeOK
  <2>2. \A d \in Caller : r \notin hits[d]
    BY <1>0, <2>1 DEF HitsOwned, Counts
  <2>3. HitsOwned'
    BY <1>0, <1>01, <2>1, <2>2 DEF HitsOwned, Counts
  <2>4. \A d \in Caller : SettledHits(d)' = SettledHits(d)
    BY <1>01, <2>1, <2>2 DEF SettledHits, Stays
  <2>5. \A d \in Caller : \A q \in SettledHits(d) : req'[q].stamp = req[q].stamp
    BY <1>01, <2>1, <2>2 DEF SettledHits
  <2> QED
    BY <2>1, <2>3, <2>4, <2>5, NothingPromised
<1>3. ASSUME NEW r \in Request, GiveBack(r) PROVE HitsOwned' /\ Promises'
  <2>1. /\ req[r].at = "giveback" /\ req'[r].at = "denied" /\ req'[r].call = req[r].call
        /\ req'[r].stamp = req[r].stamp /\ \A q \in Request \ {r} : req'[q] = req[q]
        /\ UNCHANGED <<promise, broken, unreliable>>
        /\ hits' = [hits EXCEPT ![req[r].call.by] = @ \ {r}]
    BY <1>0, <1>3, Moved DEF GiveBack, Stages
  <2>2. \A d \in Caller : hits'[d] = hits[d] \ {r}
    <3>1. PICK by \in Caller : by = req[r].call.by
      BY <1>0, ByTyped
    <3>2. hits' = [hits EXCEPT ![by] = hits[by] \ {r}] /\ hits \in [Caller -> SUBSET Request]
      BY <1>0, <2>1, <3>1 DEF LimiterTypeOK
    <3>3. \A d \in Caller \ {by} : r \notin hits[d]
      BY <1>0, <3>1 DEF HitsOwned
    <3> QED
      BY <3>1, <3>2, <3>3
  <2>3. HitsOwned'
    BY <1>0, <1>01, <2>1, <2>2 DEF HitsOwned, Counts
  <2>4. \A d \in Caller : SettledHits(d)' = SettledHits(d)
    BY <1>01, <2>1, <2>2 DEF SettledHits, Stays
  <2>5. \A d \in Caller : \A q \in SettledHits(d) : req'[q].stamp = req[q].stamp
    BY <1>01, <2>1 DEF SettledHits
  <2> QED
    BY <2>1, <2>3, <2>4, <2>5, NothingPromised
<1>4. ASSUME NEW r \in Request, Handle(r) PROVE HitsOwned' /\ Promises'
  <2>1. /\ req[r].at = "handler" /\ req'[r].at = "served" /\ req'[r].call = req[r].call
        /\ req'[r].stamp = req[r].stamp /\ \A q \in Request \ {r} : req'[q] = req[q]
        /\ UNCHANGED <<promise, broken, unreliable, hits>>
    BY <1>0, <1>4, Moved DEF Handle, Stages
  <2>3. HitsOwned'
    BY <1>0, <1>01, <2>1 DEF HitsOwned, Counts
  <2>4. \A d \in Caller : SettledHits(d)' = SettledHits(d)
    BY <1>01, <2>1 DEF SettledHits, Stays
  <2>5. \A d \in Caller : \A q \in SettledHits(d) : req'[q].stamp = req[q].stamp
    BY <1>01, <2>1 DEF SettledHits
  <2> QED
    BY <2>1, <2>3, <2>4, <2>5, NothingPromised
<1>5. ASSUME NEW r \in Request, StoreFails(r) PROVE HitsOwned' /\ Promises'
  <2>1. /\ req'[r].at = "unavailable" /\ req'[r].call = req[r].call
        /\ \A q \in Request \ {r} : req'[q] = req[q]
        /\ UNCHANGED <<promise, broken>> /\ unreliable' = unreliable + 1
        /\ hits' = hits \/ (Enter(r) /\ hits' = [hits EXCEPT ![req[r].call.by] = Counted(r)])
    BY <1>0, <1>5, Moved DEF StoreFails, Stages, Enter
  <2>2. Promises'
    <3>1. unreliable \in Nat /\ unreliable' \in Nat /\ unreliable' # 0
      BY <1>0, <2>1 DEF Promises
    <3> QED
      BY <1>0, <2>1, <3>1 DEF Promises
  <2>3. \A q \in Request : Counts(q) => Counts(q)' /\ req'[q].call.by = req[q].call.by
    BY <2>1 DEF Counts
  <2>4. Counts(r)' /\ req'[r].call.by = req[r].call.by
    BY <2>1 DEF Counts
  <2>5. \A d \in Caller : \A q \in hits'[d] : q \in hits[d] \/ (q = r /\ d = req[r].call.by)
    <3>1. PICK by \in Caller : by = req[r].call.by
      BY <1>0, ByTyped
    <3>2. \A q \in Counted(r) : q \in hits[by] \/ q = r
      BY <3>1 DEF Counted
    <3>3. hits \in [Caller -> SUBSET Request]
      BY <1>0 DEF LimiterTypeOK
    <3>4. CASE hits' = hits
      BY <3>4
    <3>5. CASE hits' = [hits EXCEPT ![by] = Counted(r)]
      BY <3>1, <3>2, <3>3, <3>5
    <3> QED
      BY <2>1, <3>1, <3>4, <3>5
  <2>6. HitsOwned'
    BY <1>0, <1>01, <2>3, <2>4, <2>5 DEF HitsOwned
  <2> QED
    BY <2>2, <2>6
<1> QED
  BY <1>1, <1>2, <1>3, <1>4, <1>5, ServedStep, DeniedStep DEF AccessNext

(* store.ts:9: for any budget and window and any number of requests, a     *)
(* retry at the promised time succeeds, with RetryAfterSuffices' causes    *)
(* excepted.                                                               *)
THEOREM RetriesSucceed == AccessSpec => []RetryAfterSuffices
<1>1. RetryInv => RetryAfterSuffices
  BY DEF RetryInv, Promises, RetryAfterSuffices
<1> QED
  BY <1>1, RetryInitial, RetryStep, PTL DEF AccessSpec

(* The clock, the keys' rows and what the history records.                 *)
AccessBounds ==
    /\ now \in 0..MaxTime /\ keys \in [Key -> {"absent", "live", "revoked"}]
    /\ broken \subseteq Request /\ unreliable \in 0..MaxStoreFailures

LEMMA BoundsStep == AccessBounds /\ [AccessNext]_accessVars => AccessBounds'
<1> SUFFICES ASSUME AccessBounds, [AccessNext]_accessVars PROVE AccessBounds'
  OBVIOUS
<1> USE AccessAssumption DEF AccessBounds
<1>1. CASE UNCHANGED accessVars
  BY <1>1 DEF accessVars
<1>2. CASE Tick
  BY <1>2 DEF Tick
<1>3. ASSUME NEW r \in Request, NEW c \in Call[r], Authenticate(r, c) PROVE AccessBounds'
  BY <1>3 DEF Authenticate
<1>4. ASSUME NEW r \in Request, HitServed(r) PROVE AccessBounds'
  BY <1>4 DEF HitServed
<1>5. ASSUME NEW r \in Request, HitDenied(r) PROVE AccessBounds'
  <2>1. (broken' = broken \cup {r} \/ broken' = broken) /\ UNCHANGED <<now, keys, unreliable>>
    BY <1>5 DEF HitDenied
  <2> QED
    BY <2>1
<1>6. ASSUME NEW r \in Request, GiveBack(r) PROVE AccessBounds'
  BY <1>6 DEF GiveBack
<1>7. ASSUME NEW r \in Request, StoreFails(r) PROVE AccessBounds'
  BY <1>7 DEF StoreFails
<1>8. ASSUME NEW r \in Request, Handle(r) PROVE AccessBounds'
  <2>1. \/ keys' = [keys EXCEPT ![req[r].call.key] = "revoked"]
        \/ keys' = [keys EXCEPT ![req[r].call.key] = "live"]
        \/ keys' = keys
    BY <1>8 DEF Handle
  <2>2. UNCHANGED <<now, broken, unreliable>>
    BY <1>8 DEF Handle
  <2> QED
    BY <2>1, <2>2
<1> QED
  BY <1>1, <1>2, <1>3, <1>4, <1>5, <1>6, <1>7, <1>8 DEF AccessNext

(* Whatever the store answers, a row of a key is absent, live or revoked   *)
(* and a caller's set holds requests.                                      *)
THEOREM AccessTypeCorrect == AccessSpec => []AccessTypeOK
<1>1. AccessInit => AccessBounds
  BY AccessAssumption DEF AccessInit, AccessBounds
<1>2. RetryInv /\ AccessBounds => AccessTypeOK
  BY DEF RetryInv, AccessInv, LimiterTypeOK, Promises, AccessBounds, AccessTypeOK
<1> QED
  BY <1>1, <1>2, RetryInitial, RetryStep, BoundsStep, PTL DEF AccessSpec

----------------------------------------------------------------------------
(* The dispatcher's bucket of one channel: g counts the tokens taken at    *)
(* each time, b is the bucket, n the time.  What b has taken since it was  *)
(* filled is what is missing in it, it fills again when a window has gone  *)
(* by, and what was taken in any stretch of the window before that is at   *)
(* most one filling.                                                       *)
Instants == 0..LastInstant
Stretch(lo, hi) == {t \in Instants : lo <= t /\ t < hi}
Over(g, lo, hi) == SumFunctionOnSet(g, Stretch(lo, hi))
Bucket(n) == [tokens : 0..RateLimit, refilledAt : {Unseen} \cup 0..n]

Accounts(g, b, n) ==
    /\ \A t \in Instants : t > n => g[t] = 0
    /\ b.refilledAt = Unseen => b.tokens = RateLimit /\ \A t \in Instants : g[t] = 0
    /\ b.refilledAt # Unseen =>
          /\ \A t \in Instants : t >= b.refilledAt + RateWindow => g[t] = 0
          /\ Over(g, b.refilledAt, LastInstant + 1) = RateLimit - b.tokens
          /\ \A from \in Int : from >= b.refilledAt - RateWindow
                               => Over(g, from, b.refilledAt) <= RateLimit
    /\ \A from \in Instants : Over(g, from, from + RateWindow) <= 2 * RateLimit

(* A handler that is not idle has a channel before it.                     *)
Progress == {s \in [rest : Seq(Channel), attempt : 0..MaxRetries, pc : {"idle", "send", "wait"}] :
                s.pc # "idle" => s.rest # <<>>}

BucketsInv ==
    /\ DispatcherTypeOK
    /\ \A c \in Channel : buckets[c] \in Bucket(instant) /\ Accounts(taken[c], buckets[c], instant)
    /\ sending \in [Handler -> Progress]

LEMMA RateFacts == /\ RateLimit \in Nat \ {0} /\ RateWindow \in Nat \ {0} /\ LastInstant \in Nat
                   /\ IsFiniteSet(Instants)
BY DispatcherAssumption, FS_Interval DEF Instants

LEMMA StretchFinite ==
  ASSUME NEW lo, NEW hi
  PROVE  IsFiniteSet(Stretch(lo, hi)) /\ Stretch(lo, hi) \subseteq Instants
<1>1. Stretch(lo, hi) \subseteq Instants
  BY DEF Stretch
<1> QED
  BY <1>1, RateFacts, FS_Subset

LEMMA OverTyped ==
  ASSUME NEW g \in [Instants -> Nat], NEW lo, NEW hi
  PROVE  Over(g, lo, hi) \in Nat
<1>1. \A t \in Stretch(lo, hi) : g[t] \in Nat
  BY DEF Stretch
<1>2. \A t \in Stretch(lo, hi) : g[t] \in Int /\ g[t] >= 0
  BY <1>1
<1> QED
  BY <1>2, StretchFinite, SumTyped DEF Over

LEMMA OverZero ==
  ASSUME NEW g \in [Instants -> Nat], NEW lo \in Int, NEW hi \in Int,
         \A t \in Stretch(lo, hi) : g[t] = 0
  PROVE  Over(g, lo, hi) = 0
<1> DEFINE S == Stretch(lo, hi)
<1>1. IsFiniteSet(S) /\ (\A t \in S : g[t] \in Int /\ g[t] >= 0) /\ {} \in SUBSET S
      /\ \A t \in S : t \notin {} => g[t] = 0
  BY StretchFinite
<1> HIDE DEF S
<1>2. SumFunctionOnSet(g, {}) = SumFunctionOnSet(g, S)
  BY <1>1, SumIgnoresZeros
<1>3. SumFunctionOnSet(g, {}) = 0
  BY <1>1, SumStep
<1> QED
  BY <1>2, <1>3 DEF S, Over

LEMMA OverSmaller ==
  ASSUME NEW g \in [Instants -> Nat], NEW lo \in Int, NEW hi \in Int, NEW lo1 \in Int, NEW hi1 \in Int,
         lo <= lo1, hi1 <= hi
  PROVE  Over(g, lo1, hi1) <= Over(g, lo, hi)
<1> DEFINE S == Stretch(lo, hi)
           T == Stretch(lo1, hi1)
<1>1. T \in SUBSET S
  BY RateFacts DEF Stretch, Instants
<1>2. IsFiniteSet(S) /\ \A t \in S : g[t] \in Nat
  BY StretchFinite
<1> HIDE DEF S, T
<1>3. SumFunctionOnSet(g, T) <= SumFunctionOnSet(g, S)
  BY <1>1, <1>2, SumSubset
<1> QED
  BY <1>3 DEF S, T, Over

LEMMA OverSplits ==
  ASSUME NEW g \in [Instants -> Nat], NEW lo \in Int, NEW mid \in Int, NEW hi \in Int,
         lo <= mid, mid <= hi
  PROVE  Over(g, lo, hi) = Over(g, lo, mid) + Over(g, mid, hi)
<1> DEFINE A == Stretch(lo, mid)
           B == Stretch(mid, hi)
<1>1. A \cap B = {} /\ A \cup B = Stretch(lo, hi)
  BY RateFacts DEF Stretch, Instants
<1>2. IsFiniteSet(A) /\ IsFiniteSet(B) /\ \A t \in A \cup B : g[t] \in Int
  BY <1>1, StretchFinite
<1> HIDE DEF A, B
<1>3. SumFunctionOnSet(g, A \cup B) = SumFunctionOnSet(g, A) + SumFunctionOnSet(g, B)
  BY <1>1, <1>2, SumSplits
<1> QED
  BY <1>1, <1>3 DEF A, B, Over

(* A window that begins no earlier than the one before the last filling.   *)
LEMMA TwoFillings ==
  ASSUME NEW g \in [Instants -> Nat], NEW f \in Nat, f <= LastInstant,
         Over(g, f, LastInstant + 1) <= RateLimit,
         \A from \in Int : from >= f - RateWindow => Over(g, from, f) <= RateLimit,
         NEW from \in Int, from >= f - RateWindow
  PROVE  Over(g, from, from + RateWindow) <= 2 * RateLimit
<1> DEFINE end == from + RateWindow
<1>1. end \in Int /\ end >= f /\ RateLimit \in Nat
  BY RateFacts
<1>2. Over(g, from, end) \in Nat /\ Over(g, from, f) \in Nat /\ Over(g, f, end) \in Nat
      /\ Over(g, f, LastInstant + 1) \in Nat
  BY OverTyped
<1>3. ASSUME NEW lo \in Int, lo >= f PROVE Over(g, lo, end) <= RateLimit
  <2> DEFINE far == IF end <= LastInstant THEN LastInstant + 1 ELSE end
  <2>1. Over(g, lo, end) <= Over(g, f, far)
    BY <1>1, <1>3, RateFacts, OverSmaller
  <2>2. Stretch(f, far) = Stretch(f, LastInstant + 1)
    BY RateFacts, <1>1 DEF Stretch, Instants
  <2>3. Over(g, f, far) = Over(g, f, LastInstant + 1) /\ Over(g, f, far) \in Nat /\ Over(g, lo, end) \in Nat
    BY <2>2, OverTyped DEF Over
  <2> HIDE DEF far, end
  <2> QED
    BY <1>1, <2>1, <2>3
<1>4. CASE from >= f
  BY <1>1, <1>2, <1>3, <1>4
<1>5. CASE from < f
  <2>1. Over(g, from, end) = Over(g, from, f) + Over(g, f, end)
    BY <1>1, <1>5, OverSplits
  <2>2. Over(g, f, end) <= RateLimit /\ Over(g, from, f) <= RateLimit
    BY <1>3
  <2> HIDE DEF end
  <2> QED
    BY <1>1, <1>2, <2>1, <2>2 DEF end
<1> QED
  BY <1>4, <1>5

(* One more at n: a stretch with n in it has one more.                     *)
More(g, n) == [g EXCEPT ![n] = @ + 1]

LEMMA OneMore ==
  ASSUME NEW g \in [Instants -> Nat], NEW n \in Instants, NEW lo \in Int, NEW hi \in Int,
         NEW g1, g1 = More(g, n)
  PROVE  /\ g1 \in [Instants -> Nat]
         /\ lo <= n /\ n < hi => Over(g1, lo, hi) = Over(g, lo, hi) + 1
         /\ ~(lo <= n /\ n < hi) => Over(g1, lo, hi) = Over(g, lo, hi)
<1> DEFINE S == Stretch(lo, hi)
<1>1. g1 \in [Instants -> Nat] /\ g1[n] = g[n] + 1 /\ \A t \in Instants : t # n => g1[t] = g[t]
  BY DEF More
<1>2. IsFiniteSet(S) /\ S \subseteq Instants
  BY StretchFinite
<1>3. lo <= n /\ n < hi => n \in S
  BY DEF Stretch
<1>4. ~(lo <= n /\ n < hi) => n \notin S
  BY DEF Stretch
<1>5. Over(g, lo, hi) = SumFunctionOnSet(g, S) /\ Over(g1, lo, hi) = SumFunctionOnSet(g1, S)
  BY DEF Over
<1>6. Over(g, lo, hi) \in Nat
  BY OverTyped
<1> HIDE DEF S
<1>7. ASSUME n \in S PROVE SumFunctionOnSet(g1, S) = SumFunctionOnSet(g, S) + 1
  <2>1. \A x \in S : g[x] \in Int /\ g1[x] \in Int /\ (x # n => g1[x] = g[x])
    BY <1>1, <1>2
  <2>2. SumFunctionOnSet(g1, S) = SumFunctionOnSet(g, S) - g[n] + g1[n]
    BY <1>2, <1>7, <2>1, SumChanges
  <2> QED
    BY <1>1, <1>5, <1>6, <2>2
<1>8. ASSUME n \notin S PROVE SumFunctionOnSet(g1, S) = SumFunctionOnSet(g, S)
  <2>1. \A x \in S : g[x] \in Int /\ g1[x] = g[x]
    BY <1>1, <1>2, <1>8
  <2> QED
    BY <1>2, <2>1, SumSame
<1> QED
  BY <1>1, <1>3, <1>4, <1>5, <1>7, <1>8

(* A bucket as #takeToken finds it, and what taking one token does to it.  *)
Filled(b, n) == IF b.refilledAt = Unseen \/ n - b.refilledAt >= RateWindow
                THEN [tokens |-> RateLimit, refilledAt |-> n]
                ELSE b

LEMMA FilledAccounts ==
  ASSUME NEW n \in Instants, NEW g \in [Instants -> Nat], NEW b \in Bucket(n), Accounts(g, b, n),
         NEW r, r = Filled(b, n)
  PROVE  /\ r \in Bucket(n) /\ r.refilledAt # Unseen /\ n < r.refilledAt + RateWindow
         /\ r.refilledAt \in 0..n
         /\ Over(g, r.refilledAt, LastInstant + 1) = RateLimit - r.tokens
         /\ \A from \in Int : from >= r.refilledAt - RateWindow
                             => Over(g, from, r.refilledAt) <= RateLimit
<1> USE RateFacts DEF Bucket
<1>1. n \in Nat /\ Unseen \notin Nat /\ LastInstant \in Nat
  BY DEF Instants, Unseen
<1>2. CASE b.refilledAt = Unseen
  <2>1. r = [tokens |-> RateLimit, refilledAt |-> n]
    BY <1>2 DEF Filled
  <2>2. \A t \in Instants : g[t] = 0
    BY <1>2 DEF Accounts
  <2>3. Over(g, n, LastInstant + 1) = 0
    BY <1>1, <2>2, OverZero DEF Stretch
  <2>4. ASSUME NEW from \in Int PROVE Over(g, from, n) <= RateLimit
    <3>1. Over(g, from, n) = 0
      BY <1>1, <2>2, OverZero DEF Stretch
    <3> QED
      BY <3>1
  <2> QED
    BY <1>1, <2>1, <2>3, <2>4
<1>3. CASE b.refilledAt # Unseen /\ n - b.refilledAt >= RateWindow
  <2>1. r = [tokens |-> RateLimit, refilledAt |-> n]
    BY <1>3 DEF Filled
  <2> DEFINE f == b.refilledAt
  <2>2. f \in Nat /\ f <= n /\ n >= f + RateWindow /\ b.tokens \in 0..RateLimit
    BY <1>1, <1>3
  <2>3. Over(g, n, LastInstant + 1) = 0
    <3>1. \A t \in Stretch(n, LastInstant + 1) : g[t] = 0
      BY <1>1, <1>3, <2>2 DEF Accounts, Stretch, Instants
    <3> QED
      BY <1>1, <3>1, OverZero
  <2>4. ASSUME NEW from \in Int, from >= n - RateWindow PROVE Over(g, from, n) <= RateLimit
    <3>1. Over(g, from, n) <= Over(g, f, LastInstant + 1)
      <4>1. n <= LastInstant + 1 /\ f <= from /\ f \in Int /\ n \in Int /\ LastInstant + 1 \in Int
        BY <1>1, <2>2, <2>4 DEF Instants
      <4> HIDE DEF f
      <4> QED
        BY <2>4, <4>1, OverSmaller
    <3>2. Over(g, f, LastInstant + 1) = RateLimit - b.tokens
      BY <1>3 DEF Accounts
    <3>3. Over(g, from, n) \in Nat /\ Over(g, f, LastInstant + 1) \in Nat
      BY OverTyped
    <3> QED
      BY <2>2, <3>1, <3>2, <3>3
  <2> QED
    BY <1>1, <2>1, <2>3, <2>4
<1>4. CASE b.refilledAt # Unseen /\ ~(n - b.refilledAt >= RateWindow)
  <2>1. r = b /\ b.refilledAt \in 0..n
    BY <1>4 DEF Filled
  <2>2. n < b.refilledAt + RateWindow
    BY <1>1, <1>4, <2>1
  <2> QED
    BY <1>4, <2>1, <2>2 DEF Accounts
<1> QED
  BY <1>2, <1>3, <1>4

LEMMA TokenTaken ==
  ASSUME NEW n \in Instants, NEW g \in [Instants -> Nat], NEW b \in Bucket(n), Accounts(g, b, n),
         NEW r, r = Filled(b, n), r.tokens > 0,
         NEW g1, g1 = More(g, n), NEW b1, b1 = [r EXCEPT !.tokens = @ - 1]
  PROVE  g1 \in [Instants -> Nat] /\ b1 \in Bucket(n) /\ Accounts(g1, b1, n)
<1> DEFINE f == r.refilledAt
<1>1. /\ r \in Bucket(n) /\ f # Unseen /\ n < f + RateWindow /\ f \in 0..n
      /\ Over(g, f, LastInstant + 1) = RateLimit - r.tokens
      /\ \A from \in Int : from >= f - RateWindow => Over(g, from, f) <= RateLimit
  BY FilledAccounts
<1>2. n \in Nat /\ f \in Nat /\ f <= n /\ n <= LastInstant /\ LastInstant \in Nat
      /\ RateLimit \in Nat /\ RateWindow \in Nat /\ r.tokens \in 1..RateLimit
  BY <1>1, RateFacts DEF Instants, Bucket
<1>3. b1 \in Bucket(n) /\ b1.refilledAt = f /\ b1.tokens = r.tokens - 1
  BY <1>1, <1>2 DEF Bucket
<1>4. g1 \in [Instants -> Nat] /\ \A t \in Instants : t # n => g1[t] = g[t]
  BY DEF More
<1>5. ASSUME NEW lo \in Int, NEW hi \in Int
      PROVE  /\ lo <= n /\ n < hi => Over(g1, lo, hi) = Over(g, lo, hi) + 1
             /\ ~(lo <= n /\ n < hi) => Over(g1, lo, hi) = Over(g, lo, hi)
  BY OneMore
<1> HIDE DEF f
<1>6. \A t \in Instants : t > n => g1[t] = 0
  <2>1. \A t \in Instants : t > n => g[t] = 0
    BY DEF Accounts
  <2> QED
    BY <1>2, <1>4, <2>1
<1>7. \A t \in Instants : t >= f + RateWindow => g1[t] = 0
  BY <1>1, <1>2, <1>6 DEF Instants
<1>8. Over(g1, f, LastInstant + 1) = RateLimit - b1.tokens
  <2>1. f \in Int /\ LastInstant + 1 \in Int /\ f <= n /\ n < LastInstant + 1
    BY <1>2
  <2>2. Over(g1, f, LastInstant + 1) = Over(g, f, LastInstant + 1) + 1
    BY <1>5, <2>1
  <2> QED
    BY <1>1, <1>2, <1>3, <2>2
<1>9. \A from \in Int : from >= f - RateWindow => Over(g1, from, f) <= RateLimit
  <2> SUFFICES ASSUME NEW from \in Int, from >= f - RateWindow PROVE Over(g1, from, f) <= RateLimit
    OBVIOUS
  <2>1. f \in Int /\ ~(from <= n /\ n < f)
    BY <1>2
  <2>2. Over(g1, from, f) = Over(g, from, f)
    BY <1>5, <2>1
  <2> QED
    BY <1>1, <2>2
<1>10. ASSUME NEW from \in Instants PROVE Over(g1, from, from + RateWindow) <= 2 * RateLimit
  <2>0. from \in Int /\ from + RateWindow \in Int
    BY <1>2 DEF Instants
  <2>1. CASE from <= n /\ n < from + RateWindow
    <3>1. Over(g1, f, LastInstant + 1) <= RateLimit
      BY <1>2, <1>3, <1>8
    <3>2. from >= f - RateWindow
      BY <1>2, <2>0, <2>1
    <3>3. f \in Nat /\ f <= LastInstant
      BY <1>2
    <3> QED
      BY <1>4, <1>9, <2>0, <3>1, <3>2, <3>3, TwoFillings
  <2>2. CASE ~(from <= n /\ n < from + RateWindow)
    <3>1. Over(g1, from, from + RateWindow) = Over(g, from, from + RateWindow)
      BY <1>5, <2>0, <2>2
    <3> QED
      BY <3>1 DEF Accounts
  <2> QED
    BY <2>1, <2>2
<1>11. Accounts(g1, b1, n)
  BY <1>1, <1>3, <1>6, <1>7, <1>8, <1>9, <1>10 DEF Accounts
<1> QED
  BY <1>3, <1>4, <1>11

(* What a handler goes on to: the first channel that has a token.          *)
LEMMA GoesOn ==
  ASSUME BucketsInv, NEW h \in Handler, NEW chs \in Seq(Channel), GoOn(h, chs)
  PROVE  /\ \/ buckets' = buckets /\ taken' = taken
            \/ \E c \in Channel :
                  /\ Refilled(c).tokens > 0
                  /\ buckets' = [buckets EXCEPT ![c] = [Refilled(c) EXCEPT !.tokens = @ - 1]]
                  /\ taken' = [taken EXCEPT ![c][instant] = @ + 1]
         /\ \E s \in Progress : sending' = [sending EXCEPT ![h] = s]
<1>0. MaxRetries \in Nat
  BY DispatcherAssumption
<1>1. CASE Open(chs) = {}
  <2>1. /\ sending' = [sending EXCEPT ![h] = Resting] /\ buckets' = buckets /\ taken' = taken
    BY <1>1 DEF GoOn
  <2>2. /\ Resting \in Progress /\ Resting.pc = "idle"
    BY <1>0 DEF Resting, Progress
  <2> QED
    BY <2>1, <2>2
<1>2. CASE Open(chs) # {}
  <2> DEFINE i == Min(Open(chs))
             s == [rest |-> SubSeq(chs, i, Len(chs)), attempt |-> 0, pc |-> "send"]
  <2>1. Open(chs) \in SUBSET Nat /\ \A k \in Open(chs) : k \in 1..Len(chs) /\ Refilled(chs[k]).tokens > 0
    BY DEF Open
  <2>2. \E k \in Open(chs) : \A m \in Open(chs) : k <= m
    BY <1>2, <2>1, SmallestExists
  <2>3. i \in Open(chs)
    BY <2>2 DEF Min
  <2>4. /\ sending' = [sending EXCEPT ![h] = s]
        /\ buckets' = [buckets EXCEPT ![chs[i]] = [Refilled(chs[i]) EXCEPT !.tokens = @ - 1]]
        /\ taken' = [taken EXCEPT ![chs[i]][instant] = @ + 1]
    BY <1>2 DEF GoOn
  <2> HIDE DEF i
  <2>5. i \in 1..Len(chs) /\ chs[i] \in Channel /\ Refilled(chs[i]).tokens > 0 /\ Len(chs) \in Nat
    BY <2>1, <2>3, ElementOfSeq
  <2>6. /\ SubSeq(chs, i, Len(chs)) \in Seq(Channel)
        /\ Len(SubSeq(chs, i, Len(chs))) = Len(chs) - i + 1
    <3>1. \A k \in i..Len(chs) : chs[k] \in Channel
      BY <2>5, ElementOfSeq
    <3>2. i \in Int /\ Len(chs) \in Int /\ i <= Len(chs)
      BY <2>5
    <3> QED
      BY <3>1, <3>2, SubSeqProperties
  <2>7. s.rest # <<>>
    <3> SUFFICES ASSUME SubSeq(chs, i, Len(chs)) = <<>> PROVE FALSE
      OBVIOUS
    <3>1. Len(SubSeq(chs, i, Len(chs))) = 0
      BY EmptySeq
    <3> QED
      BY <2>5, <2>6, <3>1
  <2>8. s \in Progress
    BY <1>0, <2>6, <2>7 DEF Progress
  <2> HIDE DEF s
  <2> QED
    BY <2>4, <2>5, <2>7, <2>8
<1> QED
  BY <1>1, <1>2

LEMMA RouteOfChannels == Route \in Seq(Channel)
BY DispatcherAssumption DEF Channel

LEMMA DispatcherInitial == DispatcherInit => BucketsInv
<1> SUFFICES ASSUME DispatcherInit PROVE BucketsInv
  OBVIOUS
<1> USE RateFacts DEF DispatcherInit
<1>1. DispatcherTypeOK
  <2>1. Resting \in [rest : Seq(Channel), attempt : 0..MaxRetries, pc : {"idle", "send", "wait"}]
    BY DispatcherAssumption DEF Resting
  <2> QED
    BY <2>1, DispatcherAssumption DEF DispatcherTypeOK, Unseen
<1>2. ASSUME NEW c \in Channel
      PROVE  buckets[c] \in Bucket(instant) /\ Accounts(taken[c], buckets[c], instant)
  <2>1. /\ buckets[c] = [tokens |-> RateLimit, refilledAt |-> Unseen]
        /\ taken[c] = [t \in Instants |-> 0]
    BY DEF Instants
  <2>2. \A t \in Instants : taken[c][t] = 0
    BY <2>1
  <2>3. taken[c] \in [Instants -> Nat]
    BY <2>1
  <2>4. ASSUME NEW from \in Instants PROVE Over(taken[c], from, from + RateWindow) <= 2 * RateLimit
    <3>1. Over(taken[c], from, from + RateWindow) = 0
      BY <2>2, <2>3, OverZero DEF Stretch, Instants
    <3> QED
      BY <3>1
  <2> QED
    BY <2>1, <2>2, <2>4 DEF Bucket, Accounts
<1>3. sending \in [Handler -> Progress]
  BY <1>1 DEF Resting, Progress, DispatcherTypeOK
<1> QED
  BY <1>1, <1>2, <1>3 DEF BucketsInv

(* A step of a handler that takes at most one token.                       *)
LEMMA HandlerStep ==
  ASSUME BucketsInv, instant' = instant, dedupe' \in [Event -> Int], published' \in 0..MaxPublished,
         NEW h \in Handler, NEW chs \in Seq(Channel), GoOn(h, chs)
  PROVE  BucketsInv'
<1>1. PICK s \in Progress : sending' = [sending EXCEPT ![h] = s]
  BY GoesOn
<1>2. sending' \in [Handler -> Progress]
  <2>1. sending \in [Handler -> Progress]
    BY DEF BucketsInv
  <2> QED
    BY <1>1, <2>1, Zenon
<1>3. /\ taken \in [Channel -> [Instants -> Nat]]
      /\ buckets \in [Channel -> [tokens : 0..RateLimit, refilledAt : Int]]
      /\ instant \in Instants
      /\ \A c \in Channel : buckets[c] \in Bucket(instant) /\ Accounts(taken[c], buckets[c], instant)
  BY DEF BucketsInv, DispatcherTypeOK, Instants
<1>4. CASE buckets' = buckets /\ taken' = taken
  BY <1>2, <1>4 DEF BucketsInv, DispatcherTypeOK, Progress
<1>5. ASSUME NEW c \in Channel, Refilled(c).tokens > 0,
             buckets' = [buckets EXCEPT ![c] = [Refilled(c) EXCEPT !.tokens = @ - 1]],
             taken' = [taken EXCEPT ![c][instant] = @ + 1]
      PROVE  BucketsInv'
  <2>1. Refilled(c) = Filled(buckets[c], instant)
    BY DEF Refilled, Filled
  <2>2. /\ taken' = [taken EXCEPT ![c] = More(taken[c], instant)]
        /\ taken'[c] = More(taken[c], instant)
        /\ buckets'[c] = [Refilled(c) EXCEPT !.tokens = @ - 1]
    BY <1>3, <1>5 DEF More
  <2>3. /\ taken'[c] \in [Instants -> Nat] /\ buckets'[c] \in Bucket(instant)
        /\ Accounts(taken'[c], buckets'[c], instant)
    BY <1>3, <1>5, <2>1, <2>2, TokenTaken
  <2>4. \A d \in Channel : d # c => taken'[d] = taken[d] /\ buckets'[d] = buckets[d]
    BY <1>3, <1>5
  <2>5. /\ taken' \in [Channel -> [Instants -> Nat]]
        /\ buckets' \in [Channel -> [tokens : 0..RateLimit, refilledAt : Int]]
    <3>1. buckets'[c] \in [tokens : 0..RateLimit, refilledAt : Int]
      BY <1>3, <2>3 DEF Bucket, Unseen, Instants
    <3> QED
      BY <1>3, <1>5, <2>2, <2>3, <3>1
  <2>6. DispatcherTypeOK'
    BY <1>2, <1>3, <2>5 DEF DispatcherTypeOK, Instants, Progress
  <2>7. \A d \in Channel : buckets'[d] \in Bucket(instant) /\ Accounts(taken'[d], buckets'[d], instant)
    BY <1>3, <2>3, <2>4
  <2> QED
    BY <1>2, <2>6, <2>7 DEF BucketsInv
<1> QED
  BY <1>4, <1>5, GoesOn

LEMMA DispatcherStep == BucketsInv /\ [DispatcherNext]_dispatcherVars => BucketsInv'
<1> SUFFICES ASSUME BucketsInv, [DispatcherNext]_dispatcherVars PROVE BucketsInv'
  OBVIOUS
<1> USE RateFacts DEF BucketsInv, DispatcherTypeOK
<1>1. CASE UNCHANGED dispatcherVars
  BY <1>1 DEF dispatcherVars
<1>2. CASE TimePasses
  <2>1. instant' = instant + 1 /\ instant \in Nat /\ instant' \in 0..LastInstant
        /\ UNCHANGED <<dedupe, buckets, taken, sending, published>>
    BY <1>2 DEF TimePasses
  <2>2. ASSUME NEW c \in Channel
        PROVE  buckets[c] \in Bucket(instant') /\ Accounts(taken[c], buckets[c], instant')
    <3>1. buckets[c] \in Bucket(instant) /\ Accounts(taken[c], buckets[c], instant)
      OBVIOUS
    <3> QED
      BY <2>1, <3>1 DEF Bucket, Accounts, Instants
  <2> QED
    BY <2>1, <2>2
<1>3. ASSUME NEW h \in Handler, NEW e \in Event, Dispatch(h, e) PROVE BucketsInv'
  <2>1. instant' = instant /\ published' \in 0..MaxPublished
    BY <1>3, DispatcherAssumption DEF Dispatch
  <2>2. CASE Routed(e) /\ ~Duplicate(e)
    <3>1. dedupe' = [dedupe EXCEPT ![DedupeKey(e)] = instant] /\ GoOn(h, Route)
      BY <1>3, <2>2 DEF Dispatch
    <3>2. dedupe' \in [Event -> Int]
      <4>1. dedupe \in [Event -> Int] /\ instant \in Int
        OBVIOUS
      <4> QED
        BY <3>1, <4>1, Zenon
    <3> HIDE DEF BucketsInv
    <3> QED
      BY <2>1, <3>1, <3>2, HandlerStep, RouteOfChannels
  <2>3. CASE ~(Routed(e) /\ ~Duplicate(e))
    BY <1>3, <2>1, <2>3 DEF Dispatch
  <2> QED
    BY <2>2, <2>3
<1>4. ASSUME NEW h \in Handler, Settled(h) PROVE BucketsInv'
  <2> DEFINE chs == Tail(sending[h].rest)
  <2>1. /\ GoOn(h, chs) /\ instant' = instant
        /\ dedupe' \in [Event -> Int] /\ published' \in 0..MaxPublished
    BY <1>4 DEF Settled
  <2>2. sending[h].rest \in Seq(Channel) /\ sending[h].rest # <<>>
    BY <1>4 DEF Settled, Progress
  <2>3. chs \in Seq(Channel)
    BY <2>2, HeadTailProperties
  <2> HIDE DEF chs, BucketsInv
  <2> QED
    BY <2>1, <2>3, HandlerStep
<1>5. ASSUME NEW h \in Handler, BacksOff(h) PROVE BucketsInv'
  <2>1. /\ sending' = [sending EXCEPT ![h].pc = "wait", ![h].attempt = @ + 1]
        /\ UNCHANGED <<instant, dedupe, buckets, taken, published>>
        /\ sending[h].attempt + 1 \in 0..MaxRetries /\ sending[h].pc # "idle"
    BY <1>5, DispatcherAssumption DEF BacksOff
  <2> QED
    BY <2>1 DEF Progress
<1>6. ASSUME NEW h \in Handler, TriesAgain(h) PROVE BucketsInv'
  <2>1. /\ sending' = [sending EXCEPT ![h].pc = "send"] /\ sending[h].pc # "idle"
        /\ UNCHANGED <<instant, dedupe, buckets, taken, published>>
    BY <1>6 DEF TriesAgain
  <2> QED
    BY <2>1 DEF Progress
<1> QED
  BY <1>1, <1>2, <1>3, <1>4, <1>5, <1>6 DEF DispatcherNext, Sends

(* dispatcher.ts: for any rule, limit and window, and any number of        *)
(* handlers between a refill and a send, no window sees more than twice    *)
(* rateLimit messages on a channel.                                        *)
THEOREM RateHolds == DispatcherSpec => []RateWithinTwice
<1>1. BucketsInv => RateWithinTwice
  BY DEF BucketsInv, Accounts, RateWithinTwice, TakenIn, Over, Stretch, Instants
<1> QED
  BY <1>1, DispatcherInitial, DispatcherStep, PTL DEF DispatcherSpec

(* A bucket holds between no token and rateLimit of them, and no handler   *)
(* tries a channel more than MaxRetries times over.                        *)
THEOREM DispatcherTypeCorrect == DispatcherSpec => []DispatcherTypeOK
<1>1. BucketsInv => DispatcherTypeOK
  BY DEF BucketsInv
<1> QED
  BY <1>1, DispatcherInitial, DispatcherStep, PTL DEF DispatcherSpec

----------------------------------------------------------------------------
(* The read-model: what a trade makes of a position.                       *)
Held == [amount : Nat \ {0}, cost : Nat, pnl : Int]
Books == Held \cup {NoPosition}
Ledgers == [position : Books, gains : Int]

(* A part of a cost is no larger than the cost.                            *)
LEMMA PartOfCost ==
  ASSUME NEW cost \in Nat, NEW sold \in Nat, NEW amount \in Nat \ {0}, sold <= amount
  PROVE  (cost * sold) \div amount \in 0..cost
<1> DEFINE q == (cost * sold) \div amount
           w == cost * sold
<1>1. w \in Nat /\ w <= cost * amount
  <2>1. cost * amount - w = cost * (amount - sold) /\ amount - sold \in Nat
    OBVIOUS
  <2>2. cost * (amount - sold) \in Nat /\ w \in Nat /\ cost * amount \in Nat
    BY <2>1
  <2> HIDE DEF w
  <2> QED
    BY <2>1, <2>2
<1> HIDE DEF w
<1>2. w \div amount \in Nat /\ amount * (w \div amount) <= w
  BY <1>1
<1> DEFINE k == w \div amount
<1>3. k \in Nat /\ amount * k <= cost * amount
  <2>1. amount * k \in Nat /\ cost * amount \in Nat
    BY <1>2
  <2> QED
    BY <1>1, <1>2, <2>1
<1> HIDE DEF k
<1>4. k <= cost
  <2> SUFFICES ASSUME k >= cost + 1 PROVE FALSE
    BY <1>3
  <2>1. amount * k >= amount * (cost + 1)
    <3>1. k - (cost + 1) \in Nat /\ amount * k = amount * (cost + 1) + amount * (k - (cost + 1))
      BY <1>3
    <3>2. amount * (k - (cost + 1)) \in Nat /\ amount * (cost + 1) \in Nat
      BY <3>1
    <3> QED
      BY <3>1, <3>2
  <2>2. amount * (cost + 1) = cost * amount + amount /\ cost * amount \in Nat
    OBVIOUS
  <2> QED
    BY <1>3, <2>1, <2>2
<1> QED
  BY <1>3, <1>4 DEF k, w

LEMMA BuyAdds ==
  ASSUME NEW q \in [amount : Nat, cost : Nat, pnl : Int], NEW t \in Trade
  PROVE  Bought(q, t) \in Held
<1>1. Trades[t].in \in Nat \ {0} /\ Trades[t].out \in Nat \ {0}
  BY PortfolioAssumption
<1>2. q.amount + Trades[t].out \in Nat \ {0} /\ q.cost + Trades[t].in \in Nat
  BY <1>1
<1> QED
  BY <1>2 DEF Bought, Held

LEMMA TradeFolds ==
  ASSUME NEW p \in Books, NEW t \in Trade
  PROVE  Fold(p, t) \in Books /\ Gain(p, t) \in Int
<1>1. /\ Trades[t].side \in {"buy", "sell"} /\ Trades[t].in \in Nat \ {0} /\ Trades[t].out \in Nat \ {0}
  BY PortfolioAssumption
<1>2. CASE Trades[t].side = "buy"
  <2> DEFINE q == IF p = NoPosition THEN Opened ELSE p
  <2>1. q \in [amount : Nat, cost : Nat, pnl : Int]
    BY DEF Books, Held, Opened
  <2>2. Fold(p, t) = Bought(q, t) /\ Gain(p, t) = 0
    BY <1>2 DEF Fold, Gain
  <2> HIDE DEF q
  <2>3. Bought(q, t) \in Held
    BY <2>1, BuyAdds
  <2> QED
    BY <2>2, <2>3 DEF Books
<1>3. CASE Trades[t].side = "sell" /\ p = NoPosition
  BY <1>3 DEF Fold, Gain, Books
<1>4. CASE Trades[t].side = "sell" /\ p # NoPosition
  <2> DEFINE s == SoldOf(p, t)
             part == (p.cost * s) \div p.amount
  <2>1. p \in Held
    BY <1>4 DEF Books
  <2>2. s \in Nat /\ s <= p.amount /\ p.amount \in Nat \ {0} /\ p.cost \in Nat /\ p.pnl \in Int
    BY <1>1, <2>1 DEF SoldOf, Held
  <2> HIDE DEF s
  <2>3. part \in 0..p.cost
    BY <2>2, PartOfCost
  <2>4. Gain(p, t) = Trades[t].out - part
    BY <1>4 DEF Gain, s
  <2>5. CASE s < p.amount
    <3>1. Fold(p, t) = [amount |-> p.amount - s, cost |-> p.cost - part, pnl |-> p.pnl + Gain(p, t)]
      BY <1>4, <2>5 DEF Fold, Sold, s
    <3> HIDE DEF part
    <3> QED
      BY <1>1, <2>2, <2>3, <2>4, <2>5, <3>1 DEF Held, Books
  <2>6. CASE ~(s < p.amount)
    <3>1. Fold(p, t) = NoPosition
      BY <1>4, <2>6 DEF Fold, s
    <3> HIDE DEF part
    <3> QED
      BY <1>1, <2>3, <2>4, <3>1 DEF Books
  <2> QED
    BY <2>5, <2>6
<1> QED
  BY <1>1, <1>2, <1>3, <1>4

LEMMA AccountTyped ==
  ASSUME NEW a \in Ledgers, NEW t \in Trade
  PROVE  Account(a, t) \in Ledgers
BY TradeFolds DEF Account, Ledgers

----------------------------------------------------------------------------
(* computeAnalytics over one trade more: the account of the last trade on  *)
(* top of that of the others.                                              *)
Blank == [position |-> NoPosition, gains |-> 0]
Folding(g, s, D) ==
    g = [d \in SUBSET D |-> IF d = {} THEN Blank ELSE Account(g[d \ {Max(d)}], s[Max(d)])]

LEMMA AnalyticsUnfolds ==
  ASSUME NEW s
  PROVE  Analytics(s) = (CHOOSE g : Folding(g, s, DOMAIN s))[DOMAIN s]
BY DEF Analytics, FoldLeft, MapThenFoldSet, Folding, Blank

LEMMA MaxOfIndices ==
  ASSUME NEW d, d \in SUBSET Nat, IsFiniteSet(d), d # {}
  PROVE  Max(d) \in d /\ \A i \in d : i <= Max(d)
<1>1. \E n \in d : \A m \in d : m <= n
  BY LargestExists
<1>2. \E n \in d : \A m \in d : n >= m
  BY <1>1
<1> QED
  BY <1>2 DEF Max

LEMMA FoldingsAgree ==
  ASSUME NEW s, NEW s1, NEW A, NEW B, IsFiniteSet(A), \A i \in A : i \in B /\ i \in Nat,
         \A i \in A : s1[i] = s[i], NEW g, NEW h, Folding(g, s, A), Folding(h, s1, B)
  PROVE  g[A] = h[A]
<1> DEFINE F == {d \in SUBSET A : g[d] # h[d]}
<1> SUFFICES ASSUME F # {} PROVE FALSE
  OBVIOUS
<1>1. IsFiniteSet(A) /\ F \in SUBSET SUBSET A /\ F # {}
  OBVIOUS
<1> HIDE DEF F
<1>2. PICK T \in F : \A U \in F : U \subseteq T => U = T
  <2>1. \E T \in F : \A U \in F : U \subseteq T => U = T
    BY <1>1, MinimalSet
  <2> QED
    BY <2>1
<1>3. T \subseteq A /\ T \subseteq B /\ g[T] # h[T]
  BY DEF F
<1>4. T # {}
  BY <1>3 DEF Folding
<1>5. Max(T) \in T
  <2>1. T \in SUBSET Nat /\ IsFiniteSet(T)
    BY <1>3, FS_Subset
  <2> QED
    BY <1>4, <2>1, MaxOfIndices
<1> DEFINE U == T \ {Max(T)}
<1>6. g[U] = h[U]
  BY <1>2, <1>3, <1>5 DEF F
<1>7. g[T] = Account(g[U], s[Max(T)])
  BY <1>3, <1>4 DEF Folding
<1>8. h[T] = Account(h[U], s1[Max(T)])
  BY <1>3, <1>4 DEF Folding
<1>9. s1[Max(T)] = s[Max(T)]
  BY <1>3, <1>5
<1> QED
  BY <1>3, <1>6, <1>7, <1>8, <1>9

LEMMA FoldingExists ==
  ASSUME NEW s \in Seq(Trade)
  PROVE  LET g == CHOOSE g : Folding(g, s, DOMAIN s)
         IN  Folding(g, s, DOMAIN s) /\ g[DOMAIN s] \in Ledgers
<1> DEFINE S == DOMAIN s
           p == [d \in SUBSET S |-> Max(d)]
           step == [dv \in (SUBSET S) \X Ledgers |-> Account(dv[2], s[Max(dv[1])])]
<1>1. S = 1..Len(s) /\ Len(s) \in Nat /\ IsFiniteSet(S) /\ S \subseteq Nat
      /\ \A i \in S : s[i] \in Trade
  BY FS_Interval, ElementOfSeq
<1> HIDE DEF S
<1>2. ASSUME NEW d \in SUBSET S, d # {} PROVE Max(d) \in d /\ p[d] = Max(d)
  <2>1. d \in SUBSET Nat /\ IsFiniteSet(d)
    BY <1>1, FS_Subset
  <2> QED
    BY <1>2, <2>1, MaxOfIndices
<1>3. Taker(p, S)
  BY <1>2 DEF Taker
<1>4. Blank \in Ledgers
  BY DEF Blank, Ledgers, Books
<1>5. ASSUME NEW d \in SUBSET S, NEW v \in Ledgers, d # {}
      PROVE  step[<<d, v>>] = Account(v, s[Max(d)]) /\ step[<<d, v>>] \in Ledgers
  <2>1. step[<<d, v>>] = Account(v, s[Max(d)])
    OBVIOUS
  <2>2. s[Max(d)] \in Trade
    BY <1>1, <1>2, <1>5
  <2> HIDE DEF step
  <2> QED
    BY <2>1, <2>2, AccountTyped
<1> HIDE DEF p, step
<1>6. PICK g : Rec(g, S, p, Blank, step)
  BY <1>1, <1>3, RecExists
<1>7. \A d \in SUBSET S : g[d] \in Ledgers
  BY <1>1, <1>3, <1>4, <1>5, <1>6, RecTyped
<1>8. ASSUME NEW d \in SUBSET S, d # {}
      PROVE  step[<<d, g[d \ {p[d]}]>>] = Account(g[d \ {Max(d)}], s[Max(d)])
  BY <1>2, <1>5, <1>7, <1>8
<1>9. Folding(g, s, S)
  BY <1>6, <1>8 DEF Rec, Folding
<1> DEFINE c == CHOOSE h : Folding(h, s, S)
<1>10. Folding(c, s, S)
  BY <1>9
<1> HIDE DEF c
<1>11. c[S] = g[S]
  <2>1. \A i \in S : i \in S /\ i \in Nat
    BY <1>1
  <2> QED
    BY <1>1, <1>9, <1>10, <2>1, FoldingsAgree
<1> QED
  BY <1>7, <1>10, <1>11 DEF c, S

LEMMA AnalyticsOfAppend ==
  ASSUME NEW s \in Seq(Trade), NEW t \in Trade
  PROVE  Analytics(s) \in Ledgers /\ Analytics(Append(s, t)) = Account(Analytics(s), t)
<1> DEFINE n == Len(s)
           s1 == Append(s, t)
           G(q) == CHOOSE g : Folding(g, q, DOMAIN q)
<1>1. /\ n \in Nat /\ DOMAIN s = 1..n /\ s1 \in Seq(Trade) /\ Len(s1) = n + 1 /\ DOMAIN s1 = 1..(n + 1)
      /\ s1[n + 1] = t /\ \A i \in 1..n : s1[i] = s[i]
  BY AppendProperties
<1>2. /\ Folding(G(s), s, DOMAIN s) /\ Analytics(s) = G(s)[DOMAIN s] /\ Analytics(s) \in Ledgers
  BY FoldingExists, AnalyticsUnfolds
<1>3. /\ Folding(G(s1), s1, DOMAIN s1) /\ Analytics(s1) = G(s1)[DOMAIN s1]
  <2> HIDE DEF s1
  <2> QED
    BY <1>1, FoldingExists, AnalyticsUnfolds
<1> HIDE DEF s1, G, n
<1> DEFINE D == 1..n
           D1 == 1..(n + 1)
<1>4. /\ D1 \in SUBSET Nat /\ D1 # {} /\ n + 1 \in D1 /\ n + 1 \in Nat
      /\ \A i \in D1 : i <= n + 1 /\ i \in Nat
      /\ D1 \ {n + 1} = D /\ D \in SUBSET D1
  <2>1. n + 1 \in 1..(n + 1)
    BY <1>1
  <2>2. \A i \in D1 : i <= n + 1 /\ i \in Nat
    BY <1>1
  <2>3. \A i : i \in D <=> i \in D1 /\ i # n + 1
    BY <1>1
  <2> QED
    BY <1>1, <2>1, <2>2, <2>3
<1>5. Max(D1) = n + 1 /\ IsFiniteSet(D1)
  <2>1. IsFiniteSet(D1)
    BY <1>1, FS_Interval
  <2> HIDE DEF D1, D
  <2>2. Max(D1) \in D1 /\ \A i \in D1 : i <= Max(D1)
    BY <1>4, <2>1, MaxOfIndices
  <2>3. Max(D1) <= n + 1 /\ n + 1 <= Max(D1) /\ Max(D1) \in Nat
    BY <1>4, <2>2
  <2> QED
    BY <1>4, <2>1, <2>3
<1>6. G(s1)[D1] = Account(G(s1)[D], t)
  BY <1>1, <1>3, <1>4, <1>5 DEF Folding
<1>7. G(s)[D] = G(s1)[D]
  <2>1. IsFiniteSet(D) /\ \A i \in D : i \in D1 /\ i \in Nat /\ s1[i] = s[i]
    <3>1. IsFiniteSet(D)
      BY <1>1, FS_Interval
    <3>2. \A i \in D : i \in D1 /\ i \in Nat
      BY <1>4
    <3>3. \A i \in D : s1[i] = s[i]
      BY <1>1
    <3> HIDE DEF D, D1
    <3> QED
      BY <3>1, <3>2, <3>3
  <2>2. Folding(G(s), s, D) /\ Folding(G(s1), s1, D1)
    BY <1>1, <1>2, <1>3
  <2> HIDE DEF D, D1
  <2> QED
    BY <2>1, <2>2, FoldingsAgree
<1> QED
  BY <1>1, <1>2, <1>3, <1>6, <1>7 DEF s1

LEMMA AnalyticsOfNone == Analytics(<<>>) = Blank
<1>1. <<>> \in Seq(Trade) /\ DOMAIN <<>> = {}
  BY EmptySeq
<1> DEFINE g == CHOOSE g : Folding(g, <<>>, DOMAIN <<>>)
<1>2. Folding(g, <<>>, DOMAIN <<>>) /\ Analytics(<<>>) = g[DOMAIN <<>>]
  BY <1>1, FoldingExists, AnalyticsUnfolds
<1> HIDE DEF g
<1>3. g[{}] = Blank
  BY <1>1, <1>2 DEF Folding
<1> QED
  BY <1>1, <1>2, <1>3

(* The ingestors: what each handler carries with it, and the book.         *)
Task == {Idle} \cup [pc : {"append", "read"}, trade : Trade]
              \cup [pc : {"write"}, trade : Trade, was : Books]

BookInv ==
    /\ PortfolioTypeOK
    /\ book \in Books /\ work \in [Replica -> Task]
    /\ BookMatchesFolds

LEMMA BookInitial == PortfolioInit => BookInv
<1> SUFFICES ASSUME PortfolioInit PROVE BookInv
  OBVIOUS
<1>1. folded = <<>> /\ folded \in Seq(Trade) /\ book = NoPosition /\ gains = 0
  BY DEF PortfolioInit
<1>2. BookMatchesFolds
  BY <1>1, AnalyticsOfNone DEF BookMatchesFolds, Blank
<1>3. PortfolioTypeOK /\ book \in Books /\ work \in [Replica -> Task]
  <2>1. 0 \in 0..Len(Stream) /\ 0 \in 0..MaxFailures
    BY PortfolioAssumption
  <2>2. work = [r \in Replica |-> Idle] /\ work \in [Replica -> Task]
    BY DEF PortfolioInit, Task
  <2>3. next \in 0..Len(Stream) /\ failures \in 0..MaxFailures
    BY <2>1 DEF PortfolioInit
  <2>4. \A r \in Replica : work[r] = Idle
    BY <2>2
  <2>5. /\ log = {} /\ lost = {} /\ gains = 0 /\ raced = FALSE
    BY DEF PortfolioInit
  <2>6. log \subseteq Trade /\ lost \subseteq Trade /\ raced \in BOOLEAN /\ gains \in Int
    <3>1. log \subseteq Trade /\ lost \subseteq Trade /\ gains \in Int
      BY <2>5
    <3>2. raced \in BOOLEAN
      BY <2>5
    <3> QED
      BY <3>1, <3>2
  <2>7. book \in Position \cup {NoPosition} /\ book \in Books
    BY <1>1 DEF Books
  <2> QED
    BY <1>1, <2>2, <2>3, <2>4, <2>6, <2>7 DEF PortfolioTypeOK
<1> QED
  BY <1>2, <1>3 DEF BookInv

(* A handler that ends has folded its trade into the row it read.          *)
LEMMA WriteStep == ASSUME BookInv, NEW r \in Replica, Write(r) PROVE BookInv'
<1> DEFINE w == work[r]
<1>1. /\ w.pc = "write"
      /\ book' = Fold(w.was, w.trade)
      /\ raced' = (raced \/ w.was # book)
      /\ folded' = Append(folded, w.trade) /\ gains' = gains + Gain(w.was, w.trade)
      /\ work' = [work EXCEPT ![r] = Idle]
      /\ UNCHANGED <<next, log, lost, reader, failures>>
  BY DEF Write
<1>2. w.trade \in Trade /\ w.was \in Books
  BY <1>1 DEF BookInv, Task, Idle
<1> HIDE DEF w
<1>3. book' \in Books /\ gains' \in Int
  <2>1. Fold(w.was, w.trade) \in Books /\ Gain(w.was, w.trade) \in Int
    BY <1>2, TradeFolds
  <2> QED
    BY <1>1, <2>1 DEF BookInv, PortfolioTypeOK
<1>4. folded \in Seq(Trade) /\ folded' \in Seq(Trade)
  BY <1>1, <1>2, AppendProperties DEF BookInv, PortfolioTypeOK
<1>5. work' \in [Replica -> Task]
  BY <1>1 DEF BookInv, Task
<1>6. ASSUME ~raced' PROVE [position |-> book', gains |-> gains'] = Analytics(folded')
  <2>1. ~raced /\ w.was = book
    BY <1>1, <1>6
  <2>2. Analytics(folded) = [position |-> book, gains |-> gains]
    BY <2>1 DEF BookInv, BookMatchesFolds
  <2>3. Analytics(folded') = Account(Analytics(folded), w.trade)
    BY <1>1, <1>2, <1>4, AnalyticsOfAppend
  <2>4. Account(Analytics(folded), w.trade)
          = [position |-> Fold(book, w.trade), gains |-> gains + Gain(book, w.trade)]
    BY <2>2 DEF Account
  <2> QED
    BY <1>1, <2>1, <2>3, <2>4
<1>7. BookMatchesFolds'
  BY <1>6 DEF BookMatchesFolds
<1>8. PortfolioTypeOK'
  <2>1. \A q \in Replica : work'[q] = Idle \/ work'[q].pc \in {"append", "read", "write"}
    BY <1>5 DEF Task
  <2>2. raced' \in BOOLEAN /\ book' \in Position \cup {NoPosition}
    BY <1>1, <1>3 DEF Books, Held, Position
  <2>3. /\ next' \in 0..Len(Stream) /\ log' \subseteq Trade /\ lost' \subseteq Trade
        /\ failures' \in 0..MaxFailures
    BY <1>1 DEF BookInv, PortfolioTypeOK
  <2> QED
    BY <1>3, <1>4, <2>1, <2>2, <2>3 DEF PortfolioTypeOK
<1> QED
  BY <1>3, <1>5, <1>7, <1>8 DEF BookInv

LEMMA BookStep == BookInv /\ [PortfolioNext]_portfolioVars => BookInv'
<1> SUFFICES ASSUME BookInv, [PortfolioNext]_portfolioVars PROVE BookInv'
  OBVIOUS
<1>0. ASSUME UNCHANGED <<book, folded, gains, raced>> PROVE BookMatchesFolds'
  BY <1>0 DEF BookInv, BookMatchesFolds
<1> USE DEF BookInv, PortfolioTypeOK
<1>1. CASE UNCHANGED portfolioVars
  BY <1>0, <1>1 DEF portfolioVars, ingest
<1>2. CASE FirstPage \/ NextPage
  <2>1. UNCHANGED <<ingest, failures>>
    BY <1>2 DEF FirstPage, NextPage
  <2> QED
    BY <1>0, <2>1 DEF ingest
<1>3. ASSUME NEW r \in Replica, HandOut(r) PROVE BookInv'
  <2>1. /\ next < Len(Stream) /\ next' = next + 1
        /\ work' = [work EXCEPT ![r] = [pc |-> "append", trade |-> Stream[next + 1]]]
        /\ UNCHANGED <<log, book, folded, gains, raced, lost, reader, failures>>
    BY <1>3 DEF HandOut
  <2>2. Len(Stream) \in Nat /\ next' \in 0..Len(Stream) /\ next + 1 \in 1..Len(Stream)
    BY <2>1, PortfolioAssumption
  <2>3. [pc |-> "append", trade |-> Stream[next + 1]] \in Task
    <3>1. Stream[next + 1] \in Trade
      BY <2>2, PortfolioAssumption, ElementOfSeq
    <3> QED
      BY <3>1 DEF Task
  <2>4. work' \in [Replica -> Task]
    BY <2>1, <2>3
  <2>5. \A q \in Replica : work'[q] = Idle \/ work'[q].pc \in {"append", "read", "write"}
    BY <2>4 DEF Task
  <2> QED
    BY <1>0, <2>1, <2>2, <2>4, <2>5
<1>4. ASSUME NEW r \in Replica, AppendToHistory(r) PROVE BookInv'
  <2>1. /\ work[r].pc = "append" /\ log' = log \cup {work[r].trade}
        /\ work' = [work EXCEPT ![r].pc = "read"]
        /\ UNCHANGED <<next, book, folded, gains, raced, lost, reader, failures>>
    BY <1>4 DEF AppendToHistory
  <2>2. work[r] \in [pc : {"append", "read"}, trade : Trade]
    BY <2>1 DEF Task, Idle
  <2>3. work' \in [Replica -> Task] /\ log' \subseteq Trade
    BY <2>1, <2>2 DEF Task
  <2>4. \A q \in Replica : work'[q] = Idle \/ work'[q].pc \in {"append", "read", "write"}
    BY <2>3 DEF Task
  <2> QED
    BY <1>0, <2>1, <2>3, <2>4
<1>5. ASSUME NEW r \in Replica, Read(r) PROVE BookInv'
  <2>1. /\ work[r].pc = "read"
        /\ work' = [work EXCEPT ![r] = [pc |-> "write", trade |-> work[r].trade, was |-> book]]
        /\ UNCHANGED <<next, log, book, folded, gains, raced, lost, reader, failures>>
    BY <1>5 DEF Read
  <2>2. work[r] \in [pc : {"append", "read"}, trade : Trade]
    BY <2>1 DEF Task, Idle
  <2>3. work' \in [Replica -> Task]
    BY <2>1, <2>2 DEF Task
  <2>4. \A q \in Replica : work'[q] = Idle \/ work'[q].pc \in {"append", "read", "write"}
    BY <2>3 DEF Task
  <2> QED
    BY <1>0, <2>1, <2>3, <2>4
<1>6. ASSUME NEW r \in Replica, HandlerFails(r) PROVE BookInv'
  <2>1. /\ work[r] # Idle /\ failures < MaxFailures /\ failures' = failures + 1
        /\ lost' = lost \cup {work[r].trade} /\ work' = [work EXCEPT ![r] = Idle]
        /\ UNCHANGED <<next, log, book, folded, gains, raced, reader>>
    BY <1>6 DEF HandlerFails
  <2>2. work[r].trade \in Trade
    BY <2>1 DEF Task
  <2>3. work' \in [Replica -> Task]
    BY <2>1 DEF Task
  <2>4. \A q \in Replica : work'[q] = Idle \/ work'[q].pc \in {"append", "read", "write"}
    BY <2>3 DEF Task
  <2>5. lost' \subseteq Trade /\ failures' \in 0..MaxFailures
    <3>1. MaxFailures \in Nat /\ failures \in 0..MaxFailures
      BY PortfolioAssumption
    <3>2. lost' \subseteq Trade
      BY <2>1, <2>2
    <3> QED
      BY <2>1, <3>1, <3>2
  <2> QED
    BY <1>0, <2>1, <2>3, <2>4, <2>5
<1>7. ASSUME NEW r \in Replica, Write(r) PROVE BookInv'
  <2> HIDE DEF BookInv, PortfolioTypeOK
  <2> QED
    BY <1>7, WriteStep
<1> QED
  BY <1>1, <1>2, <1>3, <1>4, <1>5, <1>6, <1>7 DEF PortfolioNext

(* ingestor.ts:40-41: for any trades in any order, any number of replicas  *)
(* and any failures, a book no replica wrote over is the fold of the       *)
(* trades whose handlers ended, and its row is well formed.                *)
THEOREM BookIsFold == PortfolioSpec => [](PortfolioTypeOK /\ BookMatchesFolds)
<1>1. BookInv => PortfolioTypeOK /\ BookMatchesFolds
  BY DEF BookInv
<1> QED
  BY <1>1, BookInitial, BookStep, PTL DEF PortfolioSpec

----------------------------------------------------------------------------
(* A finite set can be put in any order that ranks all its elements.       *)
Sorted(s, R) == \A i, j \in DOMAIN s : i < j => <<s[i], s[j]>> \in R

LEMMA SortedExists ==
  ASSUME NEW S, IsFiniteSet(S), NEW R,
         \A x, y \in S : <<x, y>> \in R \/ <<y, x>> \in R,
         \A x, y, z \in S : <<x, y>> \in R /\ <<y, z>> \in R => <<x, z>> \in R
  PROVE  \E s \in SetToSeqs(S) : Sorted(s, R)
<1> DEFINE Has(T) == \E s \in SetToSeqs(T) : Sorted(s, R)
           F == {T \in SUBSET S : ~Has(T)}
<1> SUFFICES ASSUME F # {} PROVE FALSE
  OBVIOUS
<1>1. IsFiniteSet(S) /\ F \in SUBSET SUBSET S /\ F # {}
  OBVIOUS
<1> HIDE DEF F
<1>2. PICK T \in F : \A U \in F : U \subseteq T => U = T
  <2>1. \E T \in F : \A U \in F : U \subseteq T => U = T
    BY <1>1, MinimalSet
  <2> QED
    BY <2>1
<1>3. T \in SUBSET S /\ IsFiniteSet(T) /\ ~Has(T)
  BY <1>1, FS_Subset DEF F
<1>4. CASE T = {}
  <2>1. Cardinality(T) = 0 /\ 1..0 = {}
    BY <1>4, FS_EmptySet
  <2>2. 1..Cardinality(T) = {}
    BY <2>1
  <2> DEFINE e == [i \in {} |-> i]
  <2>3. e \in [1..Cardinality(T) -> T] /\ DOMAIN e = {}
    BY <2>2
  <2>4. e \in SetToSeqs(T) /\ Sorted(e, R)
    <3> HIDE DEF e
    <3> QED
      BY <2>2, <2>3 DEF SetToSeqs, Sorted
  <2> QED
    BY <1>3, <2>4
<1>5. CASE T # {}
  <2> DEFINE Q == {xy \in T \X T : <<xy[2], xy[1]>> \in R}
  <2>1. \A x, y \in T : <<x, y>> \in Q <=> <<y, x>> \in R
    OBVIOUS
  <2>2. PICK x \in T : \A y \in T : <<y, x>> \in R
    <3>1. /\ IsFiniteSet(T) /\ T # {}
          /\ \A u, v \in T : <<u, v>> \in Q \/ <<v, u>> \in Q
          /\ \A u, v, w \in T : <<u, v>> \in Q /\ <<v, w>> \in Q => <<u, w>> \in Q
      BY <1>3, <1>5, <2>1
    <3> HIDE DEF Q
    <3>2. \E x \in T : \A y \in T : <<x, y>> \in Q
      BY <3>1, FirstExists
    <3> QED
      BY <2>1, <3>2
  <2> DEFINE U == T \ {x}
             n == Cardinality(U)
  <2>3. Has(U)
    <3>1. U \in SUBSET S /\ U # T /\ U \subseteq T
      BY <1>3
    <3> QED
      BY <1>2, <3>1 DEF F
  <2>4. n \in Nat /\ Cardinality(T) = n + 1
    <3>1. IsFiniteSet(U) /\ Cardinality(U) = Cardinality(T) - 1 /\ Cardinality(T) \in Nat
      BY <1>3, FS_RemoveElement, FS_CardinalityType
    <3>2. n \in Nat
      BY <3>1, FS_CardinalityType
    <3> QED
      BY <3>1, <3>2
  <2>5. PICK e \in SetToSeqs(U) : Sorted(e, R)
    BY <2>3
  <2>6. e \in [1..n -> U] /\ \A i, j \in 1..n : i # j => e[i] # e[j]
    BY DEF SetToSeqs
  <2> HIDE DEF n
  <2> DEFINE s == [i \in 1..(n + 1) |-> IF i = n + 1 THEN x ELSE e[i]]
  <2>7. \A i \in 1..(n + 1) : i = n + 1 \/ i \in 1..n
    BY <2>4
  <2>8. s \in [1..(n + 1) -> T]
    BY <2>6, <2>7
  <2>9. \A i, j \in 1..(n + 1) : i # j => s[i] # s[j]
    BY <2>6, <2>7
  <2>10. s \in SetToSeqs(T)
    BY <2>4, <2>8, <2>9 DEF SetToSeqs
  <2>11. \A i, j \in 1..(n + 1) : i < j => <<s[i], s[j]>> \in R
    <3> SUFFICES ASSUME NEW i \in 1..(n + 1), NEW j \in 1..(n + 1), i < j
                 PROVE  <<s[i], s[j]>> \in R
      OBVIOUS
    <3>1. i \in 1..n /\ s[i] = e[i] /\ e[i] \in T
      BY <2>4, <2>6
    <3>2. CASE j = n + 1
      BY <2>2, <3>1, <3>2
    <3>3. CASE j \in 1..n
      <4>1. s[j] = e[j] /\ DOMAIN e = 1..n
        BY <2>4, <2>6, <3>3
      <4> QED
        BY <2>5, <3>1, <3>3, <4>1 DEF Sorted
    <3> QED
      BY <2>7, <3>2, <3>3
  <2>12. Sorted(s, R)
    <3>1. DOMAIN s = 1..(n + 1)
      OBVIOUS
    <3> HIDE DEF s
    <3> QED
      BY <2>11, <3>1 DEF Sorted
  <2> QED
    BY <1>3, <2>10, <2>12
<1> QED
  BY <1>4, <1>5

(* Every element has its place.                                            *)
LEMMA EnumerationFull ==
  ASSUME NEW S, IsFiniteSet(S), NEW s \in SetToSeqs(S)
  PROVE  /\ s \in Seq(S) /\ Len(s) = Cardinality(S) /\ Len(s) \in Nat /\ DOMAIN s = 1..Len(s)
         /\ \A x \in S : \E i \in 1..Len(s) : s[i] = x
         /\ \A i, j \in 1..Len(s) : i # j => s[i] # s[j]
<1> DEFINE n == Cardinality(S)
<1>1. n \in Nat /\ s \in [1..n -> S] /\ \A i, j \in 1..n : i # j => s[i] # s[j]
  BY FS_CardinalityType DEF SetToSeqs
<1>2. s \in Seq(S) /\ Len(s) = n /\ DOMAIN s = 1..n
  <2> HIDE DEF n
  <2>1. s \in Seq(S)
    BY <1>1, SeqDef
  <2> QED
    BY <1>1, <2>1, LenProperties
<1>3. \A x \in S : \E i \in 1..n : s[i] = x
  <2>1. IsFiniteSet(1..n) /\ Cardinality(1..n) = n
    BY <1>1, FS_Interval
  <2>2. s \in Injection(1..n, S)
    BY <1>1 DEF Injection, IsInjective
  <2>3. s \in Surjection(1..n, S)
    BY <2>1, <2>2, FS_Injection
  <2> QED
    BY <2>3 DEF Surjection
<1> QED
  BY <1>1, <1>2, <1>3

(* There is one way to put a set in an order without ties.                 *)
Climbs(s, n, rank) == \A i, j \in 1..n : i < j => rank[s[i]] < rank[s[j]]
Within(a, b, n) == \A i \in 1..n : \E j \in 1..n : b[j] = a[i]

LEMMA SortedUnique ==
  ASSUME NEW S, NEW n \in Nat, NEW a \in [1..n -> S], NEW b \in [1..n -> S], NEW rank \in [S -> Nat],
         Climbs(a, n, rank), Climbs(b, n, rank), Within(a, b, n), Within(b, a, n)
  PROVE  a = b
<1> DEFINE D == {i \in 1..n : a[i] # b[i]}
<1>1. D \in SUBSET Nat /\ (D = {} => \A i \in 1..n : a[i] = b[i])
  <2>1. \A i : i \in D <=> i \in 1..n /\ a[i] # b[i]
    OBVIOUS
  <2> HIDE DEF D
  <2>2. \A i \in D : i \in Nat
    BY <2>1
  <2>3. D = {} => \A i \in 1..n : a[i] = b[i]
    BY <2>1
  <2> QED
    BY <2>2, <2>3
<1> HIDE DEF D
<1> SUFFICES ASSUME D # {} PROVE FALSE
  BY <1>1
<1>2. PICK i \in D : \A j \in D : i <= j
  <2>1. \E i \in D : \A j \in D : i <= j
    BY <1>1, SmallestExists
  <2> QED
    BY <2>1
<1>3. i \in 1..n /\ a[i] # b[i] /\ \A j \in 1..n : j < i => a[j] = b[j]
  BY <1>2 DEF D
<1>4. PICK j \in 1..n : b[j] = a[i]
  BY <1>3 DEF Within
<1>5. PICK k \in 1..n : a[k] = b[i]
  BY <1>3 DEF Within
<1>6. /\ rank[a[i]] \in Nat /\ rank[b[i]] \in Nat /\ i \in Nat /\ j \in Nat /\ k \in Nat
      /\ rank[b[j]] = rank[a[i]] /\ rank[a[k]] = rank[b[i]]
  BY <1>3, <1>4, <1>5
<1>7. i < j
  <2>1. CASE j < i
    <3>1. a[j] = a[i]
      BY <1>3, <1>4, <2>1
    <3>2. rank[a[i]] < rank[a[i]]
      BY <1>3, <2>1, <3>1 DEF Climbs
    <3> QED
      BY <1>6, <3>2
  <2> QED
    BY <1>3, <1>4, <1>6, <2>1
<1>8. i < k
  <2>1. CASE k < i
    <3>1. b[k] = b[i]
      BY <1>3, <1>5, <2>1
    <3>2. rank[b[i]] < rank[b[i]]
      BY <1>3, <2>1, <3>1 DEF Climbs
    <3> QED
      BY <1>6, <3>2
  <2> QED
    BY <1>3, <1>5, <1>6, <2>1
<1>9. rank[b[i]] < rank[b[j]] /\ rank[a[i]] < rank[a[k]]
  BY <1>3, <1>7, <1>8 DEF Climbs
<1> QED
  BY <1>6, <1>9

----------------------------------------------------------------------------
(* The pages: the order they are read in, and where a client stands.       *)
LEMMA NewerOrders ==
  /\ \A t, u \in Trade : ~Newer(u, t) <=> (t = u \/ Newer(t, u))
  /\ \A t, u \in Trade : ~(Newer(t, u) /\ Newer(u, t))
  /\ \A t, u, v \in Trade : Newer(t, u) /\ Newer(u, v) => Newer(t, v)
<1>1. \A t \in Trade : t \in Nat /\ Trades[t].at \in Nat
  BY PortfolioAssumption
<1> QED
  BY <1>1 DEF Newer

LEMMA ListedInOrder ==
  ASSUME NEW S \in SUBSET Trade
  PROVE  /\ Listed(S) \in Seq(Trade) /\ Len(Listed(S)) \in Nat
         /\ \A i \in 1..Len(Listed(S)) : Listed(S)[i] \in S
         /\ \A t \in S : \E i \in 1..Len(Listed(S)) : Listed(S)[i] = t
         /\ \A i, j \in 1..Len(Listed(S)) : i < j => Newer(Listed(S)[i], Listed(S)[j])
<1>1. IsFiniteSet(S)
  BY PortfolioAssumption, FS_Subset
<1> DEFINE R == {tu \in Trade \X Trade : ~Newer(tu[2], tu[1])}
           l == Listed(S)
<1>2. \A t, u \in Trade : <<t, u>> \in R <=> t = u \/ Newer(t, u)
  BY NewerOrders
<1> HIDE DEF R
<1>3. \E s \in SetToSeqs(S) : Sorted(s, R)
  <2>1. \A x, y \in S : <<x, y>> \in R \/ <<y, x>> \in R
    BY <1>2, NewerOrders
  <2>2. \A x, y, z \in S : <<x, y>> \in R /\ <<y, z>> \in R => <<x, z>> \in R
    BY <1>2, NewerOrders
  <2> QED
    BY <1>1, <2>1, <2>2, SortedExists
<1>4. \E s \in SetToSeqs(S) : \A i, j \in DOMAIN s : i < j => ~Newer(s[j], s[i])
  <2>1. PICK s \in SetToSeqs(S) : Sorted(s, R)
    BY <1>3
  <2>2. \A i \in DOMAIN s : s[i] \in Trade
    BY DEF SetToSeqs
  <2> QED
    BY <1>2, <2>1, <2>2, NewerOrders DEF Sorted
<1>5. l \in SetToSeqs(S) /\ \A i, j \in DOMAIN l : i < j => ~Newer(l[j], l[i])
  BY <1>4 DEF Listed
<1> HIDE DEF l
<1>6. /\ l \in Seq(S) /\ Len(l) \in Nat /\ DOMAIN l = 1..Len(l)
      /\ \A x \in S : \E i \in 1..Len(l) : l[i] = x
      /\ \A i, j \in 1..Len(l) : i # j => l[i] # l[j]
  BY <1>1, <1>5, EnumerationFull
<1>7. \A i \in 1..Len(l) : l[i] \in S /\ l[i] \in Trade
  BY <1>6, ElementOfSeq
<1>8. l \in Seq(Trade)
  BY <1>6, <1>7, SeqDef, LenProperties
<1>9. \A i, j \in 1..Len(l) : i < j => Newer(l[i], l[j])
  <2> SUFFICES ASSUME NEW i \in 1..Len(l), NEW j \in 1..Len(l), i < j PROVE Newer(l[i], l[j])
    OBVIOUS
  <2>1. ~Newer(l[j], l[i]) /\ l[i] # l[j] /\ l[i] \in Trade /\ l[j] \in Trade
    BY <1>5, <1>6, <1>7
  <2> QED
    BY <2>1, NewerOrders
<1> QED
  BY <1>6, <1>7, <1>8, <1>9 DEF l

(* A client has, in order, what is newer than its cursor, and nothing else *)
(* of what was there when it began is behind it.                           *)
Standing == [pc : {"reading", "done"}, present : SUBSET Trade, items : Seq(Trade), cursor : {0} \cup Trade]

HasRead(k, t) == \E i \in 1..Len(k.items) : k.items[i] = t
InOrder(s) == \A i, j \in 1..Len(s) : i < j => Newer(s[i], s[j])

Reads(k) ==
    /\ k \in Standing /\ InOrder(k.items)
    /\ k.pc = "done" => \A t \in k.present : HasRead(k, t)
    /\ k.pc = "reading" =>
          /\ k.present \subseteq log
          /\ k.cursor = 0 => k.items = <<>>
          /\ k.cursor # 0 => k.items # <<>> /\ k.cursor = k.items[Len(k.items)]
          /\ \A t \in k.present : HasRead(k, t) \/ t \in After(k.cursor)

PagesInv == log \subseteq Trade /\ (reader = NotReading \/ Reads(reader))

(* One page more.                                                          *)
LEMMA PageReads ==
  ASSUME PagesInv, reader # NotReading, NextPage
  PROVE  Reads(reader)'
<1> DEFINE rows == Listed(After(reader.cursor))
           more == Len(rows) > PageSize
           page == IF more THEN SubSeq(rows, 1, PageSize) ELSE rows
           k == IF more THEN PageSize ELSE Len(rows)
           n == Len(reader.items)
<1>1. /\ reader.pc = "reading" /\ log' = log
      /\ reader' = [reader EXCEPT !.items = @ \o page,
                                  !.pc = IF more THEN "reading" ELSE "done",
                                  !.cursor = IF more THEN Last(page) ELSE @]
  BY DEF NextPage, ingest
<1>2. /\ reader \in Standing /\ InOrder(reader.items) /\ reader.present \subseteq log
      /\ reader.cursor = 0 => reader.items = <<>>
      /\ reader.cursor # 0 => reader.items # <<>> /\ reader.cursor = reader.items[n]
      /\ \A t \in reader.present : HasRead(reader, t) \/ t \in After(reader.cursor)
  BY <1>1 DEF PagesInv, Reads
<1>3. /\ rows \in Seq(Trade) /\ Len(rows) \in Nat
      /\ \A i \in 1..Len(rows) : rows[i] \in After(reader.cursor)
      /\ \A t \in After(reader.cursor) : \E i \in 1..Len(rows) : rows[i] = t
      /\ \A i, j \in 1..Len(rows) : i < j => Newer(rows[i], rows[j])
  <2>1. After(reader.cursor) \in SUBSET Trade
    BY DEF After, PagesInv
  <2> QED
    BY <2>1, ListedInOrder
<1> HIDE DEF rows
<1>4. /\ k \in Nat /\ k <= Len(rows) /\ page \in Seq(Trade) /\ Len(page) = k
      /\ \A i \in 1..k : page[i] = rows[i]
      /\ more => k = PageSize /\ k # 0 /\ k < Len(rows)
      /\ ~more => k = Len(rows)
  <2>1. PageSize \in Nat \ {0}
    BY PortfolioAssumption
  <2>2. CASE more
    <3>1. k = PageSize /\ page = SubSeq(rows, 1, PageSize) /\ 1..PageSize \subseteq 1..Len(rows)
      BY <1>3, <2>1, <2>2
    <3>2. \A i \in 1..PageSize : rows[i] \in Trade
      BY <1>3, <3>1, ElementOfSeq
    <3>3. page \in Seq(Trade) /\ Len(page) = PageSize /\ \A i \in 1..PageSize : page[i] = rows[i]
      BY <1>3, <2>1, <2>2, <3>1, SubSeqProperties
    <3> HIDE DEF page, k
    <3> QED
      BY <1>3, <2>1, <2>2, <3>1, <3>3
  <2>3. CASE ~more
    BY <1>3, <2>3
  <2> QED
    BY <2>2, <2>3
<1> HIDE DEF page
<1>5. n \in Nat /\ reader.items \in Seq(Trade) /\ reader.cursor \in {0} \cup Trade
      /\ reader.present \in SUBSET Trade
  BY <1>2, LenProperties DEF Standing
<1> DEFINE items == reader.items \o page
<1> HIDE DEF k, n, more
<1>6. /\ items \in Seq(Trade) /\ Len(items) = n + k
      /\ \A i \in 1..n : items[i] = reader.items[i]
      /\ \A i \in 1..k : items[n + i] = page[i]
      /\ \A i \in 1..(n + k) : i \in 1..n \/ (i > n /\ i - n \in 1..k /\ items[i] = page[i - n])
  <2>1. /\ items \in Seq(Trade) /\ Len(items) = n + k
        /\ \A i \in 1..(n + k) : items[i] = IF i <= n THEN reader.items[i] ELSE page[i - n]
    <3>1. reader.items \in Seq(Trade) /\ page \in Seq(Trade)
      BY <1>4, <1>5
    <3>2. items \in Seq(Trade) /\ Len(items) = Len(reader.items) + Len(page)
          /\ \A i \in 1..(Len(reader.items) + Len(page)) :
                items[i] = IF i <= Len(reader.items) THEN reader.items[i] ELSE page[i - Len(reader.items)]
      BY <3>1, ConcatProperties
    <3> HIDE DEF items
    <3> QED
      BY <1>4, <3>2 DEF n
  <2>2. \A i \in 1..n : i \in 1..(n + k) /\ i <= n
    BY <1>4, <1>5
  <2>3. \A i \in 1..k : n + i \in 1..(n + k) /\ ~(n + i <= n) /\ n + i - n = i
    BY <1>4, <1>5
  <2>4. \A i \in 1..(n + k) : i \in 1..n \/ (i > n /\ i - n \in 1..k /\ ~(i <= n))
    BY <1>4, <1>5
  <2> HIDE DEF items
  <2>5. \A i \in 1..n : items[i] = reader.items[i]
    BY <2>1, <2>2
  <2>6. ASSUME NEW i \in 1..k PROVE items[n + i] = page[i]
    <3>1. n + i \in 1..(n + k) /\ ~(n + i <= n) /\ n + i - n = i
      BY <2>3
    <3>2. PICK q \in 1..(n + k) : q = n + i
      BY <3>1
    <3>3. q - n = i /\ ~(q <= n)
      BY <1>4, <1>5, <3>1, <3>2
    <3>4. items[q] = IF q <= n THEN reader.items[q] ELSE page[q - n]
      BY <2>1
    <3> QED
      BY <3>2, <3>3, <3>4
  <2>7. \A i \in 1..(n + k) : i \in 1..n \/ (i > n /\ i - n \in 1..k /\ items[i] = page[i - n])
    BY <2>1, <2>4
  <2> QED
    BY <2>1, <2>5, <2>6, <2>7
<1> HIDE DEF items
<1>7. reader' = [pc |-> IF more THEN "reading" ELSE "done", present |-> reader.present,
                 items |-> items, cursor |-> IF more THEN Last(page) ELSE reader.cursor]
  BY <1>1, <1>2 DEF Standing, items
<1>8. more => Last(page) = rows[k] /\ rows[k] \in Trade /\ rows[k] = items[n + k]
  <2> SUFFICES ASSUME more PROVE Last(page) = rows[k] /\ rows[k] \in Trade /\ rows[k] = items[n + k]
    OBVIOUS
  <2>1. k \in 1..k /\ k \in 1..Len(rows)
    BY <1>3, <1>4
  <2> QED
    BY <1>3, <1>4, <1>6, <2>1, ElementOfSeq DEF Last
<1>9. InOrder(items)
  <2> SUFFICES ASSUME NEW i \in 1..(n + k), NEW j \in 1..(n + k), i < j
               PROVE  Newer(items[i], items[j])
    BY <1>6 DEF InOrder
  <2>1. CASE j \in 1..n
    <3>1. i \in 1..n
      BY <1>4, <1>5, <2>1
    <3> QED
      BY <1>2, <1>6, <2>1, <3>1 DEF InOrder, n
  <2>2. CASE i \notin 1..n
    <3>1. i - n \in 1..k /\ items[i] = page[i - n] /\ j - n \in 1..k /\ items[j] = page[j - n]
          /\ i - n < j - n
      BY <1>4, <1>5, <1>6, <2>2
    <3>2. i - n \in 1..Len(rows) /\ j - n \in 1..Len(rows)
      BY <1>3, <1>4, <3>1
    <3> QED
      BY <1>3, <1>4, <3>1, <3>2
  <2>3. CASE i \in 1..n /\ j \notin 1..n
    <3>1. j - n \in 1..k /\ items[j] = page[j - n]
      BY <1>6, <2>3
    <3>2. rows[j - n] = items[j] /\ rows[j - n] \in After(reader.cursor)
      BY <1>3, <1>4, <3>1
    <3>3. reader.cursor # 0
      <4>1. n # 0
        BY <1>5, <2>3
      <4> QED
        BY <1>2, <4>1, EmptySeq DEF n
    <3>4. Newer(reader.cursor, items[j]) /\ items[j] \in Trade /\ reader.cursor \in Trade
      BY <1>5, <3>2, <3>3 DEF After, PagesInv
    <3>5. items[i] = reader.items[i] /\ items[i] \in Trade
      BY <1>5, <1>6, <2>3, ElementOfSeq DEF n
    <3>6. items[i] = reader.cursor \/ Newer(items[i], reader.cursor)
      <4>1. n \in 1..n /\ (i = n \/ i < n)
        BY <1>5, <2>3
      <4> QED
        BY <1>2, <2>3, <3>3, <3>5, <4>1 DEF InOrder, n
    <3> QED
      BY <3>4, <3>5, <3>6, NewerOrders
  <2> QED
    BY <2>1, <2>2, <2>3
<1>10. \A t \in reader.present :
          \/ \E i \in 1..(n + k) : items[i] = t
          \/ more /\ t \in log /\ Newer(rows[k], t)
  <2> SUFFICES ASSUME NEW t \in reader.present, ~\E i \in 1..(n + k) : items[i] = t
               PROVE  more /\ t \in log /\ Newer(rows[k], t)
    OBVIOUS
  <2>1. ~HasRead(reader, t)
    <3>1. \A i \in 1..n : i \in 1..(n + k) /\ items[i] = reader.items[i]
      BY <1>4, <1>5, <1>6
    <3> QED
      BY <3>1 DEF HasRead, n
  <2>2. PICK i \in 1..Len(rows) : rows[i] = t
    BY <1>2, <1>3, <2>1
  <2>3. i \notin 1..k
    <3>1. \A q \in 1..k : n + q \in 1..(n + k) /\ items[n + q] = rows[q]
      BY <1>4, <1>5, <1>6
    <3> QED
      BY <2>2, <3>1
  <2>4. more /\ k \in 1..Len(rows) /\ k < i
    BY <1>3, <1>4, <2>3
  <2> QED
    BY <1>2, <1>3, <2>2, <2>4
<1>11. reader' \in Standing
  BY <1>5, <1>6, <1>7, <1>8 DEF Standing
<1>12. CASE more
  <2>0. PICK c \in Trade : c = rows[k]
    BY <1>8, <1>12
  <2>1. reader'.cursor = c /\ c # 0 /\ reader'.items = items
        /\ reader'.pc = "reading" /\ reader'.present = reader.present
    BY <1>7, <1>8, <1>12, <2>0, PortfolioAssumption
  <2>2. items # <<>> /\ c = items[Len(items)]
    <3>1. Len(items) # 0
      BY <1>4, <1>5, <1>6, <1>12
    <3> QED
      BY <1>6, <1>8, <1>12, <2>0, <3>1, EmptySeq
  <2>3. \A t \in reader.present : HasRead(reader', t) \/ t \in After(reader.cursor)'
    <3>1. \A t : t \in log /\ Newer(c, t) => t \in After(reader.cursor)'
      BY <1>1, <2>1 DEF After
    <3> QED
      BY <1>6, <1>10, <2>0, <2>1, <3>1 DEF HasRead
  <2> HIDE DEF items
  <2> QED
    BY <1>1, <1>2, <1>6, <1>9, <1>11, <2>1, <2>2, <2>3 DEF Reads
<1>13. CASE ~more
  <2>1. reader'.items = items /\ reader'.pc = "done" /\ reader'.present = reader.present
    BY <1>7, <1>13
  <2>2. \A t \in reader.present : HasRead(reader', t)
    BY <1>6, <1>10, <1>13, <2>1 DEF HasRead
  <2> QED
    BY <1>9, <1>11, <2>1, <2>2 DEF Reads
<1> QED
  BY <1>12, <1>13

LEMMA PagesInitial == PortfolioInit => PagesInv
BY DEF PortfolioInit, PagesInv

LEMMA PagesStep == BookInv /\ PagesInv /\ [PortfolioNext]_portfolioVars => PagesInv'
<1> SUFFICES ASSUME BookInv, PagesInv, [PortfolioNext]_portfolioVars PROVE PagesInv'
  OBVIOUS
<1>0. log \subseteq Trade /\ (reader = NotReading \/ Reads(reader))
  BY DEF PagesInv
<1>1. CASE FirstPage
  <2>1. /\ reader' = [pc |-> "reading", present |-> log, items |-> <<>>, cursor |-> 0] /\ log' = log
    BY <1>1 DEF FirstPage, ingest
  <2>2. <<>> \in Seq(Trade) /\ Len(<<>>) = 0
    BY EmptySeq
  <2>3. reader' \in Standing /\ InOrder(reader'.items)
    BY <1>0, <2>1, <2>2 DEF Standing, InOrder
  <2>4. \A t \in log : t \in After(reader.cursor)'
    BY <2>1 DEF After
  <2>5. Reads(reader)'
    BY <2>1, <2>3, <2>4 DEF Reads
  <2> QED
    BY <1>0, <2>1, <2>5 DEF PagesInv
<1>2. CASE NextPage
  <2>1. reader # NotReading /\ log' = log
    BY <1>2 DEF NextPage, NotReading, ingest
  <2> QED
    BY <1>0, <1>2, <2>1, PageReads DEF PagesInv
<1>3. CASE ~FirstPage /\ ~NextPage
  <2>1. reader' = reader /\ log \subseteq log' /\ log' \subseteq Trade
    <3>1. CASE UNCHANGED portfolioVars
      BY <1>0, <3>1 DEF portfolioVars, ingest
    <3>2. ASSUME NEW r \in Replica, AppendToHistory(r) PROVE reader' = reader /\ log \subseteq log' /\ log' \subseteq Trade
      <4>1. work[r].trade \in Trade
        BY <3>2 DEF AppendToHistory, BookInv, Task, Idle
      <4> QED
        BY <1>0, <3>2, <4>1 DEF AppendToHistory
    <3>3. ASSUME NEW r \in Replica, HandOut(r) \/ Read(r) \/ Write(r) \/ HandlerFails(r)
          PROVE  reader' = reader /\ log' = log
      BY <3>3 DEF HandOut, Read, Write, HandlerFails
    <3> QED
      BY <1>0, <1>3, <3>1, <3>2, <3>3 DEF PortfolioNext
  <2>2. \A t \in log : \A c : t \in After(c) => t \in (IF c = 0 THEN log' ELSE {u \in log' : Newer(c, u)})
    BY <2>1 DEF After
  <2>3. \A t \in log : t \in After(reader.cursor) => t \in After(reader.cursor)'
    BY <2>1, <2>2 DEF After
  <2>4. CASE reader = NotReading
    BY <2>1, <2>4 DEF PagesInv
  <2>5. CASE Reads(reader)
    <3>1. \A t : HasRead(reader, t) => HasRead(reader, t)'
      BY <2>1 DEF HasRead
    <3>2. Reads(reader)'
      BY <2>1, <2>3, <2>5, <3>1 DEF Reads
    <3> QED
      BY <2>1, <3>2 DEF PagesInv
  <2> QED
    BY <1>0, <2>4, <2>5
<1> QED
  BY <1>1, <1>2, <1>3

(* postgres-repositories.ts:198-229: for any trades, page size and appends *)
(* meanwhile, the pages hold the log they began with, in order.            *)
THEOREM PagesLoseNothing == PortfolioSpec => []PagesComplete
<1>1. PagesInv => PagesComplete
  <2> SUFFICES ASSUME PagesInv, reader.pc = "done"
               PROVE  /\ \A t \in reader.present : \E i \in 1..Len(reader.items) : reader.items[i] = t
                      /\ \A i, j \in 1..Len(reader.items) : i < j => Newer(reader.items[i], reader.items[j])
    BY DEF PagesComplete
  <2>1. Reads(reader)
    BY DEF PagesInv, NotReading
  <2> QED
    BY <2>1 DEF Reads, HasRead, InOrder
<1> QED
  BY <1>1, BookInitial, BookStep, PagesInitial, PagesStep, PTL DEF PortfolioSpec

----------------------------------------------------------------------------
(* The analytics: what is in the log was folded, is on its way, or lost.   *)
OnItsWay(t) == \E r \in Replica : work[r].pc \in {"read", "write"} /\ work[r].trade = t
Folded(t) == \E i \in 1..Len(folded) : folded[i] = t

LogInv ==
    /\ \A t \in log : Folded(t) \/ t \in lost \/ OnItsWay(t)
    /\ \A i \in 1..Len(folded) : folded[i] \in log
    /\ \A r \in Replica : work[r].pc \in {"read", "write"} => work[r].trade \in log

LEMMA LogInitial == PortfolioInit => LogInv
<1> SUFFICES ASSUME PortfolioInit PROVE LogInv
  OBVIOUS
<1>1. log = {} /\ Len(folded) = 0 /\ \A r \in Replica : work[r].pc = "idle"
  BY EmptySeq DEF PortfolioInit, Idle
<1> QED
  BY <1>1 DEF LogInv

LEMMA LogStep == BookInv /\ LogInv /\ [PortfolioNext]_portfolioVars => LogInv'
<1> SUFFICES ASSUME BookInv, LogInv, [PortfolioNext]_portfolioVars PROVE LogInv'
  OBVIOUS
<1>0. work \in [Replica -> Task] /\ folded \in Seq(Trade)
  BY DEF BookInv, PortfolioTypeOK
<1>1. CASE UNCHANGED <<log, folded, work, lost>>
  BY <1>1 DEF LogInv, Folded, OnItsWay
<1>2. ASSUME NEW r \in Replica, HandOut(r) PROVE LogInv'
  <2>1. /\ work[r].pc = "idle" /\ work'[r].pc = "append" /\ \A q \in Replica \ {r} : work'[q] = work[q]
        /\ UNCHANGED <<log, folded, lost>>
    BY <1>0, <1>2 DEF HandOut, Idle
  <2>2. \A t : OnItsWay(t) => OnItsWay(t)'
    BY <2>1 DEF OnItsWay
  <2> QED
    BY <2>1, <2>2 DEF LogInv, Folded
<1>3. ASSUME NEW r \in Replica, AppendToHistory(r) PROVE LogInv'
  <2>1. /\ work[r].pc = "append" /\ log' = log \cup {work[r].trade} /\ work' = [work EXCEPT ![r].pc = "read"]
        /\ UNCHANGED <<folded, lost>>
    BY <1>3 DEF AppendToHistory
  <2>2. work[r] \in [pc : {"append", "read"}, trade : Trade]
    BY <1>0, <2>1 DEF Task, Idle
  <2>3. work'[r].pc = "read" /\ work'[r].trade = work[r].trade /\ \A q \in Replica \ {r} : work'[q] = work[q]
    BY <1>0, <2>1, <2>2
  <2>4. \A t : OnItsWay(t) => OnItsWay(t)'
    BY <2>1, <2>3 DEF OnItsWay
  <2>5. PICK added \in Trade : added = work[r].trade /\ OnItsWay(added)'
    BY <2>2, <2>3 DEF OnItsWay
  <2>6. \A t \in log' : Folded(t)' \/ t \in lost' \/ OnItsWay(t)'
    <3>1. \A t : Folded(t) => Folded(t)'
      BY <2>1 DEF Folded
    <3>2. \A u \in log' : u \in log \/ u = added
      BY <2>1, <2>5
    <3>3. \A u \in log : Folded(u)' \/ u \in lost' \/ OnItsWay(u)'
      BY <2>1, <2>4, <3>1 DEF LogInv
    <3> QED
      BY <2>5, <3>2, <3>3
  <2> QED
    BY <2>1, <2>3, <2>6 DEF LogInv
<1>4. ASSUME NEW r \in Replica, Read(r) PROVE LogInv'
  <2>1. /\ work[r].pc = "read" /\ work'[r].pc = "write" /\ work'[r].trade = work[r].trade
        /\ \A q \in Replica \ {r} : work'[q] = work[q]
        /\ UNCHANGED <<log, folded, lost>>
    BY <1>0, <1>4 DEF Read
  <2>2. \A t : OnItsWay(t) => OnItsWay(t)'
    BY <2>1 DEF OnItsWay
  <2> QED
    BY <2>1, <2>2 DEF LogInv, Folded
<1>5. ASSUME NEW r \in Replica, Write(r) PROVE LogInv'
  <2>1. /\ work[r].pc = "write" /\ work'[r].pc = "idle" /\ \A q \in Replica \ {r} : work'[q] = work[q]
        /\ folded' = Append(folded, work[r].trade) /\ UNCHANGED <<log, lost>>
    BY <1>0, <1>5 DEF Write, Idle
  <2>2. work[r].trade \in log /\ work[r].trade \in Trade
    BY <1>0, <2>1 DEF LogInv, Task, Idle
  <2>3. /\ Len(folded) \in Nat /\ Len(folded') = Len(folded) + 1
        /\ folded'[Len(folded) + 1] = work[r].trade
        /\ \A i \in 1..Len(folded) : folded'[i] = folded[i]
    BY <1>0, <2>1, <2>2, AppendProperties, LenProperties
  <2>4. \A i \in 1..Len(folded') : i = Len(folded) + 1 \/ i \in 1..Len(folded)
    BY <2>3
  <2>5. \A i \in 1..Len(folded) : i \in 1..Len(folded')
    BY <2>3
  <2>6. Len(folded) + 1 \in 1..Len(folded')
    BY <2>3
  <2>7. \A t : Folded(t) => Folded(t)'
    BY <2>3, <2>5 DEF Folded
  <2>8. \A t : OnItsWay(t) => OnItsWay(t)' \/ Folded(t)'
    BY <2>1, <2>3, <2>6 DEF OnItsWay, Folded
  <2>9. \A t \in log' : Folded(t)' \/ t \in lost' \/ OnItsWay(t)'
    BY <2>1, <2>7, <2>8 DEF LogInv
  <2>10. \A i \in 1..Len(folded') : folded'[i] \in log'
    BY <2>1, <2>2, <2>3, <2>4 DEF LogInv
  <2> QED
    BY <2>1, <2>9, <2>10 DEF LogInv
<1>6. ASSUME NEW r \in Replica, HandlerFails(r) PROVE LogInv'
  <2>1. /\ work'[r].pc = "idle" /\ \A q \in Replica \ {r} : work'[q] = work[q]
        /\ lost' = lost \cup {work[r].trade} /\ UNCHANGED <<log, folded>>
    BY <1>0, <1>6 DEF HandlerFails, Idle
  <2>2. \A t : OnItsWay(t) => OnItsWay(t)' \/ t \in lost'
    BY <2>1 DEF OnItsWay
  <2> QED
    BY <2>1, <2>2 DEF LogInv, Folded
<1>7. CASE UNCHANGED portfolioVars \/ FirstPage \/ NextPage
  BY <1>1, <1>7 DEF portfolioVars, ingest, FirstPage, NextPage
<1> QED
  BY <1>2, <1>3, <1>4, <1>5, <1>6, <1>7 DEF PortfolioNext

(* With all quiet and times that rise, the log in order is what was folded *)
LEMMA LogInOrderOfFolds ==
  ASSUME NEW S \in SUBSET Trade, NEW f \in Seq(Trade),
         \A i \in 1..Len(f) : f[i] \in S, \A t \in S : \E i \in 1..Len(f) : f[i] = t,
         \A i, j \in 1..Len(f) : i < j => Trades[f[i]].at < Trades[f[j]].at
  PROVE  Chronological(S) = f
<1> DEFINE n == Len(f)
           rank == [t \in S |-> Trades[t].at]
           c == Chronological(S)
<1>1. n \in Nat /\ f \in [1..n -> S] /\ DOMAIN f = 1..n
  <2>1. n \in Nat /\ DOMAIN f = 1..n /\ f \in [1..n -> Trade]
    BY LenProperties
  <2> HIDE DEF n
  <2>2. f = [i \in 1..n |-> f[i]] /\ \A i \in 1..n : f[i] \in S
    BY <2>1 DEF n
  <2> QED
    BY <2>1, <2>2
<1>2. \A t \in S : Trades[t].at \in Nat /\ rank[t] = Trades[t].at
  BY PortfolioAssumption
<1>3. rank \in [S -> Nat]
  BY <1>2
<1>4. IsFiniteSet(S)
  BY PortfolioAssumption, FS_Subset
<1>5. \A i, j \in 1..n : i # j => f[i] # f[j]
  <2> SUFFICES ASSUME NEW i \in 1..n, NEW j \in 1..n, i < j PROVE f[i] # f[j]
    BY <1>1
  <2>1. Trades[f[i]].at < Trades[f[j]].at /\ Trades[f[i]].at \in Nat
    BY <1>1, <1>2
  <2> QED
    BY <2>1
<1>6. Cardinality(S) = n
  <2>1. f \in Surjection(1..n, S) /\ f \in Injection(1..n, S)
    BY <1>1, <1>5 DEF Surjection, Injection, IsInjective
  <2> HIDE DEF n
  <2>2. IsFiniteSet(1..n) /\ Cardinality(1..n) = n
    BY <1>1, FS_Interval
  <2> QED
    BY <2>1, <2>2, FS_Surjection
<1>7. f \in SetToSeqs(S)
  BY <1>1, <1>5, <1>6 DEF SetToSeqs
<1>8. \A i, j \in DOMAIN f : i < j => Trades[f[i]].at <= Trades[f[j]].at
  <2> SUFFICES ASSUME NEW i \in 1..n, NEW j \in 1..n, i < j PROVE Trades[f[i]].at <= Trades[f[j]].at
    BY <1>1
  <2> QED
    BY <1>1, <1>2
<1>9. c \in SetToSeqs(S) /\ \A i, j \in DOMAIN c : i < j => Trades[c[i]].at <= Trades[c[j]].at
  BY <1>7, <1>8 DEF Chronological
<1> HIDE DEF n, c
<1>10. /\ c \in [1..n -> S] /\ DOMAIN c = 1..n
       /\ \A x \in S : \E i \in 1..n : c[i] = x
       /\ \A i, j \in 1..n : i # j => c[i] # c[j]
  <2>1. /\ c \in Seq(S) /\ Len(c) = Cardinality(S) /\ DOMAIN c = 1..Len(c)
        /\ \A x \in S : \E i \in 1..Len(c) : c[i] = x
        /\ \A i, j \in 1..Len(c) : i # j => c[i] # c[j]
    BY <1>4, <1>9, EnumerationFull
  <2>2. c \in [1..n -> S]
    BY <1>6, <1>9 DEF SetToSeqs
  <2> QED
    BY <1>6, <2>1, <2>2
<1>11. Climbs(f, n, rank)
  <2> SUFFICES ASSUME NEW i \in 1..n, NEW j \in 1..n, i < j PROVE rank[f[i]] < rank[f[j]]
    BY DEF Climbs
  <2> HIDE DEF rank
  <2> QED
    BY <1>1, <1>2 DEF n
<1>12. Climbs(c, n, rank)
  <2> HIDE DEF rank
  <2> SUFFICES ASSUME NEW i \in 1..n, NEW j \in 1..n, i < j PROVE rank[c[i]] < rank[c[j]]
    BY DEF Climbs
  <2>1. c[i] \in S /\ c[j] \in S /\ c[i] # c[j] /\ Trades[c[i]].at <= Trades[c[j]].at
    <3>1. c[i] \in S /\ c[j] \in S /\ i \in Nat /\ j \in Nat
      <4>1. c \in [1..n -> S] /\ n \in Nat
        BY <1>1, <1>10
      <4> QED
        BY <4>1
    <3>2. Trades[c[i]].at <= Trades[c[j]].at
      BY <1>9, <1>10
    <3> QED
      BY <1>10, <3>1, <3>2
  <2>2. PICK k \in 1..n : f[k] = c[i]
    BY <2>1 DEF n
  <2>3. PICK l \in 1..n : f[l] = c[j]
    BY <2>1 DEF n
  <2>4. k < l \/ l < k
    BY <1>1, <2>1, <2>2, <2>3
  <2>5. Trades[c[i]].at # Trades[c[j]].at
    <3>1. Trades[c[i]].at < Trades[c[j]].at \/ Trades[c[j]].at < Trades[c[i]].at
      BY <2>2, <2>3, <2>4 DEF n
    <3> QED
      BY <1>2, <2>1, <3>1
  <2> QED
    BY <1>2, <2>1, <2>5
<1>13. Within(f, c, n) /\ Within(c, f, n)
  BY <1>1, <1>10 DEF Within, n
<1> QED
  <2> HIDE DEF rank
  <2>1. f = c
    BY <1>1, <1>3, <1>10, <1>11, <1>12, <1>13, SortedUnique
  <2> QED
    BY <2>1 DEF c

(* ingestor.ts:22: for any trades, replicas and failures, the analytics of *)
(* the log are the book and its gains, with AnalyticsAgree's causes        *)
(* excepted.                                                               *)
THEOREM AnalyticsMatchBook == PortfolioSpec => []AnalyticsAgree
<1>1. BookInv /\ LogInv => AnalyticsAgree
  <2> SUFFICES ASSUME BookInv, LogInv, ~raced, lost = {}, \A r \in Replica : work[r] = Idle,
                      \A i, j \in 1..Len(folded) : i < j => ~(Trades[folded[i]].at >= Trades[folded[j]].at)
               PROVE  [position |-> book, gains |-> gains] = Analytics(Chronological(log))
    BY DEF AnalyticsAgree
  <2>1. log \in SUBSET Trade /\ folded \in Seq(Trade)
    BY DEF BookInv, PortfolioTypeOK
  <2>2. \A t \in log : \E i \in 1..Len(folded) : folded[i] = t
    BY DEF LogInv, Folded, OnItsWay, Idle
  <2>3. \A i \in 1..Len(folded) : folded[i] \in log
    BY DEF LogInv
  <2>4. \A i, j \in 1..Len(folded) : i < j => Trades[folded[i]].at < Trades[folded[j]].at
    <3>1. \A i \in 1..Len(folded) : Trades[folded[i]].at \in Nat
      BY <2>1, <2>3, PortfolioAssumption
    <3> QED
      BY <3>1
  <2>5. Chronological(log) = folded
    BY <2>1, <2>2, <2>3, <2>4, LogInOrderOfFolds
  <2> QED
    BY <2>5 DEF BookInv, BookMatchesFolds
<1> QED
  BY <1>1, BookInitial, BookStep, LogInitial, LogStep, PTL DEF PortfolioSpec

============================================================================
