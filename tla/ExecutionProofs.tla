--------------------------- MODULE ExecutionProofs ---------------------------
(***************************************************************************)
(* How orders reach the chain.  RpcPool, proved for any number of          *)
(* endpoints, weights, thresholds and requests in flight: its typing,      *)
(* which includes that the weighted choice always finds an endpoint and    *)
(* that the back-off stays within its bounds, and that a caller is refused *)
(* only after enough endpoints have failed.  LiveExecutor, proved for any  *)
(* number of overlapping orders and any prices: an order is credited only  *)
(* with its own swap, and a swap that was mined goes unreported only when  *)
(* a call of its order failed.                                             *)
(***************************************************************************)
EXTENDS RpcPool, LiveExecutor, FiniteSetTheorems, WellFoundedInduction, TLAPS

(* A finite set of numbers has a largest one: a least set without one      *)
(* would have one more than a set that has.                                *)
LEMMA MaximumExists ==
  ASSUME NEW S, IsFiniteSet(S), S # {}, NEW f \in [S -> Int]
  PROVE  \E e \in S : \A d \in S : f[d] <= f[e]
<1> DEFINE HasMax(C) == \E e \in C : \A d \in C : f[d] <= f[e]
           Bad == {C \in FiniteSubsetsOf(S) : C # {} /\ ~HasMax(C)}
<1>1. SUFFICES ASSUME Bad # {} PROVE FALSE
  <2>1. S \in FiniteSubsetsOf(S)
    BY DEF FiniteSubsetsOf
  <2> QED
    BY <2>1
<1>2. PICK C \in Bad : \A D \in Bad : <<D, C>> \notin StrictSubsetOrdering(S)
  <2>1. Bad \subseteq FiniteSubsetsOf(S)
    OBVIOUS
  <2> QED
    BY <1>1, <2>1, FS_StrictSubsetOrderingWellFounded, WFMin
<1>3. C \subseteq S /\ IsFiniteSet(C) /\ C # {} /\ ~HasMax(C)
  BY DEF FiniteSubsetsOf
<1>4. PICK x \in C : TRUE
  BY <1>3
<1> DEFINE D == C \ {x}
<1>5. D \in FiniteSubsetsOf(S) /\ D \subseteq C /\ D # C
  BY <1>3, <1>4, FS_RemoveElement DEF FiniteSubsetsOf
<1>6. <<D, C>> \in StrictSubsetOrdering(S)
  BY <1>3, <1>5 DEF StrictSubsetOrdering
<1>7. D = {} \/ HasMax(D)
  BY <1>2, <1>5, <1>6
<1>8. CASE D = {}
  <2>1. C = {x} /\ f[x] \in Int
    BY <1>3, <1>4, <1>8
  <2> QED
    BY <2>1, <1>3
<1>9. CASE HasMax(D)
  <2>1. PICK m \in D : \A d \in D : f[d] <= f[m]
    BY <1>9
  <2>2. f[x] \in Int /\ f[m] \in Int /\ m \in C /\ \A d \in C : f[d] \in Int /\ (d = x \/ d \in D)
    BY <1>3, <1>4, <2>1
  <2>3. CASE f[x] <= f[m]
    BY <2>1, <2>2, <2>3, <1>3
  <2>4. CASE f[m] <= f[x]
    <3>1. \A d \in C : f[d] <= f[x]
      BY <2>1, <2>2, <2>4
    <3> QED
      BY <3>1, <1>3, <1>4
  <2> QED
    BY <2>2, <2>3, <2>4
<1> QED
  BY <1>7, <1>8, <1>9

(* The constants, and that a round has finitely many turns.                *)
LEMMA EndpointFinite ==
  /\ IsFiniteSet(Endpoint) /\ Cardinality(Endpoint) = N
  /\ \A C \in SUBSET Endpoint : IsFiniteSet(C) /\ Cardinality(C) \in 0..N
<1>1. IsFiniteSet(1..N) /\ Cardinality(1..N) = N
  <2>1. N \in Int /\ 1 \in Int /\ ~(1 > N)
    BY PoolAssumption
  <2> QED
    BY <2>1, FS_Interval
<1>2. ASSUME NEW C \in SUBSET (1..N) PROVE IsFiniteSet(C) /\ Cardinality(C) \in 0..N
  <2>1. IsFiniteSet(C) /\ Cardinality(C) <= N
    BY <1>1, FS_Subset
  <2> QED
    BY <2>1, FS_CardinalityType, PoolAssumption
<1> QED
  BY <1>1, <1>2 DEF Endpoint

LEMMA TotalType ==
  ASSUME NEW C \in SUBSET Endpoint
  PROVE  Total(C) \in Int
<1> DEFINE Of(e) == {e} \X (1..Weight[e])
           T == {Of(e) : e \in C}
           g == [e \in C |-> Of(e)]
<1>1. g \in Surjection(C, T)
  BY DEF Surjection
<1>2. IsFiniteSet(T)
  BY <1>1, EndpointFinite, FS_Surjection
<1>3. ASSUME NEW e \in C PROVE IsFiniteSet(Of(e))
  <2>1. Weight[e] \in Int /\ 1 \in Int
    BY PoolAssumption DEF Endpoint
  <2>2. IsFiniteSet(1..Weight[e])
    BY <2>1, FS_Interval
  <2> QED
    BY <2>2, FS_Singleton, FS_Product
<1>4. \A U \in T : IsFiniteSet(U)
  BY <1>3
<1>5. IsFiniteSet(UNION T)
  BY <1>2, <1>4, FS_UNION
<1> QED
  BY <1>5, FS_CardinalityType DEF Total, Turns

(* The choice among candidates is one of them.                             *)
LEMMA BestChosen ==
  ASSUME NEW C \in SUBSET Endpoint, C # {}, credit \in [Endpoint -> Int]
  PROVE  Best(C) \in C /\ Raised(C) \in [Endpoint -> Int]
<1> DEFINE most == {e \in C : \A d \in C : Raised(C)[d] <= Raised(C)[e]}
           f == [e \in C |-> Raised(C)[e]]
           g == [e \in most |-> -e]
<1>1. Raised(C) \in [Endpoint -> Int]
  BY PoolAssumption DEF Raised, Endpoint
<1>2. f \in [C -> Int] /\ IsFiniteSet(C)
  BY <1>1, EndpointFinite
<1>3. PICK e \in C : \A d \in C : f[d] <= f[e]
  BY <1>2, MaximumExists
<1>4. e \in most
  BY <1>3
<1>5. g \in [most -> Int] /\ IsFiniteSet(most) /\ most \in SUBSET Endpoint
  <2>1. most \in SUBSET Endpoint
    OBVIOUS
  <2>2. \A d \in Endpoint : -d \in Int
    BY PoolAssumption DEF Endpoint
  <2> HIDE DEF most
  <2> QED
    BY <2>1, <2>2, EndpointFinite
<1>6. PICK m \in most : \A d \in most : g[d] <= g[m]
  <2>1. most # {}
    BY <1>4
  <2> HIDE DEF most, g
  <2> QED
    BY <1>5, <2>1, MaximumExists
<1>7. \A d \in most : m <= d
  <2>1. m \in Int /\ \A d \in most : d \in Int
    BY <1>5, PoolAssumption DEF Endpoint
  <2> HIDE DEF most
  <2>2. \A d \in most : -d <= -m
    BY <1>6
  <2> QED
    BY <2>1, <2>2
<1>8. Best(C) \in most
  BY <1>7 DEF Best
<1> QED
  BY <1>1, <1>8

------------------------------------------------------------------------------
(* What the head of the loop does: send to a candidate, or give up.        *)
Sends(r, eps) ==
  \E e \in Candidates(eps, tried[r]) :
    /\ attempt[r] < MaxAttempts /\ attempt[r] < N
    /\ at' = [at EXCEPT ![r] = e]
    /\ tried' = [tried EXCEPT ![r] = @ \cup {e}]
    /\ attempt' = [attempt EXCEPT ![r] = @ + 1]
    /\ UNCHANGED unavailable

GivesUp(r, eps) ==
  /\ attempt[r] >= MaxAttempts \/ attempt[r] >= N \/ Candidates(eps, tried[r]) = {}
  /\ Finish(r)
  /\ unavailable' = TRUE

LEMMA DispatchCases ==
  ASSUME TypeOK, NEW r \in Request, NEW eps, Dispatch(r, eps)
  PROVE  /\ Sends(r, eps) \/ GivesUp(r, eps)
         /\ credit' \in [Endpoint -> Int]
<1> DEFINE C == Candidates(eps, tried[r])
           e == Best(C)
<1>1. C \in SUBSET Endpoint /\ credit \in [Endpoint -> Int]
  BY DEF Candidates, TypeOK
<1>2. attempt[r] \in Nat /\ N \in Nat /\ MaxAttempts \in Nat
  BY PoolAssumption DEF TypeOK
<1>3. CASE attempt[r] < MaxAttempts /\ attempt[r] < N /\ C # {}
  <2>1. e \in C /\ Raised(C) \in [Endpoint -> Int] /\ Total(C) \in Int
    BY <1>1, <1>3, BestChosen, TotalType
  <2>2. /\ at' = [at EXCEPT ![r] = e]
        /\ tried' = [tried EXCEPT ![r] = @ \cup {e}]
        /\ attempt' = [attempt EXCEPT ![r] = @ + 1]
        /\ credit' = [Raised(C) EXCEPT ![e] = @ - Total(C)]
        /\ UNCHANGED unavailable
    BY <1>3 DEF Dispatch
  <2>3. credit' \in [Endpoint -> Int]
    <3>1. Raised(C)[e] - Total(C) \in Int
      BY <1>1, <2>1
    <3> HIDE DEF C, e
    <3> QED
      BY <2>1, <2>2, <3>1
  <2> QED
    BY <1>3, <2>1, <2>2, <2>3 DEF Sends
<1>4. CASE ~(attempt[r] < MaxAttempts /\ attempt[r] < N /\ C # {})
  BY <1>1, <1>2, <1>4 DEF Dispatch, GivesUp
<1> QED
  BY <1>3, <1>4

(* Both outcomes keep the types of what belongs to a request.              *)
RequestTypes ==
  /\ at \in [Request -> Endpoint \cup {Nowhere}]
  /\ tried \in [Request -> SUBSET Endpoint] /\ attempt \in [Request -> 0..N]
  /\ unavailable \in BOOLEAN

LEMMA FinishTyped ==
  ASSUME TypeOK, NEW r \in Request, Finish(r)
  PROVE  /\ at' \in [Request -> Endpoint \cup {Nowhere}]
         /\ tried' \in [Request -> SUBSET Endpoint] /\ attempt' \in [Request -> 0..N]
  BY PoolAssumption DEF TypeOK, Finish

LEMMA DispatchTyped ==
  ASSUME TypeOK, NEW r \in Request, NEW eps, Sends(r, eps) \/ GivesUp(r, eps)
  PROVE  RequestTypes'
<1>1. CASE Sends(r, eps)
  <2>1. PICK e \in Endpoint :
          /\ attempt[r] < N
          /\ at' = [at EXCEPT ![r] = e]
          /\ tried' = [tried EXCEPT ![r] = @ \cup {e}]
          /\ attempt' = [attempt EXCEPT ![r] = @ + 1]
          /\ UNCHANGED unavailable
    BY <1>1 DEF Sends, Candidates
  <2>2. attempt[r] + 1 \in 0..N
    BY <2>1, PoolAssumption DEF TypeOK
  <2> QED
    BY <2>1, <2>2 DEF TypeOK, RequestTypes
<1>2. CASE GivesUp(r, eps)
  BY <1>2, FinishTyped DEF GivesUp, RequestTypes
<1> QED
  BY <1>1, <1>2

(* The breaker keeps within its bounds, whatever is recorded.              *)
LEMMA BreakerTyped ==
  ASSUME NEW b \in Breaker
  PROVE  Succeeded(b) \in Breaker /\ Failed(b) \in Breaker
<1> USE PoolAssumption
<1>1. Succeeded(b) \in Breaker
  BY DEF Succeeded, NewBreaker, Breaker
<1> DEFINE longer == IF 2 * b.cooldown <= MaxCooldown THEN 2 * b.cooldown ELSE MaxCooldown
<1>2. b.cooldown \in Nat /\ Cooldown <= b.cooldown /\ b.cooldown <= MaxCooldown
  BY DEF Breaker
<1>3. longer \in Cooldown..MaxCooldown /\ longer \in 0..MaxCooldown
  BY <1>2
<1> HIDE DEF longer
<1>4. CASE b.status = "down"
  <2>1. Failed(b) = [b EXCEPT !.cooldown = longer, !.wait = longer]
    BY <1>4 DEF Failed, longer
  <2> QED
    BY <1>1, <1>3, <2>1 DEF Breaker
<1>5. CASE b.status = "healthy" /\ b.failures + 1 >= FailureThreshold
  <2>1. Failed(b) = [status |-> "down", failures |-> FailureThreshold,
                     cooldown |-> b.cooldown, wait |-> b.cooldown]
    BY <1>5 DEF Failed, Breaker
  <2>2. b.cooldown \in 0..MaxCooldown /\ b.cooldown \in Cooldown..MaxCooldown
        /\ FailureThreshold \in 0..FailureThreshold
    BY <1>2
  <2> QED
    BY <1>1, <2>1, <2>2 DEF Breaker
<1>6. CASE b.status = "healthy" /\ ~(b.failures + 1 >= FailureThreshold)
  <2>1. Failed(b) = [b EXCEPT !.failures = @ + 1]
    BY <1>6 DEF Failed
  <2>2. b.failures + 1 \in 0..FailureThreshold
    BY <1>6 DEF Breaker
  <2> QED
    BY <1>1, <2>1, <2>2 DEF Breaker
<1> QED
  BY <1>4, <1>5, <1>6 DEF Breaker

------------------------------------------------------------------------------
(* TypeOK is inductive.                                                    *)
LEMMA PoolTypeStep == TypeOK /\ [Next]_vars => TypeOK'
<1> SUFFICES ASSUME TypeOK, [Next]_vars PROVE TypeOK'
  OBVIOUS
<1> USE DEF requestVars, checkVars, history
<1>1. CASE StartChecks
  BY <1>1 DEF StartChecks, TypeOK
<1>2. CASE StopChecks
  BY <1>2 DEF StopChecks, TypeOK
<1>3. CASE CheckNow
  BY <1>3 DEF CheckNow, TypeOK
<1>4. CASE Tick
  <2>1. \A e \in Endpoint : [breaker[e] EXCEPT !.wait = IF @ > 0 THEN @ - 1 ELSE 0] \in Breaker
    <3> SUFFICES ASSUME NEW e \in Endpoint
                 PROVE  [breaker[e] EXCEPT !.wait = IF @ > 0 THEN @ - 1 ELSE 0] \in Breaker
      OBVIOUS
    <3> DEFINE b == breaker[e]
               w == IF b.wait > 0 THEN b.wait - 1 ELSE 0
    <3>1. b \in Breaker /\ b.wait \in 0..MaxCooldown /\ MaxCooldown \in Nat
      BY PoolAssumption DEF TypeOK, Breaker
    <3>2. w \in 0..MaxCooldown
      BY <3>1
    <3>3. [b EXCEPT !.wait = IF @ > 0 THEN @ - 1 ELSE 0]
            = [status |-> b.status, failures |-> b.failures, cooldown |-> b.cooldown, wait |-> w]
      BY <3>1 DEF Breaker
    <3> QED
      BY <3>1, <3>2, <3>3 DEF Breaker
  <2> QED
    BY <1>4, <2>1 DEF Tick, TypeOK
<1>5. ASSUME NEW e \in Endpoint, Probe(e) PROVE TypeOK'
  <2>1. breaker[e] \in Breaker
    BY DEF TypeOK
  <2> QED
    BY <1>5, <2>1, BreakerTyped DEF Probe, CheckAnswered, CheckFails, TypeOK
<1>6. ASSUME NEW r \in Request, Begin(r) PROVE TypeOK'
  <2>1. Dispatch(r, breaker) /\ UNCHANGED <<breaker, timer, checking, faulty>>
    BY <1>6 DEF Begin
  <2> QED
    BY <2>1, DispatchCases, DispatchTyped DEF TypeOK, RequestTypes
<1>7. ASSUME NEW r \in Request, Answered(r) PROVE TypeOK'
  <2>1. at[r] \in Endpoint /\ breaker[at[r]] \in Breaker
    BY <1>7 DEF Answered, TypeOK
  <2>2. breaker' \in [Endpoint -> Breaker]
    BY <1>7, <2>1, BreakerTyped DEF Answered, TypeOK
  <2> QED
    BY <1>7, <2>2, FinishTyped DEF Answered, TypeOK
<1>8. ASSUME NEW r \in Request, Fails(r) PROVE TypeOK'
  <2>1. at[r] \in Endpoint /\ breaker[at[r]] \in Breaker
    BY <1>8 DEF Fails, TypeOK
  <2>2. breaker' \in [Endpoint -> Breaker] /\ faulty' \subseteq Endpoint
    BY <1>8, <2>1, BreakerTyped DEF Fails, TypeOK
  <2>3. Dispatch(r, breaker') /\ UNCHANGED <<timer, checking>>
    BY <1>8 DEF Fails
  <2> QED
    BY <2>2, <2>3, DispatchCases, DispatchTyped DEF TypeOK, RequestTypes
<1>9. CASE UNCHANGED vars
  BY <1>9 DEF vars, TypeOK
<1> QED
  BY <1>1, <1>2, <1>3, <1>4, <1>5, <1>6, <1>7, <1>8, <1>9 DEF Next

LEMMA PoolTypeInit == Init => TypeOK
<1> SUFFICES ASSUME Init PROVE TypeOK
  OBVIOUS
<1>1. NewBreaker \in Breaker
  BY PoolAssumption DEF NewBreaker, Breaker
<1>2. 0 \in 0..N
  BY PoolAssumption
<1>3. breaker \in [Endpoint -> Breaker] /\ credit \in [Endpoint -> Int]
  BY <1>1 DEF Init
<1>4. /\ at \in [Request -> Endpoint \cup {Nowhere}]
      /\ tried \in [Request -> SUBSET Endpoint] /\ attempt \in [Request -> 0..N]
  BY <1>2 DEF Init
<1> QED
  BY <1>3, <1>4 DEF Init, TypeOK

(* Every endpoint, request and breaker stays what it should be; the        *)
(* back-off, in particular, between its first and its longest value.       *)
THEOREM TypeCorrect == Spec => []TypeOK
  BY PoolTypeInit, PoolTypeStep, PTL DEF Spec

------------------------------------------------------------------------------
(* A request has been sent to as many endpoints as it made attempts, and   *)
(* all of them but the one it waits for have failed.                       *)
Trying(r) ==
  /\ attempt[r] = Cardinality(tried[r])
  /\ at[r] = Nowhere => tried[r] = {}
  /\ at[r] # Nowhere => at[r] \in tried[r] /\ tried[r] \ {at[r]} \subseteq faulty

(* An endpoint that is down has failed.                                    *)
DownFailed == \A e \in Endpoint : breaker[e].status = "down" => e \in faulty

PoolInv == /\ TypeOK /\ UnavailableOnlyAfterFailures
           /\ DownFailed /\ \A r \in Request : Trying(r)

(* More failures never withdraw the excuse.                                *)
LEMMA StillExcused ==
  ASSUME TypeOK, TypeOK', faulty \subseteq faulty', UnavailableOnlyAfterFailures, unavailable
  PROVE  UnavailableOnlyAfterFailures'
<1>1. Cardinality(faulty) <= Cardinality(faulty')
  BY EndpointFinite, FS_Subset DEF TypeOK
<1>2. /\ Cardinality(faulty) \in Nat /\ Cardinality(faulty') \in Nat
      /\ MaxAttempts \in Nat
  BY EndpointFinite, PoolAssumption DEF TypeOK
<1>3. CASE Cardinality(faulty) >= MaxAttempts
  BY <1>1, <1>2, <1>3 DEF UnavailableOnlyAfterFailures
<1>4. CASE faulty = Endpoint
  BY <1>4 DEF UnavailableOnlyAfterFailures, TypeOK
<1> QED
  BY <1>3, <1>4 DEF UnavailableOnlyAfterFailures

(* Giving up is excused when what was tried has failed, and so has what is *)
(* down.                                                                   *)
LEMMA GivingUpExcused ==
  ASSUME TypeOK, TypeOK', NEW r \in Request, NEW eps \in [Endpoint -> Breaker],
         GivesUp(r, eps), attempt[r] = Cardinality(tried[r]), tried[r] \subseteq faulty',
         \A e \in Endpoint : eps[e].status = "down" => e \in faulty'
  PROVE  UnavailableOnlyAfterFailures'
<1>1. /\ tried[r] \in SUBSET Endpoint /\ faulty' \in SUBSET Endpoint
      /\ MaxAttempts \in Nat /\ N \in Nat
  BY PoolAssumption DEF TypeOK
<1>2. /\ IsFiniteSet(faulty') /\ IsFiniteSet(tried[r])
      /\ Cardinality(faulty') \in 0..N /\ Cardinality(tried[r]) \in 0..N
  BY <1>1, EndpointFinite
<1>3. CASE attempt[r] >= MaxAttempts
  <2>1. Cardinality(tried[r]) <= Cardinality(faulty')
    BY <1>2, FS_Subset
  <2> QED
    BY <1>1, <1>2, <1>3, <2>1 DEF UnavailableOnlyAfterFailures
<1>4. CASE attempt[r] >= N
  <2>1. Cardinality(tried[r]) = N
    BY <1>1, <1>2, <1>4
  <2>2. tried[r] = Endpoint
    BY <1>1, <2>1, EndpointFinite, FS_Subset
  <2> QED
    BY <1>1, <2>2 DEF UnavailableOnlyAfterFailures
<1>5. CASE Candidates(eps, tried[r]) = {}
  <2>1. \A e \in Endpoint \ tried[r] : eps[e].status = "down"
    BY <1>5 DEF Candidates, Breaker
  <2>2. faulty' = Endpoint
    BY <1>1, <2>1
  <2> QED
    BY <2>2 DEF UnavailableOnlyAfterFailures
<1> QED
  BY <1>3, <1>4, <1>5 DEF GivesUp

(* Dispatch leaves every request as Trying says.                           *)
LEMMA DispatchTrying ==
  ASSUME TypeOK, TypeOK', NEW r \in Request, NEW eps,
         Sends(r, eps) \/ GivesUp(r, eps), faulty \subseteq faulty',
         attempt[r] = Cardinality(tried[r]), tried[r] \subseteq faulty',
         NEW s \in Request, Trying(s)
  PROVE  Trying(s)'
<1>1. CASE s # r
  <2>1. at'[s] = at[s] /\ tried'[s] = tried[s] /\ attempt'[s] = attempt[s]
    BY <1>1 DEF Sends, GivesUp, Finish, TypeOK
  <2> QED
    BY <2>1 DEF Trying
<1>2. CASE s = r /\ GivesUp(r, eps)
  <2>1. at'[r] = Nowhere /\ tried'[r] = {} /\ attempt'[r] = 0
    BY <1>2 DEF GivesUp, Finish, TypeOK
  <2> QED
    BY <1>2, <2>1, FS_EmptySet DEF Trying
<1>3. CASE s = r /\ Sends(r, eps)
  <2>1. PICK e \in Endpoint \ tried[r] :
          at'[r] = e /\ tried'[r] = tried[r] \cup {e} /\ attempt'[r] = attempt[r] + 1
    BY <1>3 DEF Sends, Candidates, TypeOK
  <2>2. IsFiniteSet(tried[r])
    BY EndpointFinite DEF TypeOK
  <2>3. Cardinality(tried'[r]) = Cardinality(tried[r]) + 1
    BY <2>1, <2>2, FS_AddElement
  <2>4. at'[r] # Nowhere
    BY <2>1, PoolAssumption DEF Endpoint, Nowhere
  <2> QED
    BY <1>3, <2>1, <2>3, <2>4 DEF Trying
<1> QED
  BY <1>1, <1>2, <1>3

(* PoolInv is inductive.                                                   *)
LEMMA PoolStep == PoolInv /\ [Next]_vars => PoolInv'
<1> SUFFICES ASSUME PoolInv, [Next]_vars PROVE PoolInv'
  OBVIOUS
<1>t. TypeOK /\ TypeOK'
  BY PoolTypeStep DEF PoolInv
<1> USE DEF requestVars, checkVars, history
<1>1. CASE StartChecks \/ StopChecks \/ CheckNow \/ UNCHANGED vars
  <2>1. UNCHANGED <<breaker, at, tried, attempt, faulty, unavailable>>
    BY <1>1 DEF StartChecks, StopChecks, CheckNow, vars
  <2> QED
    BY <1>t, <2>1 DEF PoolInv, UnavailableOnlyAfterFailures, DownFailed, Trying
<1>2. CASE Tick
  <2>1. UNCHANGED <<at, tried, attempt, faulty, unavailable>>
        /\ \A e \in Endpoint : breaker'[e].status = breaker[e].status
    BY <1>2, <1>t DEF Tick, TypeOK, Breaker
  <2> QED
    BY <1>t, <2>1 DEF PoolInv, UnavailableOnlyAfterFailures, DownFailed, Trying
<1>3. ASSUME NEW e \in Endpoint, CheckAnswered(e) PROVE PoolInv'
  <2>1. /\ UNCHANGED <<at, tried, attempt, faulty, unavailable>>
        /\ breaker'[e].status = "healthy" /\ \A d \in Endpoint \ {e} : breaker'[d] = breaker[d]
    BY <1>3, <1>t DEF CheckAnswered, TypeOK, Succeeded, NewBreaker
  <2> QED
    BY <1>t, <2>1 DEF PoolInv, UnavailableOnlyAfterFailures, DownFailed, Trying
<1>4. ASSUME NEW e \in Endpoint, CheckFails(e) PROVE PoolInv'
  <2>1. /\ UNCHANGED <<at, tried, attempt, unavailable>> /\ faulty' = faulty \cup {e}
        /\ \A d \in Endpoint \ {e} : breaker'[d] = breaker[d]
    BY <1>4, <1>t DEF CheckFails, TypeOK
  <2>2. UnavailableOnlyAfterFailures'
    BY <1>t, <2>1, StillExcused DEF PoolInv, UnavailableOnlyAfterFailures
  <2>3. DownFailed' /\ \A r \in Request : Trying(r)'
    BY <2>1 DEF PoolInv, DownFailed, Trying
  <2> QED
    BY <1>t, <2>2, <2>3 DEF PoolInv
<1>5. ASSUME NEW r \in Request, Begin(r) PROVE PoolInv'
  <2>1. /\ Dispatch(r, breaker) /\ UNCHANGED <<breaker, faulty>>
        /\ tried[r] = {} /\ attempt[r] = Cardinality(tried[r]) /\ breaker \in [Endpoint -> Breaker]
    BY <1>5, <1>t DEF Begin, PoolInv, Trying, TypeOK
  <2>2. Sends(r, breaker) \/ GivesUp(r, breaker)
    BY <1>t, <2>1, DispatchCases
  <2>3. UnavailableOnlyAfterFailures'
    <3>1. CASE Sends(r, breaker)
      BY <3>1, <2>1 DEF Sends, PoolInv, UnavailableOnlyAfterFailures
    <3>2. CASE GivesUp(r, breaker)
      BY <3>2, <1>t, <2>1, GivingUpExcused DEF PoolInv, DownFailed
    <3> QED
      BY <2>2, <3>1, <3>2
  <2>4. \A s \in Request : Trying(s)'
    BY <1>t, <2>1, <2>2, DispatchTrying DEF PoolInv
  <2>5. DownFailed'
    BY <2>1 DEF PoolInv, DownFailed
  <2> QED
    BY <1>t, <2>3, <2>4, <2>5 DEF PoolInv
<1>6. ASSUME NEW r \in Request, Answered(r) PROVE PoolInv'
  <2>1. /\ at[r] \in Endpoint /\ UNCHANGED <<faulty, unavailable>>
        /\ breaker'[at[r]].status = "healthy"
        /\ \A d \in Endpoint \ {at[r]} : breaker'[d] = breaker[d]
    BY <1>6, <1>t DEF Answered, TypeOK, Succeeded, NewBreaker
  <2>2. /\ at'[r] = Nowhere /\ tried'[r] = {} /\ attempt'[r] = 0
        /\ \A s \in Request \ {r} : at'[s] = at[s] /\ tried'[s] = tried[s] /\ attempt'[s] = attempt[s]
    BY <1>6, <1>t DEF Answered, Finish, TypeOK
  <2>3. \A s \in Request : Trying(s)'
    BY <2>1, <2>2, FS_EmptySet DEF PoolInv, Trying
  <2>4. DownFailed' /\ UnavailableOnlyAfterFailures'
    BY <2>1 DEF PoolInv, DownFailed, UnavailableOnlyAfterFailures
  <2> QED
    BY <1>t, <2>3, <2>4 DEF PoolInv
<1>7. ASSUME NEW r \in Request, Fails(r) PROVE PoolInv'
  <2>1. /\ Dispatch(r, breaker') /\ at[r] \in Endpoint /\ faulty' = faulty \cup {at[r]}
        /\ \A d \in Endpoint \ {at[r]} : breaker'[d] = breaker[d]
        /\ breaker' \in [Endpoint -> Breaker]
    BY <1>7, <1>t DEF Fails, TypeOK
  <2>2. attempt[r] = Cardinality(tried[r]) /\ tried[r] \subseteq faulty' /\ faulty \subseteq faulty'
    BY <1>7, <2>1 DEF PoolInv, Trying, Fails
  <2>3. Sends(r, breaker') \/ GivesUp(r, breaker')
    BY <1>t, <2>1, DispatchCases
  <2>4. DownFailed'
    BY <2>1 DEF PoolInv, DownFailed
  <2>5. UnavailableOnlyAfterFailures'
    <3>1. CASE Sends(r, breaker')
      <4>1. UNCHANGED unavailable
        BY <3>1 DEF Sends
      <4> QED
        BY <1>t, <2>2, <4>1, StillExcused DEF PoolInv, UnavailableOnlyAfterFailures
    <3>2. CASE GivesUp(r, breaker')
      BY <3>2, <1>t, <2>1, <2>2, <2>4, GivingUpExcused DEF DownFailed
    <3> QED
      BY <2>3, <3>1, <3>2
  <2>6. \A s \in Request : Trying(s)'
    BY <1>t, <2>2, <2>3, DispatchTrying DEF PoolInv
  <2> QED
    BY <1>t, <2>4, <2>5, <2>6 DEF PoolInv
<1> QED
  BY <1>1, <1>2, <1>3, <1>4, <1>5, <1>6, <1>7 DEF Next, Probe

(* A request is refused only after as many endpoints have failed as it may *)
(* try, or all of them, for any number of endpoints and requests: the      *)
(* breakers never hide an endpoint that answers.                           *)
THEOREM RefusedOnlyAfterFailures == Spec => []UnavailableOnlyAfterFailures
<1>1. Init => PoolInv
  <2> SUFFICES ASSUME Init PROVE PoolInv
    OBVIOUS
  <2>1. TypeOK
    BY PoolTypeInit
  <2>2. \A r \in Request : Trying(r)
    BY FS_EmptySet DEF Init, Trying
  <2> QED
    BY <2>1, <2>2 DEF Init, PoolInv, UnavailableOnlyAfterFailures, DownFailed, NewBreaker
<1>2. PoolInv => UnavailableOnlyAfterFailures
  BY DEF PoolInv
<1> QED
  BY <1>1, <1>2, PoolStep, PTL DEF Spec

-----------------------------------------------------------------------------
LEMMA QuotientNatural ==
  ASSUME NEW n \in Nat, NEW d \in Nat \ {0}
  PROVE  n \div d \in Nat
  OBVIOUS

(* What a swap pays out, and its floor, are amounts.                       *)
LEMMA OutNatural ==
  ASSUME ExecutorTypeOK, NEW o \in Order
  PROVE  OutNow(o) \in Nat
<1>0. reserves \in (Nat \ {0}) \X (Nat \ {0})
  <2>1. reserves \in ReservePairs
    BY DEF ExecutorTypeOK
  <2>2. ReservePairs \subseteq (Nat \ {0}) \X (Nat \ {0})
    BY ExecutorAssumption
  <2> QED
    BY <2>1, <2>2
<1>1. /\ reserves[1] \in Nat \ {0} /\ reserves[2] \in Nat \ {0}
      /\ AmountIn \in Nat \ {0} /\ 10000 - FeeBps \in Nat \ {0}
  BY <1>0, ExecutorAssumption
<1>2. ASSUME NEW in \in Nat \ {0}, NEW rin \in Nat \ {0}, NEW rout \in Nat \ {0}
      PROVE  AmountOutV2(in, rin, rout) \in Nat
  <2> DEFINE fee == in * (10000 - FeeBps)
  <2>1. fee \in Nat
    BY <1>1, <1>2
  <2> HIDE DEF fee
  <2>2. fee * rout \in Nat /\ rin * 10000 + fee \in Nat \ {0}
    BY <1>2, <2>1
  <2>3. AmountOutV2(in, rin, rout) = (fee * rout) \div (rin * 10000 + fee)
    BY DEF AmountOutV2, fee
  <2> QED
    BY <2>2, <2>3, QuotientNatural
<1> QED
  BY <1>1, <1>2 DEF OutNow

LEMMA FloorNatural ==
  ASSUME NEW out \in Nat
  PROVE  ApplySlippage(out, SlippageBps) \in Nat
<1>1. 10000 - SlippageBps \in Nat
  BY ExecutorAssumption
<1>2. out * (10000 - SlippageBps) \in Nat
  BY <1>1
<1> QED
  BY <1>2, QuotientNatural DEF ApplySlippage

(* The receipt that a wait follows to, and the one of an order's own swap. *)
LEMMA TakerFound ==
  ASSUME NEW o \in Order, \E t \in DOMAIN receipt : t.nonce = order[o].nonce
  PROVE  Taker(o) \in DOMAIN receipt /\ Taker(o).nonce = order[o].nonce
  BY DEF Taker

-----------------------------------------------------------------------------
LEMMA ExecTypeInit == ExecutorInit => ExecutorTypeOK
  BY DEF ExecutorInit, ExecutorTypeOK, Stages, Kinds, Tx, Receipt, RunningAnswer, FailedAnswer

LEMMA ExecTypeStep == ExecutorTypeOK /\ [ExecutorNext]_executorVars => ExecutorTypeOK'
<1> SUFFICES ASSUME ExecutorTypeOK, [ExecutorNext]_executorVars PROVE ExecutorTypeOK'
  OBVIOUS
<1> USE DEF ExecutorTypeOK, Stages, Kinds, chainVars
<1>1. CASE UNCHANGED executorVars
  BY <1>1 DEF executorVars
<1>2. CASE Mine
  <2>1. PICK t \in mempool, ok \in BOOLEAN, seen \in BOOLEAN, taxed \in BOOLEAN :
          MineAs(t, ok, seen, taxed)
    BY <1>2 DEF Mine
  <2>2. t \in Tx /\ t.of \in Order
    BY DEF Tx
  <2>3. OutNow(t.of) \in Nat
    BY <2>2, OutNatural
  <2>4. Refused \in Receipt
    BY DEF Refused, Receipt
  <2>5. receipt'[t] \in Receipt
    BY <2>1, <2>3, <2>4 DEF MineAs, Receipt
  <2>6. DOMAIN receipt' \subseteq Tx /\ receipt' \in [DOMAIN receipt' -> Receipt]
    BY <2>1, <2>2, <2>5 DEF MineAs
  <2>7. approved' \subseteq Sides
    BY <2>1 DEF MineAs, Side, Sides
  <2>8. mined' \in Nat /\ mempool' \subseteq Tx /\ reserves' \in ReservePairs
    BY <2>1 DEF MineAs
  <2>9. UNCHANGED <<order, answer, lost>>
    BY <2>1 DEF MineAs
  <2> QED
    BY <2>6, <2>7, <2>8, <2>9
<1>3. CASE OthersTrade
  BY <1>3 DEF OthersTrade
<1>4. ASSUME NEW o \in Order, QuoteAndBuild(o) PROVE ExecutorTypeOK'
  <2>1. ApplySlippage(OutNow(o), SlippageBps) \in Nat
    BY OutNatural, FloorNatural
  <2> QED
    BY <1>4, <2>1 DEF QuoteAndBuild, Throw, Move
<1>5. ASSUME NEW o \in Order, EnsureAllowance(o) PROVE ExecutorTypeOK'
  <2>1. PICK k \in Kinds :
          order' = [order EXCEPT ![o].stage = "prepare", ![o].kind = k]
    BY <1>5 DEF EnsureAllowance
  <2>2. order' \in [Order -> [stage : Stages, kind : Kinds, floor : Nat, nonce : Nat]]
    BY <2>1
  <2>3. UNCHANGED <<chainVars, answer, lost>>
    BY <1>5 DEF EnsureAllowance
  <2> QED
    BY <2>2, <2>3
<1>6. ASSUME NEW o \in Order, Prepare(o) PROVE ExecutorTypeOK'
  <2>1. PendingNonces \subseteq Nat
    BY DEF PendingNonces, Tx
  <2> QED
    BY <1>6, <2>1 DEF Prepare, Throw, Move
<1>7. ASSUME NEW o \in Order, Broadcast(o) PROVE mempool' \subseteq Tx
  BY <1>7 DEF Broadcast, Tx
<1>8. ASSUME NEW o \in Order, Send(o) PROVE ExecutorTypeOK'
  BY <1>7, <1>8 DEF Send, Throw, Move
<1>9. ASSUME NEW o \in Order, SendUnanswered(o) PROVE ExecutorTypeOK'
  BY <1>7, <1>9 DEF SendUnanswered, Throw, Move
<1>10. ASSUME NEW o \in Order, Wait(o) PROVE ExecutorTypeOK'
  BY <1>10 DEF Wait, Throw, Move
<1>11. ASSUME NEW o \in Order, ReadReceipt(o) PROVE ExecutorTypeOK'
  <2>1. Realized(o) \in Nat \cup {FailedAnswer}
    BY DEF Realized, Receipt
  <2> QED
    BY <1>11, <2>1 DEF ReadReceipt, Move
<1>12. ASSUME NEW o \in Order, CallRejects(o) PROVE ExecutorTypeOK'
  BY <1>12 DEF CallRejects, Throw, Move
<1> QED
  BY <1>1, <1>2, <1>3, <1>4, <1>5, <1>6, <1>8, <1>9, <1>10, <1>11, <1>12 DEF ExecutorNext

(* The executor's types, for any orders and prices.                        *)
THEOREM ExecutorTypeCorrect == ExecutorSpec => []ExecutorTypeOK
  BY ExecTypeInit, ExecTypeStep, PTL DEF ExecutorSpec

-----------------------------------------------------------------------------
(* Transactions are mined once for each nonce; a swap carries the nonce    *)
(* its order remembers; an order reads its receipt only after some         *)
(* transaction of that nonce succeeded; and what execute() returned fits   *)
(* what became, or may yet become, of the swap.                            *)
Sent == mempool \cup DOMAIN receipt

NoncesSpent ==
  /\ \A t \in mempool : t.nonce >= mined
  /\ \A t \in DOMAIN receipt : t.nonce < mined
  /\ \A t, u \in DOMAIN receipt : t.nonce = u.nonce => t = u

SwapsRemembered ==
  \A t \in Sent : t.kind = "swap" =>
    /\ order[t.of].kind = "swap" /\ order[t.of].nonce = t.nonce
    /\ order[t.of].stage \in {"wait", "receipt", "done"}

ReceiptFollowed ==
  \A o \in Order : order[o].stage = "receipt" =>
    \E t \in DOMAIN receipt : t.nonce = order[o].nonce /\ receipt[t].status = "success"

AnswersLast == \A o \in Order : order[o].stage # "done" => answer[o] = RunningAnswer

FailuresKnown ==
  \A t \in Sent : t.kind = "swap" /\ answer[t.of] = FailedAnswer =>
    t.of \in lost \/ (t \in DOMAIN receipt /\ receipt[t].status = "reverted")

Custody == /\ ExecutorTypeOK /\ NoncesSpent /\ SwapsRemembered /\ ReceiptFollowed
           /\ AnswersLast /\ FailuresKnown /\ CreditedOnlyOwnSwap

LEMMA CustodyInit == ExecutorInit => Custody
  BY ExecTypeInit DEF ExecutorInit, Custody, NoncesSpent, SwapsRemembered, ReceiptFollowed,
       AnswersLast, FailuresKnown, CreditedOnlyOwnSwap, Sent, RunningAnswer, FailedAnswer

(* A step of one order that leaves the chain alone, before its swap is     *)
(* sent or without a change of its transaction.                            *)
Untouched(o) == \A p \in Order \ {o} : order'[p] = order[p] /\ answer'[p] = answer[p]

LEMMA OrderStep ==
  ASSUME Custody, ExecutorTypeOK', NEW o \in Order, UNCHANGED chainVars, Untouched(o),
         lost \subseteq lost', order[o].stage # "done", order'[o].floor = order[o].floor
                                                        \/ order[o].stage = "idle",
         \/ order[o].stage \notin {"wait", "receipt", "done"}
         \/ /\ order'[o].kind = order[o].kind /\ order'[o].nonce = order[o].nonce
            /\ order'[o].stage \in {"receipt", "done"}
         \/ order[o].kind = "approve",
         order'[o].stage = "receipt" =>
           \E t \in DOMAIN receipt : t.nonce = order'[o].nonce /\ receipt[t].status = "success",
         order'[o].stage # "done" => answer'[o] = RunningAnswer,
         answer'[o] = FailedAnswer =>
           \A t \in Sent : t.of = o /\ t.kind = "swap" =>
             o \in lost' \/ (t \in DOMAIN receipt /\ receipt[t].status = "reverted"),
         answer'[o] >= 0 =>
           \E t \in OwnSwaps(o) :
             answer'[o] = IF receipt[t].seen THEN receipt[t].delivered ELSE order'[o].floor
  PROVE  Custody'
<1> USE DEF chainVars, Untouched
<1>1. /\ ExecutorTypeOK /\ NoncesSpent /\ SwapsRemembered /\ ReceiptFollowed
      /\ AnswersLast /\ FailuresKnown /\ CreditedOnlyOwnSwap
  BY DEF Custody
<1>2. \A t \in Sent : t.of \in Order
  BY <1>1 DEF Sent, ExecutorTypeOK, Tx
<1>3. \A t \in Sent : t.of = o /\ t.kind = "swap" => order[o].kind = "swap" /\ order[o].stage \in {"wait", "receipt"}
  BY <1>1 DEF SwapsRemembered
<1>4. NoncesSpent'
  BY <1>1 DEF NoncesSpent
<1>5. SwapsRemembered'
  BY <1>1, <1>2, <1>3 DEF SwapsRemembered, Sent
<1>6. ReceiptFollowed'
  BY <1>1 DEF ReceiptFollowed
<1>7. AnswersLast'
  BY <1>1 DEF AnswersLast
<1>8. FailuresKnown'
  BY <1>1, <1>2 DEF FailuresKnown, Sent
<1>9. CreditedOnlyOwnSwap'
  <2> SUFFICES ASSUME NEW p \in Order, answer'[p] >= 0
               PROVE  \E t \in OwnSwaps(p)' :
                        answer'[p] = IF receipt'[t].seen THEN receipt'[t].delivered ELSE order'[p].floor
    BY DEF CreditedOnlyOwnSwap
  <2>1. OwnSwaps(p)' = OwnSwaps(p)
    BY DEF OwnSwaps
  <2> QED
    BY <1>1, <2>1 DEF CreditedOnlyOwnSwap
<1> QED
  BY <1>4, <1>5, <1>6, <1>7, <1>8, <1>9 DEF Custody

(* A broadcast: the chain takes one more transaction, and the order that   *)
(* sent it waits for it or has failed with the answer lost.                *)
LEMMA BroadcastStep ==
  ASSUME Custody, ExecutorTypeOK', NEW o \in Order, order[o].stage = "send", Broadcast(o),
         order[o].nonce >= mined, UNCHANGED <<mined, receipt>>, Untouched(o),
         lost \subseteq lost', order'[o].kind = order[o].kind, order'[o].nonce = order[o].nonce,
         \/ order'[o].stage = "wait" /\ answer'[o] = RunningAnswer
         \/ order'[o].stage = "done" /\ answer'[o] = FailedAnswer /\ o \in lost'
  PROVE  Custody'
<1> USE DEF Untouched
<1>1. /\ ExecutorTypeOK /\ NoncesSpent /\ SwapsRemembered /\ ReceiptFollowed
      /\ AnswersLast /\ FailuresKnown /\ CreditedOnlyOwnSwap
  BY DEF Custody
<1> DEFINE new == [of |-> o, kind |-> order[o].kind, nonce |-> order[o].nonce]
<1>2. mempool' = mempool \cup {new} /\ Sent' = Sent \cup {new}
  BY DEF Broadcast, Sent
<1>3. \A t \in Sent : t.of \in Order
  BY <1>1 DEF Sent, ExecutorTypeOK, Tx
<1>4. \A t \in Sent : t.of = o => t.kind # "swap"
  BY <1>1 DEF SwapsRemembered
<1>5. NoncesSpent'
  BY <1>1, <1>2 DEF NoncesSpent
<1>6. SwapsRemembered'
  <2> SUFFICES ASSUME NEW t \in Sent', t.kind = "swap"
               PROVE  /\ order'[t.of].kind = "swap" /\ order'[t.of].nonce = t.nonce
                      /\ order'[t.of].stage \in {"wait", "receipt", "done"}
    BY DEF SwapsRemembered
  <2>1. CASE t = new
    BY <2>1
  <2>2. CASE t \in Sent
    BY <1>1, <1>3, <1>4, <2>2 DEF SwapsRemembered
  <2> QED
    BY <1>2, <2>1, <2>2
<1>7. ReceiptFollowed'
  BY <1>1 DEF ReceiptFollowed
<1>8. AnswersLast'
  BY <1>1 DEF AnswersLast
<1>9. FailuresKnown'
  <2> SUFFICES ASSUME NEW t \in Sent', t.kind = "swap", answer'[t.of] = FailedAnswer
               PROVE  t.of \in lost' \/ (t \in DOMAIN receipt /\ receipt[t].status = "reverted")
    BY DEF FailuresKnown
  <2>1. CASE t = new
    BY <2>1 DEF RunningAnswer, FailedAnswer
  <2>2. CASE t \in Sent
    BY <1>1, <1>3, <1>4, <2>2 DEF FailuresKnown
  <2> QED
    BY <1>2, <2>1, <2>2
<1>10. CreditedOnlyOwnSwap'
  <2> SUFFICES ASSUME NEW p \in Order, answer'[p] >= 0
               PROVE  \E t \in OwnSwaps(p)' :
                        answer'[p] = IF receipt'[t].seen THEN receipt'[t].delivered ELSE order'[p].floor
    BY DEF CreditedOnlyOwnSwap
  <2>1. OwnSwaps(p)' = OwnSwaps(p) /\ p # o
    BY DEF OwnSwaps, RunningAnswer, FailedAnswer
  <2> QED
    BY <1>1, <2>1 DEF CreditedOnlyOwnSwap
<1> QED
  BY <1>5, <1>6, <1>7, <1>8, <1>9, <1>10 DEF Custody

(* A block: the receipt is new, since its nonce was not spent.             *)
LEMMA MineStep == ASSUME Custody, ExecutorTypeOK', Mine PROVE Custody'
<1>1. /\ ExecutorTypeOK /\ NoncesSpent /\ SwapsRemembered /\ ReceiptFollowed
      /\ AnswersLast /\ FailuresKnown /\ CreditedOnlyOwnSwap
  BY DEF Custody
<1>2. PICK n \in mempool, ok \in BOOLEAN, seen \in BOOLEAN, taxed \in BOOLEAN :
        MineAs(n, ok, seen, taxed)
  BY DEF Mine
<1>3. /\ n.nonce = mined /\ mined' = mined + 1 /\ mined \in Nat
      /\ DOMAIN receipt' = DOMAIN receipt \cup {n}
      /\ \A u \in DOMAIN receipt : u # n => receipt'[u] = receipt[u]
      /\ mempool' = {u \in mempool : u.nonce > mined}
      /\ UNCHANGED <<order, answer, lost>>
  BY <1>1, <1>2 DEF MineAs, ExecutorTypeOK
<1>4. n \notin DOMAIN receipt
  BY <1>1, <1>3 DEF NoncesSpent
<1>5. \A t \in Sent : t \in Tx
  BY <1>1 DEF Sent, ExecutorTypeOK
<1>6. Sent' \subseteq Sent
  BY <1>3 DEF Sent
<1>7. NoncesSpent'
  <2>1. \A t \in Sent : t.nonce \in Nat
    BY <1>5 DEF Tx
  <2> QED
    BY <1>1, <1>3, <2>1 DEF NoncesSpent, Sent
<1>8. SwapsRemembered'
  BY <1>1, <1>3, <1>6 DEF SwapsRemembered
<1>9. ReceiptFollowed'
  BY <1>1, <1>3, <1>4 DEF ReceiptFollowed
<1>10. AnswersLast'
  BY <1>1, <1>3 DEF AnswersLast
<1>11. FailuresKnown'
  BY <1>1, <1>3, <1>4, <1>6 DEF FailuresKnown
<1>12. CreditedOnlyOwnSwap'
  <2> SUFFICES ASSUME NEW p \in Order, answer'[p] >= 0
               PROVE  \E t \in OwnSwaps(p)' :
                        answer'[p] = IF receipt'[t].seen THEN receipt'[t].delivered ELSE order'[p].floor
    BY DEF CreditedOnlyOwnSwap
  <2>1. PICK t \in OwnSwaps(p) :
          answer[p] = IF receipt[t].seen THEN receipt[t].delivered ELSE order[p].floor
    BY <1>1, <1>3 DEF CreditedOnlyOwnSwap
  <2>2. t \in OwnSwaps(p)' /\ receipt'[t] = receipt[t]
    BY <1>3, <1>4 DEF OwnSwaps
  <2> QED
    BY <1>3, <2>1, <2>2
<1> QED
  BY <1>7, <1>8, <1>9, <1>10, <1>11, <1>12 DEF Custody

(* The receipt of the nonce succeeded: if the order's own swap has a       *)
(* receipt it is that one, and the fill is taken from it; if it has none   *)
(* it never will, since its nonce is spent.                                *)
LEMMA ReadReceiptStep ==
  ASSUME Custody, ExecutorTypeOK', NEW o \in Order, ReadReceipt(o) PROVE Custody'
<1>1. /\ ExecutorTypeOK /\ NoncesSpent /\ SwapsRemembered /\ ReceiptFollowed
      /\ AnswersLast /\ FailuresKnown /\ CreditedOnlyOwnSwap
  BY DEF Custody
<1>2. PICK f \in DOMAIN receipt : f.nonce = order[o].nonce /\ receipt[f].status = "success"
  BY <1>1 DEF ReadReceipt, ReceiptFollowed
<1> DEFINE own == {t \in DOMAIN receipt : t.of = o /\ t.kind = "swap"}
<1>3. \A t \in own : t = f
  BY <1>1, <1>2 DEF SwapsRemembered, NoncesSpent, Sent
<1>4. /\ UNCHANGED chainVars /\ UNCHANGED lost /\ Untouched(o)
      /\ order[o].stage = "receipt" /\ order'[o] = [order[o] EXCEPT !.stage = "done"]
      /\ answer'[o] = Realized(o)
  BY <1>1 DEF ReadReceipt, Move, Untouched, ExecutorTypeOK
<1>5. CASE own = {}
  <2>1. Realized(o) = FailedAnswer
    BY <1>5 DEF Realized
  <2>2. \A t \in mempool : t.of = o => t.kind # "swap"
    BY <1>1, <1>2 DEF SwapsRemembered, NoncesSpent, Sent, ExecutorTypeOK, Tx
  <2>3. \A t \in Sent : ~(t.of = o /\ t.kind = "swap")
    BY <1>5, <2>2 DEF Sent
  <2> QED
    BY <1>1, <1>4, <2>1, <2>3, OrderStep DEF FailedAnswer, ExecutorTypeOK
<1>6. CASE own # {}
  <2>1. f \in own /\ (CHOOSE t \in own : TRUE) = f
    BY <1>3, <1>6
  <2>2. f \in OwnSwaps(o)
    BY <1>2, <2>1 DEF OwnSwaps
  <2>3. Realized(o) = IF receipt[f].seen THEN receipt[f].delivered ELSE order[o].floor
    BY <1>6, <2>1 DEF Realized
  <2>4. Realized(o) \in Nat
    BY <1>1, <2>3 DEF ExecutorTypeOK, Receipt
  <2> QED
    BY <1>1, <1>4, <2>2, <2>3, <2>4, OrderStep DEF FailedAnswer, ExecutorTypeOK
<1> QED
  BY <1>5, <1>6

(* A wait ends with the receipt of the nonce: a reverted one is that of    *)
(* the order's own swap, or that swap can no longer be mined.              *)
LEMMA WaitStep ==
  ASSUME Custody, ExecutorTypeOK', NEW o \in Order, Wait(o) PROVE Custody'
<1>1. /\ ExecutorTypeOK /\ NoncesSpent /\ SwapsRemembered /\ ReceiptFollowed
      /\ AnswersLast /\ FailuresKnown /\ CreditedOnlyOwnSwap
  BY DEF Custody
<1>2. /\ Taker(o) \in DOMAIN receipt /\ Taker(o).nonce = order[o].nonce
      /\ order[o].stage = "wait" /\ answer[o] = RunningAnswer
      /\ UNCHANGED chainVars /\ UNCHANGED lost
  BY <1>1, TakerFound DEF Wait, AnswersLast
<1>3. CASE receipt[Taker(o)].status = "reverted"
  <2>1. Throw(o)
    BY <1>3 DEF Wait
  <2>2. /\ Untouched(o) /\ answer'[o] = FailedAnswer
        /\ order'[o] = [order[o] EXCEPT !.stage = "done"]
    BY <1>1, <2>1 DEF Throw, Move, Untouched, ExecutorTypeOK
  <2>3. \A t \in Sent : t.of = o /\ t.kind = "swap" =>
          t \in DOMAIN receipt /\ receipt[t].status = "reverted"
    <3> SUFFICES ASSUME NEW t \in Sent, t.of = o, t.kind = "swap"
                 PROVE  t \in DOMAIN receipt /\ receipt[t].status = "reverted"
      OBVIOUS
    <3>1. t.nonce = Taker(o).nonce /\ Taker(o).nonce < mined
      BY <1>1, <1>2 DEF SwapsRemembered, NoncesSpent
    <3>2. t \notin mempool
      BY <1>1, <3>1 DEF NoncesSpent, ExecutorTypeOK, Tx
    <3> QED
      BY <1>1, <1>2, <1>3, <3>1, <3>2 DEF NoncesSpent, Sent
  <2> QED
    BY <1>1, <1>2, <2>2, <2>3, OrderStep DEF FailedAnswer, ExecutorTypeOK
<1>4. CASE receipt[Taker(o)].status # "reverted" /\ order[o].kind = "approve"
  <2>1. /\ Untouched(o) /\ answer'[o] = RunningAnswer
        /\ order'[o] = [order[o] EXCEPT !.stage = "prepare", !.kind = "swap"]
    BY <1>1, <1>2, <1>4 DEF Wait, Untouched, ExecutorTypeOK
  <2>2. order'[o].floor = order[o].floor /\ order'[o].stage = "prepare"
    BY <1>1, <2>1 DEF ExecutorTypeOK
  <2>3. /\ order[o].stage # "done" /\ order'[o].stage # "receipt" /\ order[o].kind = "approve"
        /\ answer'[o] # FailedAnswer /\ ~(answer'[o] >= 0) /\ lost \subseteq lost'
    BY <1>2, <1>4, <2>1, <2>2 DEF RunningAnswer, FailedAnswer
  <2> QED
    BY <1>2, <2>1, <2>2, <2>3, OrderStep
<1>5. CASE receipt[Taker(o)].status # "reverted" /\ order[o].kind = "swap"
  <2>1. receipt[Taker(o)].status = "success"
    BY <1>1, <1>2, <1>5 DEF ExecutorTypeOK, Receipt
  <2>2. /\ Untouched(o) /\ answer'[o] = RunningAnswer
        /\ order'[o] = [order[o] EXCEPT !.stage = "receipt"]
    BY <1>1, <1>2, <1>5 DEF Wait, Move, Untouched, ExecutorTypeOK
  <2> QED
    BY <1>1, <1>2, <1>5, <2>1, <2>2, OrderStep DEF RunningAnswer, FailedAnswer, ExecutorTypeOK
<1> QED
  BY <1>1, <1>3, <1>4, <1>5 DEF ExecutorTypeOK, Kinds

(* The steps before a broadcast, in which an order has no swap yet, and a  *)
(* call that rejects, which is remembered.                                 *)
LEMMA EarlyStep ==
  ASSUME Custody, ExecutorTypeOK', NEW o \in Order, UNCHANGED chainVars, Untouched(o),
         UNCHANGED lost, order[o].stage \in {"idle", "allowance", "prepare", "send"},
         order[o].stage # "idle" => order'[o].floor = order[o].floor,
         \/ order'[o].stage \notin {"receipt", "done"} /\ answer'[o] = RunningAnswer
         \/ order'[o].stage = "done" /\ answer'[o] = FailedAnswer
  PROVE  Custody'
<1>1. SwapsRemembered
  BY DEF Custody
<1>2. \A t \in Sent : ~(t.of = o /\ t.kind = "swap")
  BY <1>1 DEF SwapsRemembered
<1> QED
  BY <1>2, OrderStep DEF RunningAnswer, FailedAnswer

LEMMA CustodyStep == Custody /\ [ExecutorNext]_executorVars => Custody'
<1> SUFFICES ASSUME Custody, [ExecutorNext]_executorVars PROVE Custody'
  OBVIOUS
<1>1. ExecutorTypeOK /\ ExecutorTypeOK' /\ AnswersLast
  BY ExecTypeStep DEF Custody
<1>2. CASE UNCHANGED <<order, mined, mempool, receipt, answer, lost>>
  <2>1. CreditedOnlyOwnSwap'
    BY <1>2 DEF Custody, CreditedOnlyOwnSwap, OwnSwaps
  <2> QED
    BY <1>1, <1>2, <2>1 DEF Custody, NoncesSpent, SwapsRemembered, ReceiptFollowed, AnswersLast,
         FailuresKnown, Sent
<1>3. CASE Mine
  BY <1>1, <1>3, MineStep
<1>4. ASSUME NEW o \in Order, QuoteAndBuild(o) PROVE Custody'
  <2>1. Untouched(o) /\ order[o].stage = "idle" /\ UNCHANGED chainVars /\ UNCHANGED lost
    BY <1>1, <1>4 DEF QuoteAndBuild, Throw, Move, Untouched, ExecutorTypeOK
  <2>2. \/ order'[o].stage \notin {"receipt", "done"} /\ answer'[o] = RunningAnswer
        \/ order'[o].stage = "done" /\ answer'[o] = FailedAnswer
    BY <1>1, <1>4 DEF QuoteAndBuild, Throw, Move, ExecutorTypeOK, AnswersLast
  <2> QED
    BY <1>1, <2>1, <2>2, EarlyStep
<1>5. ASSUME NEW o \in Order, EnsureAllowance(o) PROVE Custody'
  <2>1. Untouched(o) /\ order[o].stage = "allowance" /\ UNCHANGED chainVars /\ UNCHANGED lost
    BY <1>1, <1>5 DEF EnsureAllowance, Untouched, ExecutorTypeOK
  <2>2. order'[o].stage = "prepare" /\ answer'[o] = RunningAnswer /\ order'[o].floor = order[o].floor
    BY <1>1, <1>5 DEF EnsureAllowance, ExecutorTypeOK, AnswersLast
  <2> QED
    BY <1>1, <2>1, <2>2, EarlyStep
<1>6. ASSUME NEW o \in Order, Prepare(o) PROVE Custody'
  <2>1. Untouched(o) /\ order[o].stage = "prepare" /\ UNCHANGED chainVars /\ UNCHANGED lost
    BY <1>1, <1>6 DEF Prepare, Throw, Move, Untouched, ExecutorTypeOK
  <2>2. /\ order'[o].floor = order[o].floor
        /\ \/ order'[o].stage \notin {"receipt", "done"} /\ answer'[o] = RunningAnswer
           \/ order'[o].stage = "done" /\ answer'[o] = FailedAnswer
    BY <1>1, <1>6 DEF Prepare, Throw, Move, ExecutorTypeOK, AnswersLast
  <2> QED
    BY <1>1, <2>1, <2>2, EarlyStep
<1>7. ASSUME NEW o \in Order, Send(o) PROVE Custody'
  <2>1. /\ Untouched(o) /\ order[o].stage = "send" /\ UNCHANGED <<mined, receipt, lost>>
        /\ order'[o].kind = order[o].kind /\ order'[o].nonce = order[o].nonce
        /\ order'[o].floor = order[o].floor
    BY <1>1, <1>7 DEF Send, Throw, Move, Untouched, ExecutorTypeOK
  <2>2. CASE order[o].nonce >= mined /\ Broadcast(o) /\ Move(o, "wait") /\ UNCHANGED answer
    <3>1. order'[o].stage = "wait" /\ answer'[o] = RunningAnswer
      BY <1>1, <2>1, <2>2 DEF Move, ExecutorTypeOK, AnswersLast
    <3> QED
      BY <1>1, <2>1, <2>2, <3>1, BroadcastStep
  <2>3. CASE Throw(o) /\ UNCHANGED mempool
    <3>1. order'[o].stage = "done" /\ answer'[o] = FailedAnswer
      BY <1>1, <2>3 DEF Throw, Move, ExecutorTypeOK
    <3>2. UNCHANGED chainVars
      BY <1>7, <2>3 DEF Send, chainVars
    <3> QED
      BY <1>1, <2>1, <3>1, <3>2, EarlyStep
  <2> QED
    BY <1>7, <2>2, <2>3 DEF Send
<1>8. ASSUME NEW o \in Order, SendUnanswered(o) PROVE Custody'
  <2>1. /\ Untouched(o) /\ order[o].stage = "send" /\ UNCHANGED <<mined, receipt>>
        /\ order'[o].kind = order[o].kind /\ order'[o].nonce = order[o].nonce
        /\ order'[o].stage = "done" /\ answer'[o] = FailedAnswer /\ lost' = lost \cup {o}
        /\ order[o].nonce >= mined /\ Broadcast(o)
    BY <1>1, <1>8 DEF SendUnanswered, Throw, Move, Untouched, ExecutorTypeOK
  <2> QED
    BY <1>1, <2>1, BroadcastStep
<1>9. ASSUME NEW o \in Order, CallRejects(o) PROVE Custody'
  <2>1. /\ Untouched(o) /\ UNCHANGED chainVars /\ lost' = lost \cup {o}
        /\ order[o].stage # "done" /\ order'[o] = [order[o] EXCEPT !.stage = "done"]
        /\ answer'[o] = FailedAnswer
    BY <1>1, <1>9 DEF CallRejects, Throw, Move, Untouched, ExecutorTypeOK
  <2> QED
    BY <1>1, <2>1, OrderStep DEF FailedAnswer, ExecutorTypeOK
<1> QED
  BY <1>1, <1>2, <1>3, <1>4, <1>5, <1>6, <1>7, <1>8, <1>9, WaitStep, ReadReceiptStep
  DEF ExecutorNext, OthersTrade, executorVars

THEOREM ExecutorInvariant == ExecutorSpec => []Custody
  BY CustodyInit, CustodyStep, PTL DEF ExecutorSpec

(* An order is reported executed only with its own swap and what it        *)
(* delivered, although two handlers may share a nonce and the wait then    *)
(* follows the other's transaction.                                        *)
THEOREM OnlyOwnSwapCredited == ExecutorSpec => []CreditedOnlyOwnSwap
<1>1. Custody => CreditedOnlyOwnSwap
  BY DEF Custody
<1> QED
  BY <1>1, ExecutorInvariant, PTL

(* A swap that was mined for an order reported failed takes a call that    *)
(* failed after the swap was broadcast.                                    *)
THEOREM UnreportedNeedsLostCall == ExecutorSpec => []UnreportedOnlyByLostCall
<1>1. Custody => UnreportedOnlyByLostCall
  BY DEF Custody, FailuresKnown, UnreportedOnlyByLostCall, OwnSwaps, Sent
<1> QED
  BY <1>1, ExecutorInvariant, PTL
=============================================================================
