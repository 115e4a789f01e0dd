------------------------------- MODULE RpcPool -------------------------------
(***************************************************************************)
(* RpcPool and ManagedEndpoint (packages/rpc-manager/src): requests in     *)
(* flight over endpoints with a circuit breaker each, failover, and the    *)
(* health checks that run beside them.  Everything between two awaits of   *)
(* #dispatch - the bookkeeping of an answer and the choice of the next     *)
(* endpoint - is one step.                                                 *)
(*                                                                         *)
(* The clock is read only against retryAt, so a breaker keeps the time     *)
(* that is left of its cool-down.  Failures are counted up to the          *)
(* threshold; beyond it only the health report reads them.                 *)
(***************************************************************************)
EXTENDS Integers, FiniteSets

CONSTANTS
  N,                     \* endpoints, 1..N in configuration order
  Weight,
  FailureThreshold,
  Cooldown, MaxCooldown, \* in units of the clock
  MaxAttempts,           \* maxAttemptsPerRequest
  Request                \* callers that may have a request in flight

ASSUME PoolAssumption ==
  /\ N \in Nat \ {0}
  /\ Weight \in [1..N -> Nat \ {0}]
  /\ FailureThreshold \in Nat \ {0} /\ MaxAttempts \in Nat \ {0}
  /\ Cooldown \in Nat /\ MaxCooldown \in Nat /\ Cooldown <= MaxCooldown

VARIABLES
  breaker,     \* each endpoint's status, failures in a row, cool-down, time left of it
  credit,      \* currentWeight of the smooth weighted round-robin
  at,          \* the endpoint each request waits for, or Nowhere
  tried,       \* endpoints the request was sent to
  attempt,     \* attempts made for it
  timer,       \* are the background health checks started
  checking,    \* endpoints whose probe is in flight
  faulty,      \* history: endpoints that ever failed a call
  unavailable  \* history: has a request ended in RpcInfraError

requestVars == <<at, tried, attempt>>
checkVars   == <<timer, checking>>
history     == <<faulty, unavailable>>
vars        == <<breaker, credit, requestVars, checkVars, history>>

Endpoint == 1..N
Nowhere  == 0
NewBreaker == [status |-> "healthy", failures |-> 0, cooldown |-> Cooldown, wait |-> 0]

Init ==
  /\ breaker = [e \in Endpoint |-> NewBreaker] /\ credit = [e \in Endpoint |-> 0]
  /\ at = [r \in Request |-> Nowhere]
  /\ tried = [r \in Request |-> {}] /\ attempt = [r \in Request |-> 0]
  /\ timer = FALSE /\ checking = {}
  /\ faulty = {} /\ unavailable = FALSE

(* recordSuccess, whatever the breaker stood at.                           *)
Succeeded(b) == NewBreaker

(* recordFailure: a healthy endpoint goes down at the threshold, one that  *)
(* is down backs off for twice as long, up to the ceiling.                 *)
Failed(b) ==
  LET longer == IF 2 * b.cooldown <= MaxCooldown THEN 2 * b.cooldown ELSE MaxCooldown IN
  CASE b.status = "down" -> [b EXCEPT !.cooldown = longer, !.wait = longer]
    [] b.status = "healthy" /\ b.failures + 1 >= FailureThreshold
         -> [b EXCEPT !.status = "down", !.failures = FailureThreshold, !.wait = b.cooldown]
    [] OTHER -> [b EXCEPT !.failures = @ + 1]

(* Mutants of Candidates: endpoints already tried are not left out; one    *)
(* that is down is left out until a health check has found it up.          *)
CandidatesAgain(eps, excluded) ==
  {e \in Endpoint : eps[e].status = "healthy" \/ eps[e].wait = 0}

CandidatesHealthy(eps, excluded) ==
  {e \in Endpoint \ excluded : eps[e].status = "healthy"}

(* isSelectable, of the endpoints not tried yet.                           *)
Candidates(eps, excluded) ==
  {e \in Endpoint \ excluded : eps[e].status = "healthy" \/ eps[e].wait = 0}

(* A candidate's weight is its number of turns in a round; totalWeight is  *)
(* the length of the round.                                                *)
Turns(C)  == UNION {{e} \X (1..Weight[e]) : e \in C}
Total(C)  == Cardinality(Turns(C))
Raised(C) == [e \in Endpoint |-> IF e \in C THEN credit[e] + Weight[e] ELSE credit[e]]

(* The first of the candidates with the most credit.                       *)
Best(C) ==
  LET most == {e \in C : \A d \in C : Raised(C)[d] <= Raised(C)[e]}
  IN  CHOOSE e \in most : \A d \in most : e <= d

Finish(r) == /\ at' = [at EXCEPT ![r] = Nowhere]
             /\ tried' = [tried EXCEPT ![r] = {}]
             /\ attempt' = [attempt EXCEPT ![r] = 0]

(* The head of #dispatch's loop: choose and send, or give up.              *)
Dispatch(r, eps) ==
  LET C == Candidates(eps, tried[r])
      e == Best(C)
  IN
  IF attempt[r] < MaxAttempts /\ attempt[r] < N /\ C # {}
  THEN /\ at' = [at EXCEPT ![r] = e]
       /\ tried' = [tried EXCEPT ![r] = @ \cup {e}]
       /\ attempt' = [attempt EXCEPT ![r] = @ + 1]
       /\ credit' = [Raised(C) EXCEPT ![e] = @ - Total(C)]
       /\ UNCHANGED unavailable
  ELSE /\ Finish(r)
       /\ unavailable' = TRUE
       /\ UNCHANGED credit

Begin(r) ==
  /\ at[r] = Nowhere
  /\ Dispatch(r, breaker)
  /\ UNCHANGED <<breaker, checkVars, faulty>>

(* A result, or an application-level error: either way the node answered,  *)
(* and the caller gets it.                                                 *)
Answered(r) ==
  /\ at[r] # Nowhere
  /\ breaker' = [breaker EXCEPT ![at[r]] = Succeeded(@)]
  /\ Finish(r)
  /\ UNCHANGED <<credit, checkVars, history>>

(* isEndpointFailure: the failure is recorded and the request fails over.  *)
Fails(r) ==
  /\ at[r] # Nowhere
  /\ breaker' = [breaker EXCEPT ![at[r]] = Failed(@)]
  /\ faulty' = faulty \cup {at[r]}
  /\ Dispatch(r, breaker')
  /\ UNCHANGED checkVars

StartChecks ==
  /\ ~timer /\ timer' = TRUE
  /\ UNCHANGED <<breaker, credit, requestVars, checking, history>>

(* Probes in flight are not cancelled.                                     *)
StopChecks ==
  /\ timer /\ timer' = FALSE
  /\ UNCHANGED <<breaker, credit, requestVars, checking, history>>

(* The timer fires: every endpoint is probed.  The transport's timeout is  *)
(* shorter than the interval, so the last probes are over.                 *)
CheckNow ==
  /\ timer /\ checking = {}
  /\ checking' = Endpoint
  /\ UNCHANGED <<breaker, credit, requestVars, timer, history>>

CheckAnswered(e) ==
  /\ e \in checking /\ checking' = checking \ {e}
  /\ breaker' = [breaker EXCEPT ![e] = Succeeded(@)]
  /\ UNCHANGED <<credit, requestVars, timer, history>>

(* Any error of a probe counts, an application-level one too.              *)
CheckFails(e) ==
  /\ e \in checking /\ checking' = checking \ {e}
  /\ breaker' = [breaker EXCEPT ![e] = Failed(@)]
  /\ faulty' = faulty \cup {e}
  /\ UNCHANGED <<credit, requestVars, timer, unavailable>>

(* Time passes.                                                            *)
Tick ==
  /\ \E e \in Endpoint : breaker[e].wait > 0
  /\ breaker' = [e \in Endpoint |-> [breaker[e] EXCEPT !.wait = IF @ > 0 THEN @ - 1 ELSE 0]]
  /\ UNCHANGED <<credit, requestVars, checkVars, history>>

Probe(e) == CheckAnswered(e) \/ CheckFails(e)

Next == \/ StartChecks \/ StopChecks \/ CheckNow \/ Tick
        \/ \E e \in Endpoint : Probe(e)
        \/ \E r \in Request : Begin(r) \/ Answered(r) \/ Fails(r)

(* Calls settle (the transport has a timeout), time passes, and the        *)
(* callers - price quotes of every tick, status pages - keep asking.  The  *)
(* health checks need not run: the worker never starts them.               *)
Fairness == /\ WF_vars(Tick)
            /\ \A e \in Endpoint : WF_vars(Probe(e))
            /\ \A r \in Request : WF_vars(Begin(r)) /\ WF_vars(Answered(r) \/ Fails(r))

Spec     == Init /\ [][Next]_vars
FairSpec == Spec /\ Fairness

-----------------------------------------------------------------------------
Breaker == [status : {"healthy", "down"}, failures : 0..FailureThreshold,
            cooldown : Cooldown..MaxCooldown, wait : 0..MaxCooldown]

TypeOK ==
  /\ breaker \in [Endpoint -> Breaker] /\ credit \in [Endpoint -> Int]
  /\ at \in [Request -> Endpoint \cup {Nowhere}]
  /\ tried \in [Request -> SUBSET Endpoint] /\ attempt \in [Request -> 0..N]
  /\ timer \in BOOLEAN /\ checking \subseteq Endpoint
  /\ faulty \subseteq Endpoint /\ unavailable \in BOOLEAN

(* A caller is told that no endpoint is available only after as many       *)
(* endpoints have failed as a request may try, or all of them: one that    *)
(* never failed is never passed by, whatever the breakers, the probes and  *)
(* the other requests do meanwhile.                                        *)
UnavailableOnlyAfterFailures ==
  unavailable => Cardinality(faulty) >= MaxAttempts \/ faulty = Endpoint

(* An endpoint that stops failing is back in rotation for good, by the     *)
(* traffic alone: past its cool-down it is tried again.                    *)
Failing(e) == CheckFails(e) \/ \E r \in Request : at[r] = e /\ Fails(r)
Rejoins ==
  \A e \in Endpoint :
    <>[][~Failing(e)]_vars => <>[](breaker[e].status = "healthy")
=============================================================================
