---------------------------- MODULE AlertEngine ----------------------------
(***************************************************************************)
(* The alert engines of the gateway's replicas                             *)
(* (packages/observability-core/src/alerting, apps/api-gateway             *)
(* observability): each replica counts, in its own memory, the failures of *)
(* one kind that the bus gives to it, over a sliding window per rule, and  *)
(* fires a rule that reaches its threshold, at most once per cool-down.    *)
(* All rules here watch one key.                                           *)
(***************************************************************************)
EXTENDS Integers, FiniteSets, FiniteSetsExt

CONSTANTS Engine,               \* the replicas of the consumer group
          Rule, WindowOf, Threshold,
          Cooldown,
          MaxClock, MaxSignals, MaxRestarts

ASSUME AlertAssumption ==
    /\ IsFiniteSet(Engine) /\ IsFiniteSet(Rule) /\ Rule # {}
    /\ WindowOf \in [Rule -> Nat \ {0}] /\ Threshold \in [Rule -> Nat \ {0}]
    /\ Cooldown \in Nat /\ MaxClock \in Nat /\ MaxSignals \in Nat /\ MaxRestarts \in Nat

VARIABLES
    clock,
    signals,    \* the failures so far: their occurredAt, numbered in stream order
    handed,     \* how many of them the group has read
    series,     \* Engine -> signals kept in #timestamps
    todo,       \* Engine -> rules to evaluate for the signal just recorded
    lastFired,  \* Engine -> Rule -> when it fired last
    observed,   \* history: Engine -> signals recorded since its process started
    restarts
alertVars == <<clock, signals, handed, series, todo, lastFired, observed, restarts>>

Never == -1
Signal == 1..MaxSignals

AlertTypeOK ==
    /\ clock \in 0..MaxClock
    /\ handed \in 0..MaxSignals /\ DOMAIN signals = 1..Cardinality(DOMAIN signals)
    /\ series \in [Engine -> SUBSET Signal] /\ observed \in [Engine -> SUBSET Signal]
    /\ todo \in [Engine -> SUBSET Rule]
    /\ lastFired \in [Engine -> [Rule -> Nat \cup {Never}]]
    /\ restarts \in 0..MaxRestarts

AlertInit ==
    /\ clock = 0 /\ signals = <<>> /\ handed = 0 /\ restarts = 0
    /\ series = [e \in Engine |-> {}] /\ observed = [e \in Engine |-> {}]
    /\ todo = [e \in Engine |-> {}]
    /\ lastFired = [e \in Engine |-> [r \in Rule |-> Never]]

----------------------------------------------------------------------------
Pass ==
    /\ clock < MaxClock /\ clock' = clock + 1
    /\ UNCHANGED <<signals, handed, series, todo, lastFired, observed, restarts>>

(* A trade fails, or a token is found dangerous (alertSignalsOf) *)
Raise ==
    LET n == Cardinality(DOMAIN signals)
    IN /\ n < MaxSignals
       /\ signals' = [i \in 1..(n + 1) |-> IF i <= n THEN signals[i] ELSE clock]
       /\ UNCHANGED <<clock, handed, series, todo, lastFired, observed, restarts>>

(* record(): one engine of the group gets the event, keeps what the widest *)
(* rule can still count, and has every rule to evaluate                    *)
HorizonNarrow == \* mutant: the shortest window decides what is kept
    clock - Min({WindowOf[r] : r \in Rule})

Horizon == clock - Max({WindowOf[r] : r \in Rule})

Record(e) ==
    /\ todo[e] = {} /\ handed < Cardinality(DOMAIN signals)
    /\ handed' = handed + 1
    /\ series' = [series EXCEPT ![e] = {s \in @ \cup {handed + 1} : signals[s] >= Horizon}]
    /\ observed' = [observed EXCEPT ![e] = @ \cup {handed + 1}]
    /\ todo' = [todo EXCEPT ![e] = Rule]
    /\ UNCHANGED <<clock, signals, lastFired, restarts>>

(* evaluate(): the count is taken when the rule's turn comes, which may be *)
(* after the dispatch of another; the cool-down starts before the          *)
(* dispatch, whose failure is only logged                                  *)
Count(e, r) == Cardinality({s \in series[e] : signals[s] > clock - WindowOf[r]})
CoolingNotFrom(e, r) == \* mutant: the cool-down ends one unit early
    lastFired[e][r] # Never /\ clock - lastFired[e][r] < Cooldown - 1

Cooling(e, r) == lastFired[e][r] # Never /\ clock - lastFired[e][r] < Cooldown

Evaluate(e, r) ==
    /\ r \in todo[e]
    /\ todo' = [todo EXCEPT ![e] = @ \ {r}]
    /\ lastFired' = IF Count(e, r) >= Threshold[r] /\ ~Cooling(e, r)
                    THEN [lastFired EXCEPT ![e][r] = clock] ELSE lastFired
    /\ UNCHANGED <<clock, signals, handed, series, observed, restarts>>

(* Counts and cool-downs are in memory, and so is the signal in hand *)
RestartEngine(e) ==
    /\ restarts < MaxRestarts /\ restarts' = restarts + 1
    /\ series' = [series EXCEPT ![e] = {}] /\ observed' = [observed EXCEPT ![e] = {}]
    /\ todo' = [todo EXCEPT ![e] = {}]
    /\ lastFired' = [lastFired EXCEPT ![e] = [r \in Rule |-> Never]]
    /\ UNCHANGED <<clock, signals, handed>>

AlertNext ==
    \/ Pass \/ Raise
    \/ \E e \in Engine : Record(e) \/ RestartEngine(e) \/ \E r \in Rule : Evaluate(e, r)

AlertSpec == AlertInit /\ [][AlertNext]_alertVars

----------------------------------------------------------------------------
Recent(e, r) == {s \in observed[e] : signals[s] > clock - WindowOf[r]}
FiredSince(e, r, t) == lastFired[e][r] # Never /\ lastFired[e][r] > t

(* GroupSpikeFires: the replicas count apart, so a spike of Threshold      *)
(* failures may pass unnoticed when they share it; one that leaves some    *)
(* replica with Threshold of them fires, at the latest with the last of    *)
(* these, or finds that replica cooling down from an earlier firing: the   *)
(* pruning for other rules and the late evaluation lose nothing            *)
(* (alerting/engine.ts:121-148; alert.service.ts:49).                      *)
GroupSpikeFires ==
    \A r \in Rule :
        (/\ \A e \in Engine : todo[e] = {}
         /\ Cardinality(UNION {Recent(e, r) : e \in Engine})
              > Cardinality(Engine) * (Threshold[r] - 1))
        => \E e \in Engine : FiredSince(e, r, clock - WindowOf[r] - Cooldown)

(* OnePagePerCooldown: an engine that has not restarted fires a rule again *)
(* only when the cool-down is over, however many signals are handed to it  *)
(* while it waits for a dispatch (engine.ts:146-150).                      *)
OnePagePerCooldown ==
    [][\A e \in Engine, r \in Rule :
          lastFired[e][r] # Never /\ lastFired'[e][r] \notin {Never, lastFired[e][r]}
          => lastFired'[e][r] - lastFired[e][r] >= Cooldown]_alertVars
============================================================================
