------------------------------- MODULE Access -------------------------------
(***************************************************************************)
(* An HTTP request through the gateway's three guards (apps/api-gateway):  *)
(* authenticate, authorise, rate-limit, then the handler.  The limiter is  *)
(* a sliding window per identity in a Redis sorted set that all replicas   *)
(* share: a hit is added and counted in one MULTI, and one over the budget *)
(* is taken out again by a second call.  A request reads the clock before  *)
(* its MULTI runs.                                                         *)
(***************************************************************************)
EXTENDS Integers, FiniteSets

CONSTANTS Requests,        \* how many there are; each is sent at most once
          Key,             \* API keys
          Admin,           \* the user whose token carries every scope
          Call,            \* request -> the [by, to, key] it may be
          Expiry,          \* Key -> the time at which it expires
          Limit, Window,   \* the budget, and its length
          MaxTime, MaxStoreFailures

ASSUME AccessAssumption ==
    /\ Requests \in Nat /\ Admin \notin Key /\ Expiry \in [Key -> Nat]
    /\ Limit \in Nat \ {0} /\ Window \in Nat \ {0}
    /\ MaxTime \in Nat /\ MaxStoreFailures \in Nat
    /\ Call \in [1..Requests -> (SUBSET [by : Key \cup {Admin}, key : Key,
                                        to : {"read", "create", "revoke"}]) \ {{}}]

VARIABLES
    now,        \* the clock of the replicas
    keys,       \* Key -> status of its row
    req,        \* Request -> how far it is
    hits,       \* identity -> requests in its sorted set
    promise,    \* history: identity -> when the last denied request may retry
    broken,     \* history: requests denied although they came when promised
    unreliable  \* history: store calls that failed
accessVars == <<now, keys, req, hits, promise, broken, unreliable>>

Request == 1..Requests
Caller == Key \cup {Admin}
NoPromise == -1

(* What a principal may do (scopes.ts), and what a route asks for *)
ScopesOf(c) == IF c = Admin THEN {"read", "trade", "admin"} ELSE {"read"}
ScopeFor(route) == IF route = "read" THEN "read" ELSE "admin"

Stages == {"new", "stamped", "giveback", "handler",
           "served", "denied", "unauthorized", "forbidden", "unavailable"}

AccessTypeOK ==
    /\ now \in 0..MaxTime
    /\ keys \in [Key -> {"absent", "live", "revoked"}]
    /\ req \in [Request -> [at : Stages, call : UNION {Call[r] : r \in Request},
                            stamp : Nat, late : BOOLEAN]]
    /\ hits \in [Caller -> SUBSET Request]
    /\ promise \in [Caller -> Nat \cup {NoPromise}]
    /\ broken \subseteq Request /\ unreliable \in 0..MaxStoreFailures

AccessInit ==
    /\ now = 0 /\ keys \in [Key -> {"absent", "live"}]
    /\ req = [r \in Request |-> [at |-> "new", call |-> CHOOSE c \in Call[r] : TRUE,
                                 stamp |-> 0, late |-> FALSE]]
    /\ hits = [c \in Caller |-> {}] /\ promise = [c \in Caller |-> NoPromise]
    /\ broken = {} /\ unreliable = 0

Goto(r, stage) == req' = [req EXCEPT ![r].at = stage]

Tick ==
    /\ now < MaxTime /\ now' = now + 1
    /\ UNCHANGED <<keys, req, hits, promise, broken, unreliable>>

(* AuthGuard: a key's row must be there, not revoked and not expired; the  *)
(* admin's token is looked up in the users table.  ScopesGuard and the     *)
(* clock of RateLimitGuard follow without waiting.  Requests are numbered  *)
(* in the order in which their rows are read.                              *)
Known(c) == c \in Key => keys[c] = "live" /\ now < Expiry[c]
Allowed(c) == ScopeFor(c.to) \in ScopesOf(c.by)

Authenticate(r, c) ==
    /\ req[r].at = "new" /\ \A q \in 1..(r - 1) : req[q].at # "new"
    /\ req' = [req EXCEPT ![r] = [at |-> CASE ~Known(c.by) -> "unauthorized"
                                         [] Known(c.by) /\ ~Allowed(c) -> "forbidden"
                                         [] OTHER -> "stamped",
                                  call |-> c, stamp |-> now, late |-> FALSE]]
    /\ UNCHANGED <<now, keys, hits, promise, broken, unreliable>>

(* The MULTI: hits that aged out leave, this one enters, and all are       *)
(* counted                                                                 *)
Counted(r) == {q \in hits[req[r].call.by] : req[q].stamp > req[r].stamp - Window} \cup {r}
Counts(q) == req[q].at \notin {"new", "stamped", "unauthorized", "forbidden"}
Overtaken(r) == \E q \in Request : /\ req[q].call.by = req[r].call.by /\ req[q].stamp > req[r].stamp
                                   /\ Counts(q)
Oldest(S) == CHOOSE t \in {req[q].stamp : q \in S} : \A q \in S : t <= req[q].stamp

Enter(r) == hits' = [hits EXCEPT ![req[r].call.by] = Counted(r)]

HitServedOver(r) == \* mutant: the hits are counted before this one is added
    /\ req[r].at = "stamped" /\ Cardinality(Counted(r) \ {r}) <= Limit
    /\ Enter(r)
    /\ req' = [req EXCEPT ![r].at = "handler", ![r].late = Overtaken(r)]
    /\ promise' = [promise EXCEPT ![req[r].call.by] = NoPromise]
    /\ UNCHANGED <<now, keys, broken, unreliable>>

HitServed(r) ==
    /\ req[r].at = "stamped" /\ Cardinality(Counted(r)) <= Limit
    /\ Enter(r)
    /\ req' = [req EXCEPT ![r].at = "handler", ![r].late = Overtaken(r)]
    /\ promise' = [promise EXCEPT ![req[r].call.by] = NoPromise]
    /\ UNCHANGED <<now, keys, broken, unreliable>>

(* Retry-After is the time until the oldest hit ages out.  One overtaken   *)
(* may find itself the oldest, or be the oldest that a later one finds     *)
(* before it is given back: these promise nothing that can be relied on.   *)
RetryTimeEarly(r) == \* mutant: one unit short of the oldest hit's end
    Oldest(Counted(r)) + Window - 1

RetryTime(r) == Oldest(Counted(r)) + Window

Stays(q) == req[q].at # "giveback"
FromOneThatStays(r) == \E q \in Counted(r) \ {r} : Stays(q) /\ req[q].stamp = Oldest(Counted(r))

HitDenied(r) ==
    LET c == req[r].call.by
    IN /\ req[r].at = "stamped" /\ Cardinality(Counted(r)) > Limit
       /\ Enter(r)
       /\ Goto(r, "giveback")
       /\ promise' = [promise EXCEPT ![c] = IF ~Overtaken(r) /\ FromOneThatStays(r)
                                                THEN RetryTime(r) ELSE NoPromise]
       /\ broken' = IF /\ promise[c] # NoPromise /\ req[r].stamp >= promise[c]
                       /\ \A q \in hits[c] : Stays(q)
                    THEN broken \cup {r} ELSE broken
       /\ UNCHANGED <<now, keys, unreliable>>

GiveBack(r) ==
    /\ req[r].at = "giveback"
    /\ hits' = [hits EXCEPT ![req[r].call.by] = @ \ {r}]
    /\ Goto(r, "denied")
    /\ UNCHANGED <<now, keys, promise, broken, unreliable>>

(* A call of the store fails: 503.  A MULTI whose reply was lost has run;  *)
(* a ZREM that did not run leaves the denied hit in the window.            *)
StoreFails(r) ==
    /\ unreliable < MaxStoreFailures /\ unreliable' = unreliable + 1
    /\ \/ req[r].at = "stamped" /\ (Enter(r) \/ UNCHANGED hits)
       \/ req[r].at = "giveback" /\ UNCHANGED hits
    /\ Goto(r, "unavailable")
    /\ UNCHANGED <<now, keys, promise, broken>>

(* The handlers.  Revoking is one UPDATE of a live row.                    *)
Handle(r) ==
    /\ req[r].at = "handler"
    /\ keys' = CASE req[r].call.to = "revoke" /\ keys[req[r].call.key] = "live" ->
                        [keys EXCEPT ![req[r].call.key] = "revoked"]
                 [] req[r].call.to = "create" /\ keys[req[r].call.key] = "absent" ->
                        [keys EXCEPT ![req[r].call.key] = "live"]
                 [] OTHER -> keys
    /\ Goto(r, "served")
    /\ UNCHANGED <<now, hits, promise, broken, unreliable>>

AccessNext ==
    \/ Tick
    \/ \E r \in Request : \E c \in Call[r] : Authenticate(r, c)
    \/ \E r \in Request : \/ HitServed(r) \/ HitDenied(r)
                          \/ GiveBack(r) \/ StoreFails(r) \/ Handle(r)

AccessSpec == AccessInit /\ [][AccessNext]_accessVars

----------------------------------------------------------------------------
Passed(r) == req[r].at \in {"handler", "served"}
WindowUpTo(r) == {q \in Request : /\ Passed(q) /\ req[q].call.by = req[r].call.by
                                /\ req[q].stamp <= req[r].stamp
                                /\ req[q].stamp > req[r].stamp - Window}

(* WindowHolds: no window of one identity holds more served requests than  *)
(* the budget, however the replicas' calls interleave, unless one of them  *)
(* was overtaken on its way to Redis by a request with a later time, whose *)
(* MULTI aged out hits that the earlier one still had to count             *)
(* (redis-store.ts:9-10: "The whole window is exact").                       *)
WindowHolds ==
    \A r \in Request : Passed(r) =>
        \/ Cardinality(WindowUpTo(r)) <= Limit
        \/ \E q \in WindowUpTo(r) : req[q].late

(* RetryAfterSuffices: a request that comes at the time Retry-After named, *)
(* with no other hit let in since and no other denied one still in the     *)
(* set, is let through, unless a failed call left a hit behind, the denied *)
(* one was overtaken, or the hit its answer was reckoned from was itself   *)
(* one being denied (store.ts:9, "How long until a retry can succeed").    *)
RetryAfterSuffices == unreliable = 0 => broken = {}
============================================================================
