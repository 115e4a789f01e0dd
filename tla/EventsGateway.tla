--------------------------- MODULE EventsGateway ---------------------------
(***************************************************************************)
(* The live feed (apps/api-gateway/src/ws): clients connect, authenticate  *)
(* asynchronously, subscribe to topics, receive events and are probed by a *)
(* heartbeat.  A socket may close or fall silent at any moment, a command  *)
(* may arrive before the authentication has ended, and a credential check  *)
(* that rejects ends the process (its promise has no handler).             *)
(***************************************************************************)
EXTENDS Naturals, FiniteSets

CONSTANTS Client,       \* a socket; a client that comes back is another one
          Topic,
          Readers,      \* clients whose principal has the scope `read`
          MaxBuffered,  \* frames above which a consumer is slow
          MaxEvents, MaxRejections

ASSUME FeedAssumption ==
    Readers \subseteq Client /\ MaxBuffered \in Nat /\ MaxEvents \in Nat /\ MaxRejections \in Nat

VARIABLES
    socket,      \* Client -> state of the connection as the server sees it
    peer,        \* clients whose other end is still there
    auth,        \* Client -> the credential check
    clients,     \* #clients: the registered ones
    topics,      \* Client -> ClientState.topics
    alive,       \* clients whose ClientState.isAlive is set
    pinged,      \* clients with a ping to answer
    buffered,    \* Client -> frames not yet read by the peer
    waiting,     \* Client -> command held back until the check ends
    answers,     \* Client -> the last answer to a command
    fanned,      \* events fanned out so far
    rejections   \* credential checks that rejected so far
feedVars == <<socket, peer, auth, clients, topics, alive, pinged, buffered, waiting,
              answers, fanned, rejections>>

Verb == {"subscribe", "unsubscribe"}
Command == [verb : Verb, topic : Topic]
None == [verb |-> "none"]
Answer == {"none", "ok", "forbidden", "unauthorized"}

FeedTypeOK ==
    /\ socket \in [Client -> {"none", "open", "closing", "closed"}]
    /\ peer \subseteq Client
    /\ auth \in [Client -> {"none", "pending", "granted", "refused"}]
    /\ clients \subseteq Client /\ alive \subseteq Client /\ pinged \subseteq Client
    /\ topics \in [Client -> SUBSET Topic]
    /\ buffered \in [Client -> 0..(MaxBuffered + 1)]
    /\ waiting \in [Client -> Command \cup {None}]
    /\ answers \in [Client -> Answer]
    /\ fanned \in 0..MaxEvents /\ rejections \in 0..MaxRejections

FeedInit ==
    /\ socket = [c \in Client |-> "none"] /\ peer = {}
    /\ auth = [c \in Client |-> "none"]
    /\ clients = {} /\ alive = {} /\ pinged = {}
    /\ topics = [c \in Client |-> {}] /\ buffered = [c \in Client |-> 0]
    /\ waiting = [c \in Client |-> None] /\ answers = [c \in Client |-> "none"]
    /\ fanned = 0 /\ rejections = 0

----------------------------------------------------------------------------
Connect(c) ==
    /\ socket[c] = "none"
    /\ socket' = [socket EXCEPT ![c] = "open"] /\ peer' = peer \cup {c}
    /\ auth' = [auth EXCEPT ![c] = "pending"]
    /\ UNCHANGED <<clients, topics, alive, pinged, buffered, waiting, answers, fanned, rejections>>

(* The check ends with a principal: the client is registered, even one     *)
(* whose socket has closed meanwhile                                       *)
Grant(c) ==
    /\ auth[c] = "pending"
    /\ auth' = [auth EXCEPT ![c] = "granted"]
    /\ clients' = clients \cup {c} /\ alive' = alive \cup {c}
    /\ UNCHANGED <<socket, peer, topics, pinged, buffered, waiting, answers, fanned, rejections>>

Refuse(c) ==
    /\ auth[c] = "pending"
    /\ auth' = [auth EXCEPT ![c] = "refused"]
    /\ socket' = [socket EXCEPT ![c] = IF @ = "open" THEN "closing" ELSE @]
    /\ UNCHANGED <<peer, clients, topics, alive, pinged, buffered, waiting, answers, fanned,
                   rejections>>

(* The check rejects: nothing handles the promise of handleConnection, and *)
(* the process ends with all its sockets; its successor starts afresh      *)
CheckRejects(c) ==
    /\ auth[c] = "pending"
    /\ rejections < MaxRejections /\ rejections' = rejections + 1
    /\ socket' = [d \in Client |-> IF socket[d] = "none" THEN "none" ELSE "closed"]
    /\ peer' = {} /\ clients' = {} /\ alive' = {} /\ pinged' = {}
    /\ auth' = [d \in Client |-> IF auth[d] = "none" THEN "none" ELSE "refused"]
    /\ topics' = [d \in Client |-> {}] /\ buffered' = [d \in Client |-> 0]
    /\ waiting' = [d \in Client |-> None]
    /\ UNCHANGED <<answers, fanned>>

(* The close event: handleDisconnect forgets the client and its check,     *)
(* which goes on                                                           *)
Disconnect(c) ==
    /\ socket[c] \in {"open", "closing"}
    /\ socket' = [socket EXCEPT ![c] = "closed"] /\ peer' = peer \ {c}
    /\ clients' = clients \ {c}
    /\ UNCHANGED <<auth, topics, alive, pinged, buffered, waiting, answers, fanned, rejections>>

(* The peer is gone and no close event comes (a cable, a sleeping laptop) *)
Vanish(c) ==
    /\ c \in peer /\ peer' = peer \ {c}
    /\ UNCHANGED <<socket, auth, clients, topics, alive, pinged, buffered, waiting, answers,
                   fanned, rejections>>

----------------------------------------------------------------------------
(* What a command does once the client's state is known *)
Obey(c, m) ==
    IF m.verb = "unsubscribe"
    THEN /\ topics' = [topics EXCEPT ![c] = @ \ {m.topic}]
         /\ answers' = [answers EXCEPT ![c] = "ok"]
    ELSE IF c \in Readers
    THEN /\ topics' = [topics EXCEPT ![c] = @ \cup {m.topic}]
         /\ answers' = [answers EXCEPT ![c] = "ok"]
    ELSE /\ answers' = [answers EXCEPT ![c] = "forbidden"]
         /\ UNCHANGED topics

(* stateFor: the registered state, else the check in flight, else nothing *)
ReceiveAtOnce(c, m) == \* mutant: a command does not wait for the check in flight
    /\ socket[c] = "open" /\ c \in peer /\ waiting[c] = None
    /\ \/ c \in clients /\ Obey(c, m)
       \/ c \notin clients /\ answers' = [answers EXCEPT ![c] = "unauthorized"] /\ UNCHANGED topics
    /\ UNCHANGED <<socket, peer, auth, clients, alive, pinged, buffered, waiting, fanned, rejections>>

Receive(c, m) ==
    /\ socket[c] = "open" /\ c \in peer /\ waiting[c] = None
    /\ \/ c \in clients /\ Obey(c, m) /\ UNCHANGED waiting
       \/ /\ c \notin clients /\ auth[c] = "pending"
          /\ waiting' = [waiting EXCEPT ![c] = m]
          /\ UNCHANGED <<topics, answers>>
       \/ /\ c \notin clients /\ auth[c] # "pending"
          /\ answers' = [answers EXCEPT ![c] = "unauthorized"]
          /\ UNCHANGED <<topics, waiting>>
    /\ UNCHANGED <<socket, peer, auth, clients, alive, pinged, buffered, fanned, rejections>>

(* The held-back command goes on with the state the check returned *)
Resume(c) ==
    /\ waiting[c] # None /\ auth[c] # "pending"
    /\ waiting' = [waiting EXCEPT ![c] = None]
    /\ IF auth[c] = "granted" THEN Obey(c, waiting[c])
       ELSE answers' = [answers EXCEPT ![c] = "unauthorized"] /\ UNCHANGED topics
    /\ UNCHANGED <<socket, peer, auth, clients, alive, pinged, buffered, fanned, rejections>>

(* fanOut: one pass over the registered clients; a consumer that is too    *)
(* far behind is closed and forgotten                                      *)
Listeners(t) == {c \in clients : t \in topics[c] /\ socket[c] = "open"}
Slow(t) == {c \in Listeners(t) : buffered[c] > MaxBuffered}

FanOutForgets(t) == \* mutant: a slow consumer is forgotten and its socket left open
    /\ fanned < MaxEvents /\ fanned' = fanned + 1
    /\ clients' = clients \ Slow(t)
    /\ buffered' = [c \in Client |-> IF c \in Listeners(t) \ Slow(t) THEN buffered[c] + 1
                                     ELSE buffered[c]]
    /\ UNCHANGED <<socket, peer, auth, topics, alive, pinged, waiting, answers, rejections>>

FanOut(t) ==
    /\ fanned < MaxEvents /\ fanned' = fanned + 1
    /\ socket' = [c \in Client |-> IF c \in Slow(t) THEN "closing" ELSE socket[c]]
    /\ clients' = clients \ Slow(t)
    /\ buffered' = [c \in Client |-> IF c \in Listeners(t) \ Slow(t) THEN buffered[c] + 1
                                     ELSE buffered[c]]
    /\ UNCHANGED <<peer, auth, topics, alive, pinged, waiting, answers, rejections>>

Drain(c) ==
    /\ c \in peer /\ buffered[c] > 0
    /\ buffered' = [buffered EXCEPT ![c] = 0]
    /\ UNCHANGED <<socket, peer, auth, clients, topics, alive, pinged, waiting, answers, fanned,
                   rejections>>

(* pingAll: who did not answer the last ping is terminated and forgotten,  *)
(* the others are asked again; terminating raises the close event          *)
Silent == clients \ alive

PingAllTrusting == \* mutant: the answer to an earlier ping counts for ever
    /\ clients # {}
    /\ socket' = [c \in Client |-> IF c \in Silent THEN "closed" ELSE socket[c]]
    /\ peer' = peer \ Silent
    /\ clients' = clients \ Silent
    /\ pinged' = pinged \cup (clients \ Silent)
    /\ UNCHANGED <<auth, topics, alive, buffered, waiting, answers, fanned, rejections>>

PingAll ==
    /\ clients # {}
    /\ socket' = [c \in Client |-> IF c \in Silent THEN "closed" ELSE socket[c]]
    /\ peer' = peer \ Silent
    /\ clients' = clients \ Silent
    /\ alive' = alive \ clients /\ pinged' = pinged \cup (clients \ Silent)
    /\ UNCHANGED <<auth, topics, buffered, waiting, answers, fanned, rejections>>

Pong(c) ==
    /\ c \in pinged /\ c \in peer /\ socket[c] = "open"
    /\ pinged' = pinged \ {c} /\ alive' = alive \cup {c}
    /\ UNCHANGED <<socket, peer, auth, clients, topics, buffered, waiting, answers, fanned,
                   rejections>>

FeedNext ==
    \/ PingAll
    \/ \E t \in Topic : FanOut(t)
    \/ \E c \in Client : \/ Connect(c) \/ Grant(c) \/ Refuse(c) \/ CheckRejects(c)
                         \/ Disconnect(c) \/ Vanish(c) \/ Resume(c) \/ Drain(c) \/ Pong(c)
                         \/ \E m \in Command : Receive(c, m)

FeedSpec == FeedInit /\ [][FeedNext]_feedVars

(* The heartbeat is an interval timer, a check ends, and what waited for   *)
(* it goes on; nothing is assumed of clients and events                    *)
FeedFairness ==
    /\ WF_feedVars(PingAll)
    /\ \A c \in Client : WF_feedVars(Grant(c) \/ Refuse(c)) /\ WF_feedVars(Resume(c))

----------------------------------------------------------------------------
(* RefusedOnlyWithCause: a client that sends a command right after `open`  *)
(* is not told that it is not authenticated while its connection stands    *)
(* and its check has not failed: between the end of the check and its      *)
(* removal from the map there is no gap (events.gateway.ts:67-69).         *)
RefusedOnlyWithCause ==
    \A c \in Client : answers[c] = "unauthorized" => auth[c] = "refused" \/ socket[c] # "open"

(* SubscribedMeansFed: an open connection whose state holds a topic is a   *)
(* registered client, which fanOut reaches: no command that was held back, *)
(* heartbeat or slow consumer leaves a subscription that receives nothing. *)
SubscribedMeansFed ==
    \A c \in Client : topics[c] # {} /\ socket[c] = "open" => c \in clients /\ c \in Readers

(* GhostsReaped: a registered client whose connection is closed, or whose  *)
(* peer is gone for good, does not stay registered, also one registered    *)
(* only after it had disconnected (events.gateway.ts:118, 206-214).        *)
GhostsReaped == \A c \in Client : (c \in clients /\ c \notin peer) ~> (c \notin clients)
============================================================================
