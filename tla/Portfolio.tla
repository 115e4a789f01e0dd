----------------------------- MODULE Portfolio -----------------------------
(***************************************************************************)
(* The gateway's read-model of trades (apps/api-gateway/src/portfolio):    *)
(* every trade.executed is appended to a log and then folded into the      *)
(* position book, by whichever replica of the group the bus gives it to.   *)
(* The analytics fold the log again, and the trades are read page by page. *)
(* The bus hands an entry out once (RedisEventBus), so a handler that      *)
(* fails leaves its entry unhandled.                                       *)
(*                                                                         *)
(* One token and one book; trades are numbered by their id, which says     *)
(* nothing of their order.                                                 *)
(***************************************************************************)
EXTENDS Integers, Sequences, FiniteSets, SequencesExt

CONSTANTS Trades,     \* id -> [side, in, out, at]: amounts and occurredAt
          Stream,     \* the ids in the order in which they were published
          Replica,    \* gateway processes in the group
          NoPosition,
          PageSize, MaxFailures

Trade == DOMAIN Trades

ASSUME PortfolioAssumption ==
    /\ Trade \subseteq Nat \ {0} /\ IsFiniteSet(Trade)
    /\ Trades \in [Trade -> [side : {"buy", "sell"}, in : Nat \ {0}, out : Nat \ {0}, at : Nat]]
    /\ Stream \in Seq(Trade) /\ PageSize \in Nat \ {0} /\ MaxFailures \in Nat

VARIABLES
    next,      \* entries of the stream the ingestors' group has read
    log,       \* trade_history
    book,      \* the row of portfolio_positions, or NoPosition
    work,      \* Replica -> the handler of PortfolioIngestor
    reader,    \* a client that reads the whole log page by page
    folded,    \* history: the trades folded, in order
    gains,     \* history: PnL realized by these folds
    raced,     \* history: has a book been written over a newer one?
    lost,      \* history: trades whose handler failed
    failures
ingest == <<next, log, book, work, folded, gains, raced, lost>>
portfolioVars == <<ingest, reader, failures>>

Idle == [pc |-> "idle"]
Position == [amount : Nat, cost : Nat, pnl : Int]
NotReading == [pc |-> "idle"]

PortfolioTypeOK ==
    /\ next \in 0..Len(Stream)
    /\ log \subseteq Trade /\ lost \subseteq Trade
    /\ book \in Position \cup {NoPosition}
    /\ \A r \in Replica : work[r] = Idle \/ work[r].pc \in {"append", "read", "write"}
    /\ folded \in Seq(Trade) /\ gains \in Int /\ raced \in BOOLEAN
    /\ failures \in 0..MaxFailures

PortfolioInit ==
    /\ next = 0 /\ log = {} /\ book = NoPosition
    /\ work = [r \in Replica |-> Idle] /\ reader = NotReading
    /\ folded = <<>> /\ gains = 0 /\ raced = FALSE /\ lost = {} /\ failures = 0

----------------------------------------------------------------------------
(* applyTrade: what a trade makes of a position, and the PnL it realizes *)
Opened == [amount |-> 0, cost |-> 0, pnl |-> 0]
Bought(p, t) == [p EXCEPT !.amount = @ + Trades[t].out, !.cost = @ + Trades[t].in]
SoldOf(p, t) == IF Trades[t].in <= p.amount THEN Trades[t].in ELSE p.amount
Gain(p, t) == IF Trades[t].side = "buy" \/ p = NoPosition THEN 0
              ELSE Trades[t].out - (p.cost * SoldOf(p, t)) \div p.amount
Sold(p, t) == [amount |-> p.amount - SoldOf(p, t),
               cost |-> p.cost - (p.cost * SoldOf(p, t)) \div p.amount,
               pnl |-> p.pnl + Gain(p, t)]

Fold(p, t) ==
    CASE Trades[t].side = "buy" -> Bought(IF p = NoPosition THEN Opened ELSE p, t)
      [] Trades[t].side = "sell" /\ p # NoPosition /\ SoldOf(p, t) < p.amount -> Sold(p, t)
      [] OTHER -> NoPosition

(* computeAnalytics: the log folded again, oldest first (listAll: trades   *)
(* of one time come in any order)                                          *)
NewestFirst(S) == \* mutant: the log is folded in the order in which it is listed
    CHOOSE s \in SetToSeqs(S) : \A i, j \in DOMAIN s : i < j => Trades[s[i]].at >= Trades[s[j]].at
Chronological(S) ==
    CHOOSE s \in SetToSeqs(S) : \A i, j \in DOMAIN s : i < j => Trades[s[i]].at <= Trades[s[j]].at
Account(a, t) == [position |-> Fold(a.position, t), gains |-> a.gains + Gain(a.position, t)]
Analytics(s) == FoldLeft(Account, [position |-> NoPosition, gains |-> 0], s)

----------------------------------------------------------------------------
(* The group gives the next entry to an idle replica *)
HandOut(r) ==
    /\ work[r] = Idle /\ next < Len(Stream)
    /\ next' = next + 1
    /\ work' = [work EXCEPT ![r] = [pc |-> "append", trade |-> Stream[next + 1]]]
    /\ UNCHANGED <<log, book, folded, gains, raced, lost, reader, failures>>

(* history.append: a second row of the same id is not inserted *)
AppendToHistory(r) ==
    /\ work[r].pc = "append"
    /\ log' = log \cup {work[r].trade}
    /\ work' = [work EXCEPT ![r].pc = "read"]
    /\ UNCHANGED <<next, book, folded, gains, raced, lost, reader, failures>>

(* applyTrade reads the row, and writes or removes it in a later call *)
Read(r) ==
    /\ work[r].pc = "read"
    /\ work' = [work EXCEPT ![r] = [pc |-> "write", trade |-> @.trade, was |-> book]]
    /\ UNCHANGED <<next, log, book, folded, gains, raced, lost, reader, failures>>

WriteUnremoved(r) == \* mutant: the row of a position sold out is not removed
    LET w == work[r]
    IN /\ w.pc = "write"
       /\ book' = IF Fold(w.was, w.trade) = NoPosition THEN book ELSE Fold(w.was, w.trade)
       /\ raced' = (raced \/ w.was # book)
       /\ folded' = Append(folded, w.trade) /\ gains' = gains + Gain(w.was, w.trade)
       /\ work' = [work EXCEPT ![r] = Idle]
       /\ UNCHANGED <<next, log, lost, reader, failures>>

Write(r) ==
    LET w == work[r]
    IN /\ w.pc = "write"
       /\ book' = Fold(w.was, w.trade)
       /\ raced' = (raced \/ w.was # book)
       /\ folded' = Append(folded, w.trade) /\ gains' = gains + Gain(w.was, w.trade)
       /\ work' = [work EXCEPT ![r] = Idle]
       /\ UNCHANGED <<next, log, lost, reader, failures>>

(* A call rejects, or the replica dies: the entry is not handed out again *)
HandlerFails(r) ==
    /\ work[r] # Idle
    /\ failures < MaxFailures /\ failures' = failures + 1
    /\ lost' = lost \cup {work[r].trade}
    /\ work' = [work EXCEPT ![r] = Idle]
    /\ UNCHANGED <<next, log, book, folded, gains, raced, reader>>

----------------------------------------------------------------------------
(* list(): newest first, ids descending within one time, after the cursor  *)
NewerByTime(t, u) == Trades[t].at > Trades[u].at \* mutant: the cursor is a time only
Newer(t, u) == Trades[t].at > Trades[u].at \/ (Trades[t].at = Trades[u].at /\ t > u)
After(cursor) == IF cursor = 0 THEN log ELSE {t \in log : Newer(cursor, t)}
Listed(S) == CHOOSE s \in SetToSeqs(S) : \A i, j \in DOMAIN s : i < j => ~Newer(s[j], s[i])

FirstPage ==
    /\ reader = NotReading
    /\ reader' = [pc |-> "reading", present |-> log, items |-> <<>>, cursor |-> 0]
    /\ UNCHANGED <<ingest, failures>>

NextPage ==
    /\ reader.pc = "reading"
    /\ LET rows == Listed(After(reader.cursor))
           more == Len(rows) > PageSize
           page == IF more THEN SubSeq(rows, 1, PageSize) ELSE rows
       IN reader' = [reader EXCEPT !.items = @ \o page,
                                   !.pc = IF more THEN "reading" ELSE "done",
                                   !.cursor = IF more THEN Last(page) ELSE @]
    /\ UNCHANGED <<ingest, failures>>

PortfolioNext ==
    \/ FirstPage \/ NextPage
    \/ \E r \in Replica : \/ HandOut(r) \/ AppendToHistory(r) \/ Read(r) \/ Write(r)
                         \/ HandlerFails(r)

PortfolioSpec == PortfolioInit /\ [][PortfolioNext]_portfolioVars

----------------------------------------------------------------------------
(* BookMatchesFolds: unless a write fell on a row another replica had      *)
(* changed since it was read, the book is exactly the fold of the trades   *)
(* whose handler ended, and so are the gains: a failure at any call leaves *)
(* no trade half folded (ingestor.ts:40-41).                               *)
BookMatchesFolds ==
    raced \/ [position |-> book, gains |-> gains] = Analytics(folded)

(* AnalyticsAgree: book and analytics, which fold the same trades apart,   *)
(* agree when all is quiet, unless a handler failed, two replicas raced,   *)
(* or trades were folded in another order than that of their times         *)
(* (ingestor.ts:22: "each trade is folded exactly once").                  *)
AnalyticsAgree ==
    \/ raced \/ lost # {} \/ \E r \in Replica : work[r] # Idle
    \/ \E i, j \in 1..Len(folded) : i < j /\ Trades[folded[i]].at >= Trades[folded[j]].at
    \/ [position |-> book, gains |-> gains] = Analytics(Chronological(log))

(* PagesComplete: a client that follows the cursors to the end has every   *)
(* trade of the log it started from exactly once, newest first, whatever   *)
(* is appended meanwhile, also among trades of one time                    *)
(* (postgres-repositories.ts:198-229).                                     *)
PagesComplete ==
    reader.pc = "done" =>
        /\ \A t \in reader.present : \E i \in 1..Len(reader.items) : reader.items[i] = t
        /\ \A i, j \in 1..Len(reader.items) : i < j => Newer(reader.items[i], reader.items[j])
============================================================================
