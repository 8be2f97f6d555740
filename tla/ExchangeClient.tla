--------------------------- MODULE ExchangeClient ---------------------------
(***************************************************************************)
(* The exchange with any client on the order service, and what must be     *)
(* true of it.  The wire allows more than the strategy in this repository  *)
(* sends: limit orders anywhere, cancels, modifies.                        *)
(***************************************************************************)
EXTENDS Exchange

CONSTANTS
  MaxCommands,  \* bound: commands the client sends
  OrderQtys     \* quantities it asks for

ASSUME ClientAssumption == OrderQtys \subseteq 0..MaxQty /\ MinPrice <= MaxPrice

VARIABLES
  commands,  \* commands sent so far
  ordered    \* history: per strategy id, the quantity ever submitted under it

clientVars == <<commands, ordered>>
vars == <<exchangeVars, toExecution, clientVars>>

AnyPx == CHOOSE p \in Prices : TRUE

New(id, side, qty) ==
  {[action |-> "new", id |-> id, side |-> side, type |-> "market", px |-> AnyPx, qty |-> qty]}
  \cup {[action |-> "new", id |-> id, side |-> side, type |-> "limit", px |-> p, qty |-> qty] :
          p \in Prices}

CancelOf(id) == [action |-> "cancel", id |-> id, side |-> "buy", type |-> "limit",
                 px |-> AnyPx, qty |-> 0]

\* Ids are numbered from 1 up, and used for one new order each.
NextId == {id \in StrategyIds : ordered[id] = 0 /\
             \A other \in StrategyIds : other < id => ordered[other] > 0}

Issue(c) ==
  /\ toExchange' = Delivered(toExchange, c)
  /\ ordered' = [ordered EXCEPT ![c.id] = @ + c.qty]

\* A call into the book does not look at the queue: what is sent during one
\* might as well be sent right after it.  Reports and ticks are left in their
\* queues, which lose the oldest.
ClientSend ==
  /\ Idle
  /\ commands < MaxCommands
  /\ commands' = commands + 1
  /\ \E side \in Side, qty \in OrderQtys :
       \/ \E id \in NextId : \E c \in New(id, side, qty) : Issue(c)
       \/ \E id \in {i \in StrategyIds : ordered[i] > 0} : \E c \in New(id, side, qty) :
            Issue([c EXCEPT !.action = "modify"])
       \/ \E id \in {i \in StrategyIds : ordered[i] > 0} : Issue(CancelOf(id))
  /\ UNCHANGED <<bookVars, xpc, matchVars, roundVars, topVars, reports, tally>>

Init ==
  /\ BusInit
  /\ ExchangeInit
  /\ commands = 0
  /\ ordered = [id \in StrategyIds |-> 0]

Next ==
  /\ \/ ExchangeNext /\ UNCHANGED clientVars
     \/ ClientSend
  /\ UNCHANGED toExecution

\* The exchange is a process that keeps running; the client owes nothing.
Spec == Init /\ [][Next]_vars /\ WF_vars(ExchangeNext /\ UNCHANGED <<clientVars, toExecution>>)

----------------------------------------------------------------------------
\* The variables of the process have their types, and a report says "partial"
\* exactly while it carries a remainder.
TypeOK ==
  /\ xpc \in {"prime", "orders", "replace", "fills", "ask", "churn", "cross", "prune",
              "makers", "top", "notify", "loop"}
  /\ cmd \in Command \cup {None}
  /\ toExchange \in Seq(Command)
  /\ reports \in Seq(ReportType)
  /\ \A i \in DOMAIN reports : reports[i].status = 2 <=> reports[i].left = 0
  /\ sent \in 0..Len(fills)
  /\ live \subseteq SynIds
  /\ rounds \in 0..MaxRounds
  /\ Len(ticks) <= Capacity /\ Len(reports) <= Capacity /\ Len(toExchange) <= Capacity

\* The participants never lose track of an order of theirs: whatever synthetic
\* order rests is in `live` and so can be cancelled, and after a round nothing
\* else is, so `live` cannot outgrow the book (exchange.rs:184-186).
LiveExact ==
  Idle =>
    LET resting == {id \in SynIds : IsResting(id)}
    IN  resting \subseteq live /\ (At("makers") => live = resting)

\* After each turn of the loop the last market data published is the top of the
\* book, however it moved: by a strategy order, a quote, a churn, a cross.
TopIsCurrent ==
  At("loop") /\ rounds > PrimeRounds =>
    /\ lastBid = BestOrZero("buy") /\ lastAsk = BestOrZero("sell")
    /\ ticks # <<>> => Last(ticks).bid = lastBid /\ Last(ticks).ask = lastAsk

\* Nothing executed goes unreported or is reported twice: once a turn's reports
\* are out, the quantity reported for an order is the quantity executed for it,
\* but for what it made for another strategy order.
ReportsComplete ==
  \A id \in StrategyIds :
    /\ tally[id].reported <= tally[id].executed - tally[id].selfMade
    /\ At("orders") \/ At("top") =>
         tally[id].reported = tally[id].executed - tally[id].selfMade

\* No order executes for more than what was asked for under its id.
ExecutedWithinOrdered == \A id \in StrategyIds : tally[id].executed <= ordered[id]

\* A command that reached the exchange is matched and its reports are sent: no
\* round, no burst of market data and no book keeps the loop from it.
CommandsHandled == toExchange # <<>> ~> (At("orders") /\ toExchange = <<>>)
=============================================================================
