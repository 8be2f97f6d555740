------------------------------ MODULE Pipeline ------------------------------
(***************************************************************************)
(* The three stages on the bus: exchange, strategy, execution, each its    *)
(* own process, interleaved step by step.                                  *)
(***************************************************************************)
EXTENDS Exchange, StrategyProcess, Execution

ASSUME PipelineAssumption ==
  TrackedIds = StrategyIds /\ \A s \in Settings : 1..s.maxOrders \subseteq StrategyIds

\* An empty side is priced 0, which a passive order may be sent at.
ASSUME OrderAssumption == 0 \in Prices /\ OrderQty <= MaxQty

VARIABLE placed   \* history: side of each order sent, or "none"

vars == <<exchangeVars, strategyVars, executionVars, toExecution, placed, env>>

Init ==
  /\ BusInit
  /\ ExchangeInit
  /\ StrategyInit
  /\ ExecutionInit
  /\ EnvInit
  /\ placed = [id \in StrategyIds |-> "none"]

ExchangeTurn == ExchangeNext /\ UNCHANGED <<strategyVars, executionVars, toExecution, placed>>

StrategyTurn ==
  /\ StrategyNext
  /\ placed' = IF orderId' = orderId THEN placed
               ELSE [placed EXCEPT ![orderId'] = Last(toExchange').side]
  /\ UNCHANGED <<bookVars, xpc, matchVars, roundVars, lastBid, lastAsk, reports, tally,
                 executionVars>>

ExecutionTurn ==
  /\ ExecutionNext
  /\ UNCHANGED <<bookVars, xpc, matchVars, roundVars, topVars, toExchange, tally,
                 strategyVars, placed>>

Next == (ExchangeTurn \/ StrategyTurn \/ ExecutionTurn) /\ UNCHANGED env

\* Every process is pinned to a core of its own and keeps running.
Spec ==
  /\ Init
  /\ [][Next]_vars
  /\ WF_vars(ExchangeTurn /\ UNCHANGED env)
  /\ WF_vars(StrategyTurn /\ UNCHANGED env)
  /\ WF_vars(ExecutionTurn /\ UNCHANGED env)

----------------------------------------------------------------------------
InFlight(id) ==
  SumFunction([i \in DOMAIN reports |-> If(reports[i].id = id, reports[i].qty)])

\* The signed sum of a quantity per order, each with the side it was sent with.
SignedSum(qtys) ==
  SumFunctionOnSet([id \in StrategyIds |-> Signed(placed[id], qtys[id])],
                   {id \in StrategyIds : placed[id] # "none"})

\* Every variable of the strategy and the execution stage has its type.
TypeOK ==
  /\ spc \in {"receive", "blocked", "stopped"}
  /\ position \in Int /\ orderId \in 0..env.maxOrders
  /\ epc \in {"drain", "report", "stopped"}
  /\ ctx \subseteq [id : StrategyIds, side : Side]
  /\ \A x, y \in ctx : x.id = y.id => x = y
  /\ held \in Int /\ completed \in 0..env.maxOrders
  /\ Len(toExecution) <= Capacity /\ Len(toExchange) <= Capacity /\ Len(reports) <= Capacity

\* No fill is booked twice and none is invented on the way: what the exchange
\* reported of an order is booked, skipped for want of a context, lost by a
\* full queue, or still in flight; and the exchange reports at most what the
\* book executed, which is at most what the order asked for.
FillsConserved ==
  \A id \in StrategyIds :
    /\ tally[id].reported =
         booked[id].qty + booked[id].skipped + tally[id].lost + InFlight(id)
    /\ tally[id].reported <= tally[id].executed
    /\ tally[id].executed <= OrderQty
    /\ placed[id] = "none" => tally[id].executed = 0

\* The position the execution stage holds is the signed sum of what it booked,
\* each order with the side it was sent with.
HeldIsBooked == held = SignedSum([id \in StrategyIds |-> booked[id].qty])

\* A terminal report of an order is its last: the order has executed in full and
\* nothing more of it will ever be reported or booked.
TerminalIsFinal ==
  \A id \in StrategyIds :
    /\ booked[id].terminal <= 1
    /\ booked[id].terminal = 1 =>
         tally[id].executed = OrderQty /\ InFlight(id) = 0

\* So it is for market orders; for passive ones see the end of this module.
MarketTerminalIsFinal == ~env.passive => TerminalIsFinal

\* At most one order per command: the book is only asked to add an order whose
\* id is not in it, which is what Book::submit relies on.
FreshOrders ==
  \A i \in DOMAIN toExchange :
    /\ ~IsResting(toExchange[i].id)
    /\ tally[toExchange[i].id].executed = 0
    /\ \A j \in DOMAIN toExchange : toExchange[i].id = toExchange[j].id => i = j

\* What the book executes is settled in the end: every unit of it that is due
\* a report is booked, skipped or lost, and nothing stays on the way for ever.
AllSettled ==
  \A id \in StrategyIds :
    tally[id].executed - tally[id].selfMade =
      booked[id].qty + booked[id].skipped + tally[id].lost

FillsSettle == ~AllSettled ~> (AllSettled \/ epc = "stopped")

\* A tick that reaches the strategy is read, or overwritten by newer ones that
\* are: the strategy does not sleep while market data waits for it.
TicksAreRead == ticks # <<>> ~> (ticks = <<>> \/ spc = "stopped")

----------------------------------------------------------------------------
(* What comments of the code say of the pipeline, and the code does not do. *)

\* execution.rs:106: pending orders are drained first "so a fill always finds
\* its context".
FillFindsContext == \A id \in StrategyIds : booked[id].skipped = 0

\* strategy.rs:133-136: the position limit "keeps the book bounded regardless
\* of how strong the signal is".  The position is what the book has executed.
NetExecuted == SignedSum([id \in StrategyIds |-> tally[id].executed])

PositionBounded == WithinLimit(NetExecuted)
=============================================================================
