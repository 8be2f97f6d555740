-------------------------- MODULE StrategyProcess --------------------------
(***************************************************************************)
(* The strategy process: src/src/bin/strategy.rs, from `market ticks in`   *)
(* to `order out`.  What the signals say of a price is any of buy, sell    *)
(* and hold; what is modelled is everything the loop does with the answer: *)
(* the position limit, the order's price and type, and how the loop waits. *)
(*                                                                         *)
(* Left out: SIGINT, the latency windows, and the order event (it only     *)
(* shortens a timed wait of the exchange).                                 *)
(***************************************************************************)
EXTENDS Bus, Settings, PositionLimit

CONSTANT OrderQty   \* order_qty

ASSUME SizeAssumption == OrderQty \in Nat \ {0}

VARIABLES
  spc,        \* "receive", "blocked" on the listener, or "stopped"
  position,   \* net units the strategy intends to hold
  orderId     \* id of the last order, and how many were sent

strategyVars == <<spc, position, orderId>>

StrategyInit == spc = "receive" /\ position = 0 /\ orderId = 0

\* The near touch, or the last price when that side of the book is empty.
TouchOrPrice(side, tick) ==
  LET touch == IF side = "buy" THEN tick.bid ELSE tick.ask
  IN  IF touch # 0 THEN touch ELSE tick.price

NewOrder(id, side, tick) ==
  [action |-> "new", id |-> id, side |-> side, qty |-> OrderQty,
   type |-> IF env.passive THEN "limit" ELSE "market",
   px   |-> IF env.passive THEN TouchOrPrice(side, tick) ELSE tick.price]

\* Variant: the id is never incremented.
SameOrderId == 1

NextOrderId == orderId + 1

\* Variant: one order too many.
StopsLate(n) == n > env.maxOrders

StopsAt(n) == n >= env.maxOrders

ReceiveTick ==
  /\ spc = "receive"
  /\ ticks # <<>>
  /\ ticks' = Tail(ticks)

\* The heartbeat, at every 50,000th tick: it may find the time cap reached, and the
\* loop then ends, after an order that the tick brings.
OutOfTime == {FALSE, env.timeCap}

\* The signals say hold, or the position limit suppresses the order they want.
TakeNoOrder ==
  /\ ReceiveTick
  /\ \E ends \in OutOfTime : spc' = IF ends THEN "stopped" ELSE "receive"
  /\ UNCHANGED <<position, orderId, toExchange, toExecution>>

\* An order within the limit counts as position the moment it is decided.
SendOrder(side) ==
  /\ ReceiveTick
  /\ WithinLimit(position + Delta(side))
  /\ position' = position + Delta(side)
  /\ orderId' = NextOrderId
  /\ LET order == NewOrder(orderId', side, Head(ticks))
     IN  /\ toExchange'  = Delivered(toExchange, order)
         /\ toExecution' = Delivered(toExecution, order)
  /\ \E ends \in OutOfTime : spc' = IF ends \/ StopsAt(orderId') THEN "stopped" ELSE "receive"

\* No tick: in waitset mode, wait for the market event; in poll mode, spin.
Block ==
  /\ env.waitset
  /\ spc = "receive"
  /\ ticks = <<>>
  /\ spc' = "blocked"
  /\ UNCHANGED <<position, orderId, ticks, toExchange, toExecution, tickEvent>>

WakeUp ==
  /\ spc = "blocked"
  /\ tickEvent
  /\ tickEvent' = FALSE
  /\ spc' = "receive"
  /\ UNCHANGED <<position, orderId, ticks, toExchange, toExecution>>

StrategyNext ==
  \/ (TakeNoOrder \/ \E side \in {"buy", "sell"} : SendOrder(side)) /\ UNCHANGED tickEvent
  \/ Block
  \/ WakeUp
=============================================================================
