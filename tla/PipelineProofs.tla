--------------------------- MODULE PipelineProofs ---------------------------
(***************************************************************************)
(* Proofs about the three stages on the bus, for every set of ids, range   *)
(* of prices, queue capacity, order quantity and setting: market orders or *)
(* passive ones, a strategy that spins or blocks, any limit of orders.     *)
(***************************************************************************)
EXTENDS Pipeline, ExchangeLemmas

----------------------------------------------------------------------------
(* The inductive invariant *)

\* What the strategy sends: a new order under an id that is its own.
Order ==
  {c \in Command : /\ c.action = "new" /\ c.qty = OrderQty
                   /\ placed[c.id] = c.side
                   /\ ~env.passive => c.type = "market"}

\* The strategy numbers its orders from 1 up, and stops at the last.
StrategyHolds ==
  /\ env \in Settings
  /\ spc \in {"receive", "blocked", "stopped"}
  /\ position \in Int
  /\ orderId \in 0..env.maxOrders
  /\ spc # "stopped" => orderId < env.maxOrders
  /\ placed \in [StrategyIds -> Side \cup {"none"}]
  /\ \A id \in StrategyIds : placed[id] # "none" <=> id \in 1..orderId

\* Both subscribers of the order service receive orders and nothing else.
OrdersHold ==
  /\ toExchange \in Seq(Order)
  /\ toExecution \in Seq(Order) /\ Len(toExecution) <= Capacity
  /\ xpc # "replace"

\* What may be executed under an id.
Placed == [id \in StrategyIds |-> IF placed[id] = "none" THEN 0 ELSE OrderQty]

Booking == [qty : Nat, skipped : Nat, terminal : Nat]

\* The execution stage's contexts are sides of orders sent, and each order is
\* completed, has a context, or is still to be read, once at most.
ContextHolds ==
  /\ epc \in {"drain", "report", "stopped"}
  /\ held \in Int /\ completed \in Nat
  /\ booked \in [StrategyIds -> Booking]
  /\ ctx \subseteq [id : StrategyIds, side : Side] /\ IsFiniteSet(ctx)
  /\ \A x, y \in ctx : x.id = y.id => x = y
  /\ \A x \in ctx : placed[x.id] = x.side
  /\ completed + Cardinality(ctx) + Len(toExecution) <= orderId

\* What was reported of an order is booked, skipped, lost or in the queue.
AccountsHold ==
  \A id \in StrategyIds :
    tally[id].reported = booked[id].qty + booked[id].skipped + tally[id].lost + InFlight(id)

\* A market order never rests, so it is never a maker.
NeverMakes ==
  /\ \A id \in StrategyIds : ~IsResting(id) /\ tally[id].selfMade = 0
  /\ \A i \in DOMAIN fills : fills[i].maker \in SynIds

\* While one is matched, what it has left is what it has not executed, and only
\* a fill that leaves nothing is its last.
LeavesNothing ==
  xpc = "fills" =>
    /\ ~Idle => /\ taker.limit = None
                /\ tally[taker.id].executed + taker.left = OrderQty
                /\ \A i \in DOMAIN fills : fills[i].taker = taker.id
    /\ \A i \in DOMAIN fills :
         fills[i].left = 0 => i = Len(fills) /\ tally[fills[i].taker].executed = OrderQty

\* A terminal report is sent when all of its order is reported, so that nothing
\* of it follows, in the queue or after it was booked.
EndsIt ==
  /\ \A i \in DOMAIN reports :
       reports[i].status = 2 =>
         /\ tally[reports[i].id].reported = OrderQty
         /\ \A j \in DOMAIN reports : i < j => reports[j].id # reports[i].id
  /\ \A id \in StrategyIds :
       booked[id].terminal # 0 =>
         /\ booked[id].terminal = 1 /\ tally[id].reported = OrderQty
         /\ \A j \in DOMAIN reports : reports[j].id # id

MarketHolds == ~env.passive => NeverMakes /\ LeavesNothing /\ EndsIt

PipelineInvariant ==
  /\ BookStructure
  /\ LoopTyped
  /\ ControlHolds
  /\ PrimingHolds
  /\ ReportsHold
  /\ ClearedHolds
  /\ StrategyHolds
  /\ OrdersHold
  /\ Within(Placed)
  /\ ContextHolds
  /\ AccountsHold
  /\ HeldIsBooked
  /\ MarketHolds

----------------------------------------------------------------------------
(* The steps of the other two stages *)

\* What the settings allow: ids of the strategy's for all its orders.
LEMMA SettingType ==
  ASSUME StrategyHolds
  PROVE  /\ env.maxOrders \in Nat \ {0} /\ orderId \in Nat
         /\ env.passive \in BOOLEAN
         /\ \A n \in 1..env.maxOrders : n \in StrategyIds
<1>1. env \in Settings /\ orderId \in 0..env.maxOrders
  BY DEF StrategyHolds
<1>2. env.maxOrders \in Nat \ {0} /\ env.passive \in BOOLEAN
  BY <1>1, SettingsAssumption
<1> QED
  BY <1>1, <1>2, PipelineAssumption

\* A tick's prices are prices an order may have.
LEMMA TickPrices ==
  ASSUME NEW t \in Tick
  PROVE  t.price \in Prices /\ \A side : TouchOrPrice(side, t) \in Prices
BY OrderAssumption DEF Tick, Quoted, TouchOrPrice

\* A tick read.
LEMMA TickRead ==
  ASSUME LoopTyped, ReceiveTick
  PROVE  Head(ticks) \in Tick /\ Taken(ticks, ticks') /\ spc = "receive"
BY HeadTailProperties DEF LoopTyped, ReceiveTick, Taken

\* The order the strategy sends.
LEMMA OrderSent ==
  ASSUME LoopTyped, StrategyHolds, NEW side \in Side, SendOrder(side), env' = env,
         placed' = IF orderId' = orderId THEN placed
                   ELSE [placed EXCEPT ![orderId'] = Last(toExchange').side]
  PROVE  \E c \in Command :
           /\ c.id = orderId + 1 /\ c.side = side /\ c.qty = OrderQty /\ c.action = "new"
           /\ ~env.passive => c.type = "market"
           /\ orderId' = orderId + 1 /\ orderId + 1 \in StrategyIds
           /\ orderId < env.maxOrders /\ placed[orderId + 1] = "none"
           /\ placed' = [placed EXCEPT ![orderId + 1] = side]
           /\ toExchange' = Delivered(toExchange, c)
           /\ toExecution' = Delivered(toExecution, c)
<1> DEFINE n == orderId + 1
           c == NewOrder(n, side, Head(ticks))
<1>1. /\ Head(ticks) \in Tick /\ spc = "receive"
      /\ toExchange \in Seq(Command) /\ Len(toExchange) <= Capacity
  BY TickRead DEF SendOrder, LoopTyped
<1>2. orderId' = n /\ toExchange' = Delivered(toExchange, c) /\ toExecution' = Delivered(toExecution, c)
  BY DEF SendOrder, NextOrderId
<1>3. orderId \in Nat /\ orderId < env.maxOrders /\ env.maxOrders \in Nat /\ env.passive \in BOOLEAN
  BY <1>1, SettingType DEF StrategyHolds
<1>4. n \in StrategyIds /\ n # orderId /\ n \notin 1..orderId
  BY <1>3, SettingType
<1>5. placed[n] = "none"
  BY <1>4 DEF StrategyHolds
<1>6. OrderQty \in 0..MaxQty
  BY SizeAssumption, OrderAssumption, MaxQtyAssumption
<1>7. c \in Command /\ c.id = n /\ c.side = side /\ c.qty = OrderQty /\ c.action = "new"
      /\ (~env.passive => c.type = "market")
  BY <1>1, <1>4, <1>6, TickPrices DEF NewOrder, Command
<1> HIDE DEF c
<1>8. Last(toExchange') = c
  BY <1>1, <1>2, <1>7, DeliveredProperties
<1>9. placed' = [placed EXCEPT ![n] = side]
  BY <1>2, <1>4, <1>7, <1>8
<1> QED
  BY <1>2, <1>3, <1>4, <1>5, <1>7, <1>9

\* What else the strategy does: it reads, waits or wakes up.
NoOrder ==
  /\ UNCHANGED <<position, orderId, placed, toExchange, toExecution>>
  /\ Taken(ticks, ticks')
  /\ spc' \in {"receive", "blocked", "stopped"} /\ (spc' # "stopped" => spc # "stopped")

\* A step of the strategy sends an order, or nothing.
LEMMA StrategySteps ==
  ASSUME LoopTyped, StrategyTurn
  PROVE  \/ \E side \in Side : SendOrder(side)
         \/ NoOrder
<1>1. CASE TakeNoOrder
  <2>1. spc' \in {"receive", "stopped"}
    BY <1>1 DEF TakeNoOrder
  <2> QED
    BY <1>1, <2>1, TickRead DEF TakeNoOrder, StrategyTurn, NoOrder
<1>2. CASE Block \/ WakeUp
  BY <1>2 DEF Block, WakeUp, StrategyTurn, NoOrder, Taken
<1> QED
  BY <1>1, <1>2 DEF StrategyTurn, StrategyNext, Side

\* The execution stage takes reports off their queue and touches nothing else of
\* the exchange's; the strategy, nothing but its queue of commands and of ticks.
LEMMA StagesAreOutside ==
  ASSUME LoopTyped, StrategyHolds, env' = env,
         StrategyTurn \/ ExecutionTurn \/ UNCHANGED vars
  PROVE  Outside
<1>1. toExchange \in Seq(Command) /\ Len(toExchange) <= Capacity
  BY DEF LoopTyped
<1>2. CASE StrategyTurn
  <2>1. UNCHANGED <<bookVars, xpc, matchVars, roundVars, lastBid, lastAsk, tally, reports>>
    BY <1>2 DEF StrategyTurn
  <2>2. CASE NoOrder
    BY <1>1, <2>1, <2>2 DEF NoOrder, Outside, Taken
  <2>3. ASSUME NEW side \in Side, SendOrder(side) PROVE Outside
    <3>1. PICK c \in Command : toExchange' = Delivered(toExchange, c)
      BY <1>2, <2>3, OrderSent DEF StrategyTurn
    <3>2. toExchange' \in Seq(Command) /\ Len(toExchange') <= Capacity
      BY <1>1, <3>1, DeliveredProperties
    <3>3. Taken(ticks, ticks')
      BY <2>3, TickRead DEF SendOrder
    <3> QED
      BY <2>1, <3>2, <3>3 DEF Outside, Taken
  <2> QED
    BY <1>2, <2>2, <2>3, StrategySteps
<1>3. CASE ExecutionTurn
  <2>1. UNCHANGED <<bookVars, xpc, matchVars, roundVars, topVars, toExchange, tally>>
    BY <1>3 DEF ExecutionTurn
  <2>2. Taken(reports, reports')
    BY <1>3 DEF ExecutionTurn, ExecutionNext, DrainOrder, Drained, NoReport, SkipReport,
       BookReport, ReceiveReport, Taken
  <2> QED
    BY <1>1, <2>1, <2>2 DEF Outside, Taken, topVars
<1>4. CASE UNCHANGED vars
  BY <1>1, <1>4 DEF vars, exchangeVars, Outside, Taken, topVars
<1> QED
  BY <1>2, <1>3, <1>4

\* Every step of the pipeline is a turn of the exchange or happens outside it.
LEMMA TurnsOfPipeline ==
  ASSUME LoopTyped, StrategyHolds, [Next]_vars
  PROVE  Turn /\ env' = env
<1>1. env' = env
  BY DEF Next, vars
<1> QED
  BY <1>1, StagesAreOutside DEF Next, Turn, ExchangeTurn

----------------------------------------------------------------------------
(* The orders *)

\* Outside the strategy's turns nothing about its orders changes.
LEMMA StrategyStands ==
  ASSUME StrategyHolds, UNCHANGED <<strategyVars, placed, env>>
  PROVE  StrategyHolds'
BY DEF StrategyHolds, strategyVars

\* The strategy numbers its orders in sequence, and stops when they run out.
LEMMA StrategyKept ==
  ASSUME LoopTyped, StrategyHolds, [Next]_vars
  PROVE  StrategyHolds'
<1>1. env' = env
  BY TurnsOfPipeline
<1>2. CASE ExchangeTurn \/ ExecutionTurn \/ UNCHANGED vars
  BY <1>1, <1>2, StrategyStands DEF ExchangeTurn, ExecutionTurn, vars
<1>3. CASE StrategyTurn
  <2>1. CASE NoOrder
    BY <1>1, <2>1 DEF NoOrder, StrategyHolds
  <2>2. ASSUME NEW side \in Side, SendOrder(side) PROVE StrategyHolds'
    <3>1. /\ orderId' = orderId + 1 /\ orderId + 1 \in StrategyIds /\ orderId < env.maxOrders
          /\ placed' = [placed EXCEPT ![orderId + 1] = side]
      BY <1>1, <1>3, <2>2, OrderSent DEF StrategyTurn
    <3>2. /\ env.maxOrders \in Nat /\ orderId \in Nat /\ position \in Int
          /\ placed \in [StrategyIds -> Side \cup {"none"}]
          /\ \A id \in StrategyIds : placed[id] # "none" <=> id \in 1..orderId
      BY SettingType DEF StrategyHolds
    <3>3. spc' \in {"receive", "stopped"} /\ (spc' # "stopped" => ~(orderId' >= env.maxOrders))
      BY <2>2 DEF SendOrder, StopsAt
    <3>4. position' \in Int
      BY <2>2, <3>2, DeltaAssumption DEF SendOrder, Delta
    <3>5. orderId' \in 0..env'.maxOrders /\ (spc' # "stopped" => orderId' < env'.maxOrders)
      BY <1>1, <3>1, <3>2, <3>3
    <3>6. placed' \in [StrategyIds -> Side \cup {"none"}]
      BY <3>1, <3>2
    <3>7. side # "none"
      BY DEF Side
    <3>8. ASSUME NEW id \in StrategyIds PROVE placed'[id] # "none" <=> id \in 1..orderId'
      <4>1. id \in 1..orderId' <=> id \in 1..orderId \/ id = orderId + 1
        BY <3>1, <3>2
      <4>2. placed'[id] = IF id = orderId + 1 THEN side ELSE placed[id]
        BY <3>1, <3>2
      <4> QED
        BY <3>2, <3>7, <4>1, <4>2
    <3> QED
      BY <1>1, <3>3, <3>4, <3>5, <3>6, <3>8 DEF StrategyHolds
  <2> QED
    BY <1>3, <2>1, <2>2, StrategySteps
<1> QED
  BY <1>1, <1>2, <1>3 DEF Next

\* An order stays one, whatever is sent after it.
LEMMA OrdersStay ==
  ASSUME LoopTyped, StrategyHolds, [Next]_vars
  PROVE  /\ \A id \in StrategyIds : placed[id] # "none" => placed'[id] = placed[id]
         /\ \A c \in Order : c \in Order'
         /\ \A q \in Seq(Order) : q \in Seq(Order')
<1>1. env' = env
  BY TurnsOfPipeline
<1>2. \A id \in StrategyIds : placed[id] # "none" => placed'[id] = placed[id]
  <2>1. CASE placed' = placed
    BY <2>1
  <2>2. CASE StrategyTurn
    <3>1. CASE NoOrder
      BY <3>1 DEF NoOrder
    <3>2. ASSUME NEW side \in Side, SendOrder(side)
          PROVE  \A id \in StrategyIds : placed[id] # "none" => placed'[id] = placed[id]
      <4>1. placed' = [placed EXCEPT ![orderId + 1] = side] /\ placed[orderId + 1] = "none"
        BY <1>1, <2>2, <3>2, OrderSent DEF StrategyTurn
      <4>2. placed \in [StrategyIds -> Side \cup {"none"}]
        BY DEF StrategyHolds
      <4> QED
        BY <4>1, <4>2
    <3> QED
      BY <2>2, <3>1, <3>2, StrategySteps
  <2> QED
    BY <2>1, <2>2 DEF Next, ExchangeTurn, ExecutionTurn, vars
<1>3. \A c \in Order : c \in Order'
  <2>1. \A c \in Command : c.id \in StrategyIds /\ c.side # "none"
    BY DEF Command, Side
  <2> QED
    BY <1>1, <1>2, <2>1 DEF Order
<1>4. \A q \in Seq(Order) : q \in Seq(Order')
  <2>1. Order \subseteq Order'
    BY <1>3
  <2> QED
    BY <2>1
<1> QED
  BY <1>2, <1>3, <1>4

\* The loop takes commands from its queue, and modifies no order of the strategy.
LEMMA LoopTakesOrders ==
  ASSUME OrdersHold, ExchangeNext
  PROVE  Taken(toExchange, toExchange') /\ xpc' # "replace"
<1> USE DEF Goto
<1>1. CASE ReceiveOrder
  <2>1. toExchange # <<>> /\ toExchange \in Seq(Order)
    BY <1>1 DEF ReceiveOrder, OrdersHold
  <2>2. Head(toExchange) \in Order
    BY <2>1, HeadTailProperties
  <2>3. Head(toExchange).action = "new"
    BY <2>2 DEF Order
  <2> QED
    BY <1>1, <2>1, <2>3 DEF ReceiveOrder, Taken
<1>2. CASE ~ReceiveOrder
  BY <1>2 DEF OrdersHold, ExchangeNext, MatchOrders, Participants, MarketData, BookStep, Replace,
     PublishFill, FillsPublished, StartRound, PostAsk, Churn, Cross, Prune, PublishMakerFill,
     MakersPublished, NotDue, PublishTop, AfterTick, NotifyTop, TopUnmoved, NextTurn, Primed,
     At, Taken, topVars
<1> QED
  BY <1>1, <1>2

\* Both subscribers of the order service hold orders of the strategy.
LEMMA OrdersKept ==
  ASSUME LoopTyped, StrategyHolds, OrdersHold, [Next]_vars
  PROVE  OrdersHold'
<1>1. env' = env
  BY TurnsOfPipeline
<1>2. /\ toExchange \in Seq(Order) /\ toExecution \in Seq(Order) /\ Len(toExecution) <= Capacity
      /\ xpc # "replace" /\ Len(toExchange) <= Capacity
  BY DEF OrdersHold, LoopTyped
<1>3. \A q \in Seq(Order) : q \in Seq(Order')
  BY OrdersStay
<1>4. ASSUME NEW q \in Seq(Order), NEW r, Taken(q, r)
      PROVE  r \in Seq(Order') /\ (Len(q) <= Capacity => Len(r) <= Capacity)
  <2>1. r \in Seq(Order) /\ Len(r) \in Nat /\ Len(q) \in Nat /\ Len(r) <= Len(q)
    BY <1>4, TakenTyped
  <2> QED
    BY <1>3, <2>1, CapacityAssumption
<1>5. CASE ExchangeTurn
  <2>1. Taken(toExchange, toExchange') /\ xpc' # "replace" /\ toExecution' = toExecution
    BY <1>5, LoopTakesOrders DEF ExchangeTurn
  <2> QED
    BY <1>2, <1>3, <1>4, <2>1 DEF OrdersHold
<1>6. CASE ExecutionTurn
  <2>1. toExchange' = toExchange /\ xpc' = xpc
    BY <1>6 DEF ExecutionTurn
  <2>2. Taken(toExecution, toExecution')
    BY <1>6 DEF ExecutionTurn, ExecutionNext, DrainOrder, Drained, NoReport, SkipReport,
       BookReport, ReceiveReport, Taken
  <2> QED
    BY <1>2, <1>3, <1>4, <2>1, <2>2 DEF OrdersHold
<1>7. CASE UNCHANGED vars
  BY <1>2, <1>3, <1>7 DEF vars, exchangeVars, OrdersHold
<1>8. CASE StrategyTurn
  <2>1. xpc' = xpc
    BY <1>8 DEF StrategyTurn
  <2>2. CASE NoOrder
    BY <1>2, <1>3, <2>1, <2>2 DEF NoOrder, OrdersHold
  <2>3. ASSUME NEW side \in Side, SendOrder(side) PROVE OrdersHold'
    <3>1. PICK c \in Command :
            /\ c.id = orderId + 1 /\ c.side = side /\ c.qty = OrderQty /\ c.action = "new"
            /\ ~env.passive => c.type = "market"
            /\ orderId + 1 \in StrategyIds
            /\ placed' = [placed EXCEPT ![orderId + 1] = side]
            /\ toExchange' = Delivered(toExchange, c) /\ toExecution' = Delivered(toExecution, c)
      BY <1>1, <1>8, <2>3, OrderSent DEF StrategyTurn
    <3>2. placed'[c.id] = c.side
      BY <3>1 DEF StrategyHolds
    <3>3. c \in Order'
      BY <1>1, <3>1, <3>2 DEF Order
    <3>4. toExchange \in Seq(Order') /\ toExecution \in Seq(Order')
      BY <1>2, <1>3
    <3>5. toExchange' \in Seq(Order')
      BY <1>2, <3>1, <3>3, <3>4, DeliveredProperties
    <3>6. toExecution' \in Seq(Order') /\ Len(toExecution') <= Capacity
      BY <1>2, <3>1, <3>3, <3>4, DeliveredProperties
    <3> QED
      BY <1>2, <2>1, <3>5, <3>6 DEF OrdersHold
  <2> QED
    BY <1>8, <2>2, <2>3, StrategySteps
<1> QED
  BY <1>5, <1>6, <1>7, <1>8 DEF Next

\* No order executes, or may yet execute, beyond the quantity it was sent with,
\* and none executes before it is sent.
LEMMA PlacedKept ==
  ASSUME BookStructure, LoopTyped, ControlHolds, StrategyHolds, Within(Placed), [Next]_vars
  PROVE  Within(Placed)'
<1>1. env' = env
  BY TurnsOfPipeline
<1>2. Placed \in [StrategyIds -> Nat] /\ Placed' \in [StrategyIds -> Nat]
  BY SizeAssumption DEF Placed
<1>3. WithinAfter(Placed') => Within(Placed)'
  BY DEF WithinAfter, Within
<1>4. CASE ExchangeTurn
  <2>1. WithinAfter(Placed)
    BY <1>2, <1>4, WithinKept DEF ExchangeTurn
  <2>2. Placed' = Placed
    BY <1>4 DEF ExchangeTurn, Placed
  <2> QED
    BY <1>3, <2>1, <2>2
<1>5. CASE ExecutionTurn \/ (StrategyTurn /\ NoOrder) \/ UNCHANGED vars
  <2>1. UNCHANGED <<bookVars, xpc, cmd, tally, toExchange, placed>>
    BY <1>5 DEF ExecutionTurn, StrategyTurn, NoOrder, vars, exchangeVars, matchVars
  <2>2. WithinAfter(Placed)
    BY <1>2, <2>1, StillWithin
  <2>3. Placed' = Placed
    BY <2>1 DEF Placed
  <2> QED
    BY <1>3, <2>2, <2>3
<1>6. ASSUME StrategyTurn, NEW side \in Side, SendOrder(side) PROVE Within(Placed)'
  <2>1. PICK c \in Command :
          /\ c.id = orderId + 1 /\ c.qty = OrderQty
          /\ orderId + 1 \in StrategyIds /\ placed[orderId + 1] = "none"
          /\ placed' = [placed EXCEPT ![orderId + 1] = side]
          /\ toExchange' = Delivered(toExchange, c)
    BY <1>1, <1>6, OrderSent DEF StrategyTurn
  <2>2. ASSUME NEW id \in StrategyIds PROVE Placed'[id] = Placed[id] + If(c.id = id, c.qty)
    <3>1. placed'[id] = IF id = orderId + 1 THEN side ELSE placed[id]
      BY <2>1 DEF StrategyHolds
    <3>2. side # "none"
      BY DEF Side
    <3>3. /\ Placed[id] = IF placed[id] = "none" THEN 0 ELSE OrderQty
          /\ Placed'[id] = IF placed'[id] = "none" THEN 0 ELSE OrderQty
      BY DEF Placed
    <3> QED
      BY <2>1, <3>1, <3>2, <3>3, SizeAssumption DEF If
  <2>3. Outside
    BY <1>1, <1>6, StagesAreOutside
  <2>4. WithinAfter(Placed')
    BY <1>2, <2>1, <2>2, <2>3, SentWithin
  <2> QED
    BY <1>3, <2>4
<1> QED
  BY <1>4, <1>5, <1>6, StrategySteps DEF Next
----------------------------------------------------------------------------
(* The contexts *)

\* A report taken off the queue.
LEMMA ReportTaken ==
  ASSUME LoopTyped, ReceiveReport
  PROVE  /\ reports \in Seq(Reported) /\ reports # <<>> /\ reports' = Tail(reports)
         /\ Head(reports) \in Reported /\ Head(reports).id \in StrategyIds
         /\ Head(reports).qty \in Nat /\ Head(reports).status \in {1, 2}
<1>1. reports \in Seq(Reported) /\ reports # <<>> /\ reports' = Tail(reports)
  BY DEF LoopTyped, ReceiveReport
<1>2. Head(reports) \in Reported
  BY <1>1, HeadTailProperties
<1>3. \A r \in Reported : r.id \in StrategyIds /\ r.qty \in Nat /\ r.status \in {1, 2}
  BY MaxQtyAssumption DEF Reported, ReportType
<1> QED
  BY <1>1, <1>2, <1>3

\* A report is booked or skipped, which its order's account says.
LEMMA ReportBooked ==
  ASSUME LoopTyped, booked \in [StrategyIds -> Booking], SkipReport \/ BookReport
  PROVE  LET r == Head(reports) IN
         /\ booked' \in [StrategyIds -> Booking]
         /\ \A id \in StrategyIds \ {r.id} : booked'[id] = booked[id]
         /\ SkipReport => /\ booked'[r.id].qty = booked[r.id].qty
                          /\ booked'[r.id].skipped = booked[r.id].skipped + r.qty
                          /\ booked'[r.id].terminal = booked[r.id].terminal
         /\ BookReport => /\ booked'[r.id].qty = booked[r.id].qty + r.qty
                          /\ booked'[r.id].skipped = booked[r.id].skipped
                          /\ booked'[r.id].terminal =
                               booked[r.id].terminal + (IF r.status = 2 THEN 1 ELSE 0)
<1> DEFINE r == Head(reports)
           a == r.qty
           n == IF r.status = 2 THEN 1 ELSE 0
<1>1. r.id \in StrategyIds /\ a \in Nat /\ n \in Nat
  BY ReportTaken DEF SkipReport, BookReport
<1>2. SkipReport => booked' = [booked EXCEPT ![r.id].skipped = @ + a]
  BY DEF SkipReport
<1>3. BookReport => booked' = [booked EXCEPT ![r.id].qty = @ + a, ![r.id].terminal = @ + n]
  BY DEF BookReport
<1> HIDE DEF r, a, n
<1>4. /\ booked[r.id] = [qty |-> booked[r.id].qty, skipped |-> booked[r.id].skipped,
                         terminal |-> booked[r.id].terminal]
      /\ booked[r.id].qty \in Nat /\ booked[r.id].skipped \in Nat /\ booked[r.id].terminal \in Nat
  BY <1>1 DEF Booking
<1>5. CASE SkipReport
  <2>1. booked[r.id].skipped + a \in Nat
    BY <1>1, <1>4
  <2>2. booked'[r.id] = [booked[r.id] EXCEPT !.skipped = @ + a]
    BY <1>1, <1>2, <1>5
  <2>3. /\ booked'[r.id].qty = booked[r.id].qty
        /\ booked'[r.id].skipped = booked[r.id].skipped + a
        /\ booked'[r.id].terminal = booked[r.id].terminal
        /\ booked'[r.id] \in Booking
    BY <1>4, <2>1, <2>2 DEF Booking
  <2>4. \A id \in StrategyIds \ {r.id} : booked'[id] = booked[id]
    BY <1>2, <1>5
  <2>5. booked' \in [StrategyIds -> Booking]
    BY <1>1, <1>2, <1>5, <2>3, <2>4
  <2>6. ~BookReport
    BY <1>5 DEF SkipReport, BookReport
  <2> QED
    BY <1>5, <2>3, <2>4, <2>5, <2>6 DEF r, a
<1>6. CASE BookReport
  <2>1. booked[r.id].qty + a \in Nat /\ booked[r.id].terminal + n \in Nat
    BY <1>1, <1>4
  <2>2. booked'[r.id] = [booked[r.id] EXCEPT !.qty = @ + a, !.terminal = @ + n]
    BY <1>1, <1>3, <1>6
  <2>3. /\ booked'[r.id].qty = booked[r.id].qty + a
        /\ booked'[r.id].skipped = booked[r.id].skipped
        /\ booked'[r.id].terminal = booked[r.id].terminal + n
        /\ booked'[r.id] \in Booking
    BY <1>4, <2>1, <2>2 DEF Booking
  <2>4. \A id \in StrategyIds \ {r.id} : booked'[id] = booked[id]
    BY <1>3, <1>6
  <2>5. booked' \in [StrategyIds -> Booking]
    BY <1>1, <1>3, <1>6, <2>3, <2>4
  <2>6. ~SkipReport
    BY <1>6 DEF SkipReport, BookReport
  <2> QED
    BY <1>6, <2>3, <2>4, <2>5, <2>6 DEF r, a, n
<1> QED
  BY <1>5, <1>6

\* A context is made of an order drained, unmade by a terminal report, and the
\* side it holds is the one its order was sent with.
LEMMA ContextKept ==
  ASSUME LoopTyped, StrategyHolds, OrdersHold, ContextHolds, [Next]_vars
  PROVE  ContextHolds'
<1>1. env' = env
  BY TurnsOfPipeline
<1>2. /\ toExecution \in Seq(Order) /\ Len(toExecution) \in Nat /\ Len(toExecution) <= Capacity
      /\ orderId \in Nat /\ completed \in Nat /\ Cardinality(ctx) \in Nat /\ IsFiniteSet(ctx)
      /\ booked \in [StrategyIds -> Booking] /\ held \in Int
      /\ completed + Cardinality(ctx) + Len(toExecution) <= orderId
  BY LenProperties, SettingType, FS_CardinalityType DEF OrdersHold, ContextHolds
<1>3. ASSUME NEW x \in ctx PROVE x.id \in StrategyIds /\ placed[x.id] = x.side /\ placed[x.id] # "none"
  BY DEF ContextHolds, Side
<1>4. CASE ExchangeTurn \/ UNCHANGED vars \/ (StrategyTurn /\ NoOrder)
  <2>1. UNCHANGED <<executionVars, toExecution, placed, orderId>>
    BY <1>4 DEF ExchangeTurn, StrategyTurn, NoOrder, vars, strategyVars
  <2> QED
    BY <2>1 DEF ContextHolds, executionVars
<1>5. ASSUME StrategyTurn, NEW side \in Side, SendOrder(side) PROVE ContextHolds'
  <2>1. PICK c \in Command :
          /\ c.id = orderId + 1 /\ c.side = side /\ c.qty = OrderQty /\ c.action = "new"
          /\ orderId' = orderId + 1
          /\ toExecution' = Delivered(toExecution, c)
    BY <1>1, <1>5, OrderSent DEF StrategyTurn
  <2>2. UNCHANGED executionVars
    BY <1>5 DEF StrategyTurn
  <2>3. Len(toExecution') \in Nat /\ Len(toExecution') <= Len(toExecution) + 1
    <3>1. toExecution \in Seq(Command)
      <4>1. Order \subseteq Command
        BY DEF Order
      <4> QED
        BY <1>2, <4>1
    <3>2. PICK d \in {0, 1} : /\ Len(toExecution) - d \in Nat
                              /\ Len(toExecution') = Len(toExecution) - d + 1
      BY <1>2, <2>1, <3>1, DeliveredShape
    <3> QED
      BY <1>2, <3>2
  <2>4. \A x \in ctx : placed'[x.id] = x.side
    BY <1>3, <1>5, OrdersStay DEF Next
  <2>5. completed + Cardinality(ctx) + Len(toExecution') <= orderId'
    BY <1>2, <2>1, <2>3
  <2> QED
    BY <2>2, <2>4, <2>5 DEF ContextHolds, executionVars
<1>6. CASE ExecutionTurn
  <2>1. placed' = placed /\ orderId' = orderId
    BY <1>6 DEF ExecutionTurn, strategyVars
  <2>2. CASE DrainOrder
    <3> DEFINE c == Head(toExecution)
               kept == {x \in ctx : x.id # c.id}
               new == [id |-> c.id, side |-> c.side]
    <3>1. toExecution # <<>>
      BY <2>2 DEF DrainOrder
    <3>2. c \in Order /\ Len(Tail(toExecution)) = Len(toExecution) - 1
      BY <1>2, <3>1, HeadTailProperties
    <3>3. /\ ctx' = kept \cup {new} /\ toExecution' = Tail(toExecution)
          /\ UNCHANGED <<epc, held, completed, booked>>
      BY <2>2 DEF DrainOrder
    <3> HIDE DEF c
    <3>4. c.id \in StrategyIds /\ c.side \in Side /\ placed[c.id] = c.side
      BY <3>2 DEF Order, Command
    <3>5. kept \subseteq ctx
      OBVIOUS
    <3>6. IsFiniteSet(kept) /\ Cardinality(kept) \in Nat /\ Cardinality(kept) <= Cardinality(ctx)
      BY <1>2, <3>5, FS_Subset, FS_CardinalityType
    <3> HIDE DEF kept, new
    <3>7. /\ IsFiniteSet(kept \cup {new})
          /\ Cardinality(kept \cup {new}) = Cardinality(kept) \/
             Cardinality(kept \cup {new}) = Cardinality(kept) + 1
      BY <3>6, FS_AddElement
    <3>8. completed + Cardinality(ctx') + Len(toExecution') <= orderId
      <4>1. /\ Cardinality(ctx') = Cardinality(kept) \/ Cardinality(ctx') = Cardinality(kept) + 1
            /\ Len(toExecution') = Len(toExecution) - 1
        BY <3>2, <3>3, <3>7
      <4> DEFINE a == Cardinality(ctx)
                 b == Cardinality(ctx')
                 k == Cardinality(kept)
                 n == Len(toExecution)
      <4>2. /\ completed \in Nat /\ orderId \in Nat /\ a \in Nat /\ k \in Nat /\ n \in Nat
            /\ completed + a + n <= orderId /\ k <= a /\ (b = k \/ b = k + 1)
        BY <1>2, <3>6, <4>1
      <4> HIDE DEF a, b, k, n
      <4>3. completed + b + (n - 1) <= orderId
        BY <4>2
      <4> QED
        BY <3>3, <4>1, <4>3 DEF b, n
    <3>9. ctx' \subseteq [id : StrategyIds, side : Side]
      BY <3>3, <3>4, <3>5 DEF ContextHolds, new
    <3>10. \A x, y \in ctx' : x.id = y.id => x = y
      BY <3>3 DEF ContextHolds, kept, new
    <3>11. \A x \in ctx' : placed[x.id] = x.side
      BY <1>3, <3>3, <3>4 DEF kept, new
    <3> QED
      BY <2>1, <3>3, <3>7, <3>8, <3>9, <3>10, <3>11 DEF ContextHolds
  <2>3. CASE Drained \/ NoReport
    <3>1. epc' \in {"report", "drain"} /\ UNCHANGED <<ctx, held, completed, booked, toExecution>>
      BY <2>3 DEF Drained, NoReport
    <3> QED
      BY <2>1, <3>1 DEF ContextHolds
  <2>4. CASE SkipReport
    <3>1. epc' = "drain" /\ UNCHANGED <<ctx, held, completed, toExecution>>
      BY <2>4 DEF SkipReport, ReceiveReport
    <3>2. booked' \in [StrategyIds -> Booking]
      BY <1>2, <2>4, ReportBooked
    <3> QED
      BY <2>1, <3>1, <3>2 DEF ContextHolds
  <2>5. CASE BookReport
    <3> DEFINE r == Head(reports)
    <3>1. r.qty \in Nat
      BY <2>5, ReportTaken DEF BookReport
    <3>2. /\ epc' \in {"stopped", "drain"} /\ toExecution' = toExecution
          /\ \E x \in ctx : /\ held' = held + Signed(x.side, r.qty)
                            /\ IF r.status = 2
                               THEN ctx' = ctx \ {x} /\ completed' = completed + 1
                               ELSE UNCHANGED <<ctx, completed>>
      BY <2>5 DEF BookReport, ReceiveReport
    <3>3. PICK x \in ctx : /\ held' = held + Signed(x.side, r.qty)
                           /\ IF r.status = 2
                              THEN ctx' = ctx \ {x} /\ completed' = completed + 1
                              ELSE UNCHANGED <<ctx, completed>>
      BY <3>2
    <3>4. booked' \in [StrategyIds -> Booking]
      BY <1>2, <2>5, ReportBooked
    <3>5. held' \in Int
      BY <1>2, <3>1, <3>3 DEF Signed
    <3>6. /\ IsFiniteSet(ctx \ {x}) /\ Cardinality(ctx \ {x}) = Cardinality(ctx) - 1
      BY <1>2, FS_RemoveElement
    <3>7. /\ completed' \in Nat /\ IsFiniteSet(ctx') /\ ctx' \subseteq ctx
          /\ completed' + Cardinality(ctx') = completed + Cardinality(ctx)
      <4>1. CASE r.status = 2
        <5>1. ctx' = ctx \ {x} /\ completed' = completed + 1
          BY <3>3, <4>1
        <5>2. Cardinality(ctx') = Cardinality(ctx) - 1 /\ IsFiniteSet(ctx')
          BY <3>6, <5>1
        <5>3. completed' + Cardinality(ctx') = completed + Cardinality(ctx) /\ completed' \in Nat
          BY <1>2, <5>1, <5>2
        <5> QED
          BY <5>1, <5>2, <5>3
      <4>2. CASE r.status # 2
        BY <1>2, <3>3, <4>2
      <4> QED
        BY <4>1, <4>2
    <3> QED
      BY <2>1, <3>2, <3>4, <3>5, <3>7 DEF ContextHolds
  <2> QED
    BY <1>6, <2>2, <2>3, <2>4, <2>5 DEF ExecutionTurn, ExecutionNext
<1> QED
  BY <1>4, <1>5, <1>6, StrategySteps DEF Next
----------------------------------------------------------------------------
(* The accounts of an order *)

\* What the exchange's side of an order's account says.
LEMMA ExchangeAccount ==
  ASSUME BookStructure, LoopTyped, ControlHolds, ReportsHold, NEW lim \in [StrategyIds -> Nat],
         Within(lim), NEW id \in StrategyIds
  PROVE  /\ tally[id].executed \in Nat /\ tally[id].selfMade \in Nat
         /\ tally[id].reported \in Nat /\ tally[id].lost \in Nat
         /\ Owed(id) \in Nat
         /\ tally[id].executed = tally[id].selfMade + tally[id].reported + Owed(id)
         /\ tally[id].reported <= tally[id].executed
         /\ tally[id].executed <= lim[id]
<1>1. /\ tally[id].executed \in Nat /\ tally[id].selfMade \in Nat
      /\ tally[id].reported \in Nat /\ tally[id].lost \in Nat
  <2>1. tally[id] \in Tally
    BY DEF LoopTyped
  <2> QED
    BY <2>1 DEF Tally
<1>2. Owed(id) \in Nat
  <2>1. fills \in Seq(Fill) /\ sent \in Nat
    BY LenProperties DEF BookStructure, BookTypeOK, LoopTyped
  <2> QED
    BY <2>1, UnsentType DEF Owed
<1>3. tally[id].executed = tally[id].selfMade + tally[id].reported + Owed(id)
  BY DEF ReportsHold
<1>4. tally[id].executed <= lim[id]
  <2> DEFINE a == tally[id].executed
             b == Running(id)
             c == Returning(id)
             d == Asked(id, toExchange)
             n == lim[id]
  <2>1. a \in Nat /\ b \in Nat /\ c \in Nat /\ d \in Nat /\ n \in Nat
    BY CommittedType
  <2>2. a + b + c + d <= n
    BY DEF Within, Committed
  <2> HIDE DEF a, b, c, d, n
  <2>3. a <= n
    BY <2>1, <2>2
  <2> QED
    BY <2>3 DEF a, n
<1>5. tally[id].reported <= tally[id].executed
  <2> DEFINE a == tally[id].executed
             b == tally[id].selfMade
             c == tally[id].reported
             d == Owed(id)
  <2>1. a \in Nat /\ b \in Nat /\ c \in Nat /\ d \in Nat /\ a = b + c + d
    BY <1>1, <1>2, <1>3
  <2> HIDE DEF a, b, c, d
  <2>2. c <= a
    BY <2>1
  <2> QED
    BY <2>2 DEF a, c
<1> QED
  BY <1>1, <1>2, <1>3, <1>4, <1>5

\* What is in flight of an order is what its reports in the queue carry.
LEMMA InFlightIsAsked ==
  /\ \A id : InFlight(id) = Asked(id, reports)
  /\ \A id : InFlight(id)' = Asked(id, reports')
BY DEF InFlight, Asked, Asks

\* Placed is a limit for each order.
LEMMA PlacedType ==
  /\ Placed \in [StrategyIds -> Nat]
  /\ \A id \in StrategyIds : Placed[id] = IF placed[id] = "none" THEN 0 ELSE OrderQty
BY SizeAssumption DEF Placed

\* The execution stage's side of it.
LEMMA ExecutionAccount ==
  ASSUME LoopTyped, ContextHolds, AccountsHold, NEW id \in StrategyIds
  PROVE  /\ booked[id].qty \in Nat /\ booked[id].skipped \in Nat /\ booked[id].terminal \in Nat
         /\ InFlight(id) \in Nat /\ tally[id].lost \in Nat
         /\ tally[id].reported = booked[id].qty + booked[id].skipped + tally[id].lost + InFlight(id)
         /\ booked[id].qty <= tally[id].reported
<1>1. /\ booked[id].qty \in Nat /\ booked[id].skipped \in Nat /\ booked[id].terminal \in Nat
      /\ tally[id].lost \in Nat
  <2>1. booked[id] \in Booking /\ tally[id] \in Tally
    BY DEF ContextHolds, LoopTyped
  <2> QED
    BY <2>1 DEF Booking, Tally
<1>2. InFlight(id) \in Nat
  <2>1. reports \in Seq(Reported)
    BY DEF LoopTyped
  <2> QED
    BY <2>1, ReportQtys, AsksType, InFlightIsAsked
<1>3. tally[id].reported = booked[id].qty + booked[id].skipped + tally[id].lost + InFlight(id)
  BY DEF AccountsHold
<1> DEFINE a == booked[id].qty
           b == booked[id].skipped
           c == tally[id].lost
           d == InFlight(id)
<1>4. a \in Nat /\ b \in Nat /\ c \in Nat /\ d \in Nat /\ tally[id].reported = a + b + c + d
  BY <1>1, <1>2, <1>3
<1> HIDE DEF a, b, c, d
<1>5. a <= tally[id].reported
  BY <1>4
<1> QED
  BY <1>1, <1>2, <1>3, <1>5 DEF a

\* A report is sent into the queue, may be lost there, and is booked or skipped
\* when it leaves it.
LEMMA AccountsKept ==
  ASSUME BookStructure, LoopTyped, ControlHolds, StrategyHolds, ContextHolds, AccountsHold, [Next]_vars
  PROVE  AccountsHold'
<1>1. reports \in Seq(Reported) /\ Len(reports) <= Capacity
  BY DEF LoopTyped
<1>2. ASSUME UNCHANGED <<reports, booked>>,
             \A id \in StrategyIds :
               tally'[id].reported = tally[id].reported /\ tally'[id].lost = tally[id].lost
      PROVE  AccountsHold'
  <2>1. \A id : InFlight(id)' = InFlight(id)
    BY <1>2, InFlightIsAsked
  <2> QED
    BY <1>2, <2>1 DEF AccountsHold
<1>3. CASE ExchangeTurn
  <2>1. booked' = booked
    BY <1>3 DEF ExchangeTurn, executionVars
  <2>2. ASSUME NEW r \in Reported, Send(r) PROVE AccountsHold'
    <3> SUFFICES ASSUME NEW id \in StrategyIds
                 PROVE  tally'[id].reported =
                          booked'[id].qty + booked'[id].skipped + tally'[id].lost + InFlight(id)'
      BY DEF AccountsHold
    <3> DEFINE a == booked[id].qty
               b == booked[id].skipped
               c == tally[id].lost
               d == InFlight(id)
               n == If(r.id = id, r.qty)
               m == LostOf(id, reports)
    <3>1. a \in Nat /\ b \in Nat /\ c \in Nat /\ d \in Nat /\ tally[id].reported = a + b + c + d
      BY ExecutionAccount
    <3>2. tally'[id].reported = tally[id].reported + n /\ tally'[id].lost = c + m
      BY <2>2, SendTyped
    <3>3. InFlight(id)' = d - m + n /\ m \in Nat /\ n \in Nat
      <4>1. reports' = Delivered(reports, r)
        BY <2>2 DEF Send
      <4>2. /\ Asked(id, Delivered(reports, r)) = Asked(id, reports) - m + n
            /\ m \in Nat /\ n \in Nat
        BY <1>1, ReportQtys, AskedOfDelivered
      <4> QED
        BY <4>1, <4>2, InFlightIsAsked
    <3> HIDE DEF a, b, c, d, n, m
    <3>4. a + b + c + d + n = a + b + (c + m) + (d - m + n)
      BY <3>1, <3>3
    <3> QED
      BY <2>1, <3>1, <3>2, <3>3, <3>4 DEF a, b
  <2> QED
    BY <1>2, <1>3, <2>1, <2>2, LoopReports DEF ExchangeTurn
<1>4. CASE StrategyTurn \/ UNCHANGED vars
  BY <1>2, <1>4 DEF StrategyTurn, vars, exchangeVars, executionVars
<1>5. CASE ExecutionTurn /\ (DrainOrder \/ Drained \/ NoReport)
  <2>1. UNCHANGED <<reports, booked, tally>>
    BY <1>5 DEF ExecutionTurn, DrainOrder, Drained, NoReport
  <2> QED
    BY <1>2, <2>1
<1>6. CASE ExecutionTurn /\ (SkipReport \/ BookReport)
  <2> DEFINE r == Head(reports)
  <2>1. tally' = tally /\ ReceiveReport
    BY <1>6 DEF ExecutionTurn, SkipReport, BookReport
  <2>2. r.id \in StrategyIds /\ r.qty \in Nat /\ reports # <<>> /\ reports' = Tail(reports)
    BY <2>1, ReportTaken
  <2>3. booked \in [StrategyIds -> Booking]
    BY DEF ContextHolds
  <2> SUFFICES ASSUME NEW id \in StrategyIds
               PROVE  tally'[id].reported =
                        booked'[id].qty + booked'[id].skipped + tally'[id].lost + InFlight(id)'
    BY DEF AccountsHold
  <2> DEFINE a == booked[id].qty
             b == booked[id].skipped
             c == tally[id].lost
             d == Asked(id, reports')
             n == If(r.id = id, r.qty)
  <2>4. InFlight(id) = n + d /\ InFlight(id)' = d
    BY <1>1, <2>2, ReportQtys, AskedOfTail, InFlightIsAsked
  <2>5. d \in Nat
    <3>1. reports' \in Seq(Reported)
      BY <1>1, <2>2, HeadTailProperties
    <3> QED
      BY <3>1, ReportQtys, AsksType
  <2>6. a \in Nat /\ b \in Nat /\ c \in Nat /\ tally[id].reported = a + b + c + (n + d)
    BY <2>4, ExecutionAccount
  <2>7. n \in Nat
    BY <2>2 DEF If
  <2>8. \/ booked'[id].qty = a + n /\ booked'[id].skipped = b
        \/ booked'[id].qty = a /\ booked'[id].skipped = b + n
    <3>1. CASE id = r.id
      <4>1. n = r.qty
        BY <3>1 DEF If
      <4> QED
        BY <1>6, <2>3, <3>1, <4>1, ReportBooked
    <3>2. CASE id # r.id
      <4>1. n = 0
        BY <3>2 DEF If
      <4>2. booked'[id] = booked[id]
        BY <1>6, <2>3, <3>2, ReportBooked
      <4> QED
        BY <2>6, <4>1, <4>2
    <3> QED
      BY <3>1, <3>2
  <2> HIDE DEF a, b, c, d, n, r
  <2>9. a + b + c + (n + d) = (a + n) + b + c + d /\ a + b + c + (n + d) = a + (b + n) + c + d
    BY <2>5, <2>6, <2>7
  <2> QED
    BY <2>1, <2>4, <2>6, <2>8, <2>9 DEF c
<1> QED
  BY <1>3, <1>4, <1>5, <1>6 DEF Next, ExecutionTurn, ExecutionNext
----------------------------------------------------------------------------
(* The position *)

\* The orders sent, and what a quantity per order counts for with its side.
SentIds == {id \in StrategyIds : placed[id] # "none"}

Sides(qtys) == [id \in StrategyIds |-> Signed(placed[id], qtys[id])]

BookedQtys == [id \in StrategyIds |-> booked[id].qty]

\* Finitely many orders are sent.
LEMMA SentFinite ==
  ASSUME StrategyHolds
  PROVE  IsFiniteSet(SentIds) /\ SentIds \subseteq StrategyIds /\ SentIds = 1..orderId
<1>1. orderId \in 0..env.maxOrders /\ env.maxOrders \in Nat
  BY SettingType DEF StrategyHolds
<1>2. 1..orderId \subseteq StrategyIds
  BY <1>1, SettingType
<1>3. SentIds = 1..orderId
  BY <1>2 DEF StrategyHolds, SentIds
<1>4. IsFiniteSet(1..orderId)
  BY <1>1, FS_Interval
<1> QED
  BY <1>2, <1>3, <1>4

\* What the position is compared with is a sum over the orders sent.
LEMMA HeldSum ==
  /\ HeldIsBooked <=> held = SumFunctionOnSet(Sides(BookedQtys), SentIds)
  /\ HeldIsBooked' <=> held' = SumFunctionOnSet(Sides(BookedQtys)', SentIds')
BY DEF HeldIsBooked, SignedSum, Sides, BookedQtys, SentIds

\* A report of an order moves the position by what it books, with the side the
\* order was sent with; an order sent has nothing booked.
LEMMA HeldKept ==
  ASSUME BookStructure, LoopTyped, ControlHolds, ReportsHold, StrategyHolds, Within(Placed),
         ContextHolds, AccountsHold, HeldIsBooked, [Next]_vars
  PROVE  HeldIsBooked'
<1>1. env' = env
  BY TurnsOfPipeline
<1>2. IsFiniteSet(SentIds) /\ SentIds \subseteq StrategyIds
  BY SentFinite
<1>3. \A id \in StrategyIds : booked[id].qty \in Nat
  BY ExecutionAccount
<1> DEFINE f == Sides(BookedQtys)
           g == Sides(BookedQtys)'
<1>4. \A id \in StrategyIds : /\ f[id] = Signed(placed[id], booked[id].qty) /\ f[id] \in Int
                              /\ g[id] = Signed(placed'[id], booked'[id].qty)
  BY <1>3 DEF Sides, BookedQtys, Signed
<1>5. held = SumFunctionOnSet(f, SentIds)
  BY HeldSum
<1>6. ASSUME UNCHANGED <<held, placed>>, \A id \in StrategyIds : booked'[id].qty = booked[id].qty
      PROVE  HeldIsBooked'
  <2>1. f = g /\ SentIds' = SentIds
    BY <1>6 DEF Sides, BookedQtys, SentIds
  <2> QED
    BY <1>5, <1>6, <2>1, HeldSum
<1>7. CASE ExchangeTurn \/ UNCHANGED vars \/ (StrategyTurn /\ NoOrder)
  BY <1>6, <1>7 DEF ExchangeTurn, StrategyTurn, NoOrder, vars, executionVars
<1>8. ASSUME StrategyTurn, NEW side \in Side, SendOrder(side) PROVE HeldIsBooked'
  <2> DEFINE n == orderId + 1
  <2>1. /\ n \in StrategyIds /\ placed[n] = "none"
        /\ placed' = [placed EXCEPT ![n] = side]
    BY <1>1, <1>8, OrderSent DEF StrategyTurn
  <2>2. booked' = booked /\ held' = held
    BY <1>8 DEF StrategyTurn, executionVars
  <2>3. side # "none" /\ placed \in [StrategyIds -> Side \cup {"none"}]
    BY DEF Side, StrategyHolds
  <2>4. booked[n].qty = 0
    <3>1. tally[n].executed <= Placed[n] /\ tally[n].reported <= tally[n].executed
          /\ tally[n].reported \in Nat /\ tally[n].executed \in Nat
      BY <2>1, PlacedType, ExchangeAccount
    <3>2. booked[n].qty <= tally[n].reported /\ booked[n].qty \in Nat
      BY <2>1, ExecutionAccount
    <3>3. Placed[n] = 0
      BY <2>1, PlacedType
    <3> QED
      BY <3>1, <3>2, <3>3
  <2> HIDE DEF n
  <2>5. SentIds' = SentIds \cup {n} /\ n \notin SentIds
    BY <2>1, <2>3 DEF SentIds
  <2>6. g[n] = 0
    BY <1>4, <2>1, <2>2, <2>4 DEF Signed
  <2>7. \A id \in SentIds : g[id] = f[id]
    <3>1. \A id \in SentIds : placed'[id] = placed[id]
      BY <1>2, <2>1, <2>3, <2>5
    <3> QED
      BY <1>2, <1>4, <2>2, <3>1
  <2> HIDE DEF f, g
  <2>8. SumFunctionOnSet(g, SentIds) = SumFunctionOnSet(f, SentIds)
    BY <1>2, <1>4, <2>7, SumSame
  <2>9. \A id \in SentIds \cup {n} : g[id] \in Int
    BY <1>2, <1>4, <2>6, <2>7
  <2>10. SumFunctionOnSet(g, SentIds \cup {n}) = g[n] + SumFunctionOnSet(g, SentIds)
    BY <1>2, <2>5, <2>9, SumAdd
  <2>11. SumFunctionOnSet(f, SentIds) \in Int
    BY <1>2, <1>4, SumType
  <2>12. held' = SumFunctionOnSet(g, SentIds')
    BY <1>5, <2>2, <2>5, <2>6, <2>8, <2>10, <2>11
  <2> QED
    BY <2>12, HeldSum DEF g
<1>9. CASE ExecutionTurn /\ ~BookReport
  <2>1. placed' = placed /\ held' = held
    BY <1>9 DEF ExecutionTurn, ExecutionNext, DrainOrder, Drained, NoReport, SkipReport
  <2>2. \A id \in StrategyIds : booked'[id].qty = booked[id].qty
    <3>1. CASE SkipReport
      <4>1. booked \in [StrategyIds -> Booking]
        BY DEF ContextHolds
      <4>2. Head(reports).id \in StrategyIds
        BY <3>1, ReportTaken DEF SkipReport
      <4> QED
        BY <3>1, <4>1, <4>2, ReportBooked
    <3>2. CASE DrainOrder \/ Drained \/ NoReport
      BY <3>2 DEF DrainOrder, Drained, NoReport
    <3> QED
      BY <1>9, <3>1, <3>2 DEF ExecutionTurn, ExecutionNext
  <2> QED
    BY <1>6, <2>1, <2>2
<1>10. CASE ExecutionTurn /\ BookReport
  <2> DEFINE r == Head(reports)
             a == r.id
  <2>1. a \in StrategyIds /\ r.qty \in Nat
    BY <1>10, ReportTaken DEF BookReport
  <2>2. PICK x \in ctx : x.id = a /\ held' = held + Signed(x.side, r.qty)
    BY <1>10 DEF BookReport
  <2>3. placed[a] = x.side /\ a \in SentIds
    BY <2>1, <2>2 DEF ContextHolds, Side, SentIds
  <2>4. placed' = placed
    BY <1>10 DEF ExecutionTurn
  <2>5. /\ booked'[a].qty = booked[a].qty + r.qty
        /\ \A id \in StrategyIds \ {a} : booked'[id] = booked[id]
    BY <1>10, ReportBooked DEF ContextHolds
  <2> HIDE DEF r, a
  <2>6. SentIds' = SentIds
    BY <2>4 DEF SentIds
  <2>7. g[a] = f[a] + Signed(x.side, r.qty) /\ g[a] \in Int /\ f[a] \in Int
        /\ Signed(x.side, r.qty) \in Int
    <3>1. booked[a].qty \in Nat
      BY <1>3, <2>1
    <3>2. /\ f[a] = Signed(x.side, booked[a].qty)
          /\ g[a] = Signed(x.side, booked[a].qty + r.qty)
      BY <1>4, <2>1, <2>3, <2>4, <2>5
    <3> HIDE DEF f, g
    <3> QED
      BY <2>1, <3>1, <3>2 DEF Signed
  <2>8. \A id \in SentIds : id # a => g[id] = f[id]
    BY <1>2, <1>4, <2>4, <2>5
  <2> HIDE DEF f, g
  <2>9. \A id \in SentIds : f[id] \in Int /\ g[id] \in Int
    BY <1>2, <1>4, <2>7, <2>8
  <2>10. SumFunctionOnSet(g, SentIds) = SumFunctionOnSet(f, SentIds) - f[a] + g[a]
    <3> DEFINE S == SentIds
    <3>1. /\ IsFiniteSet(S) /\ a \in S /\ \A id \in S : f[id] \in Int /\ g[id] \in Int
          /\ \A id \in S : id # a => g[id] = f[id]
      BY <1>2, <2>3, <2>8, <2>9
    <3> HIDE DEF S
    <3>2. SumFunctionOnSet(g, S) = SumFunctionOnSet(f, S) - f[a] + g[a]
      BY <3>1, SumUpdate
    <3> QED
      BY <3>2 DEF S
  <2>11. SumFunctionOnSet(f, SentIds) \in Int
    BY <1>2, <1>4, SumType
  <2>12. held' = SumFunctionOnSet(g, SentIds')
    BY <1>5, <2>2, <2>6, <2>7, <2>10, <2>11
  <2> QED
    BY <2>12, HeldSum DEF g
<1> QED
  BY <1>7, <1>8, <1>9, <1>10, StrategySteps DEF Next
----------------------------------------------------------------------------
(* Market orders *)

\* What the other stages do leaves the book, the loop and the accounts alone.
LEMMA OthersKeep ==
  ASSUME LoopTyped, StrategyHolds, env' = env, StrategyTurn \/ ExecutionTurn \/ UNCHANGED vars
  PROVE  UNCHANGED <<bookVars, xpc, matchVars, tally>>
BY StagesAreOutside DEF Outside

\* A market order takes, is rejected for the rest, and never comes to rest.
LEMMA NeverMakesKept ==
  ASSUME BookStructure, LoopTyped, ControlHolds, StrategyHolds, OrdersHold,
         NeverMakes, LeavesNothing, [Next]_vars
  PROVE  NeverMakes'
<1>1. /\ env' = env /\ BookTypeOK /\ fills \in Seq(Fill) /\ Len(fills) \in Nat
      /\ live \subseteq SynIds /\ tally \in [StrategyIds -> Tally] /\ DOMAIN fills = 1..Len(fills)
  BY TurnsOfPipeline, LenProperties DEF BookStructure, BookTypeOK, LoopTyped
<1>2. \A id \in StrategyIds : id \in OrderIds /\ id \notin SynIds /\ tally[id].selfMade \in Nat
  BY <1>1 DEF StrategyIds, Tally
<1>3. \A id \in OrderIds : id \in StrategyIds \/ id \in SynIds
  BY DEF StrategyIds
<1>4. ASSUME \A id \in StrategyIds : IsResting(id)' => IsResting(id),
             \A id \in StrategyIds : tally'[id].selfMade = tally[id].selfMade,
             fills' = <<>> \/ fills' = fills
      PROVE  NeverMakes'
  <2>1. DOMAIN <<>> = {}
    OBVIOUS
  <2> QED
    BY <1>4, <2>1 DEF NeverMakes
<1>5. CASE StrategyTurn \/ ExecutionTurn \/ UNCHANGED vars
  BY <1>1, <1>4, <1>5, OthersKeep, BookSame
<1>6. CASE BookStep
  <2>1. /\ ~Idle /\ \A id \in OrderIds :
             IsResting(id)' => IsResting(id) \/ (id = taker.id /\ taker.limit # None)
    BY <1>6, TakerEffects DEF BookStep
  <2>2. xpc = "fills" => taker.limit = None
    BY <2>1 DEF LeavesNothing
  <2>3. xpc # "fills" => taker.id \in SynIds
    BY <2>1 DEF ControlHolds
  <2>4. \A id \in StrategyIds : IsResting(id)' => IsResting(id)
    BY <1>2, <2>1, <2>2, <2>3
  <2>5. CASE FillFront
    <3>1. PICK f \in Fill : /\ fills' = Append(fills, f) /\ Last(fills') = f
                            /\ Len(fills') = Len(fills) + 1 /\ IsResting(f.maker)
      BY <2>5, FillEffects
    <3>2. f.maker \in OrderIds
      BY DEF Fill
    <3>3. f.maker \in SynIds
      BY <1>3, <3>1, <3>2 DEF NeverMakes
    <3>4. CountFill(f)
      BY <1>1, <1>6, <3>1 DEF BookStep
    <3>5. ASSUME NEW id \in StrategyIds PROVE tally'[id].selfMade = tally[id].selfMade
      <4>1. tally'[id].selfMade = tally[id].selfMade + If(f.maker = id /\ ~IsSynthetic(f.taker), f.qty)
        BY <3>4, CountTyped
      <4>2. If(f.maker = id /\ ~IsSynthetic(f.taker), f.qty) = 0
        BY <1>2, <3>3 DEF If
      <4> QED
        BY <1>2, <4>1, <4>2
    <3>6. /\ Len(Append(fills, f)) = Len(fills) + 1 /\ Append(fills, f)[Len(fills) + 1] = f
          /\ \A i \in 1..Len(fills) : Append(fills, f)[i] = fills[i]
          /\ DOMAIN Append(fills, f) = 1..(Len(fills) + 1)
      <4>1. Append(fills, f) \in Seq(Fill) /\ Len(Append(fills, f)) = Len(fills) + 1
        BY <1>1, AppendProperties
      <4>2. DOMAIN Append(fills, f) = 1..(Len(fills) + 1)
        BY <4>1, LenProperties
      <4> QED
        BY <1>1, <4>1, <4>2, AppendProperties
    <3>7. ASSUME NEW i \in DOMAIN fills' PROVE fills'[i].maker \in SynIds
      <4>1. i \in 1..Len(fills) \/ i = Len(fills) + 1
        BY <1>1, <3>1, <3>6, <3>7
      <4> QED
        BY <1>1, <3>1, <3>3, <3>6, <4>1 DEF NeverMakes
    <3> QED
      BY <2>4, <3>5, <3>7 DEF NeverMakes
  <2>6. CASE ~FillFront
    <3>1. fills' = fills
      BY <1>6, <2>6, OtherEffects DEF BookStep
    <3>2. tally' = tally
      BY <1>1, <1>6, <3>1 DEF BookStep
    <3> QED
      BY <1>4, <2>4, <3>1, <3>2
  <2> QED
    BY <2>5, <2>6
<1>7. CASE ReceiveOrder
  <2> DEFINE c == Head(toExchange)
  <2>1. /\ c \in Command
        /\ IF c.action = "new" THEN Submit(c.id, c.side, Limit(c), c.qty, <<>>)
           ELSE Cancel(c.id) /\ fills' = <<>>
    BY <1>7, ReceiveOrderCalls
  <2> HIDE DEF c
  <2>2. c.id \in OrderIds
    BY <2>1, LimitType
  <2>3. fills' = <<>> /\ \A id \in OrderIds : IsResting(id)' => IsResting(id)
    BY <1>1, <2>1, <2>2, SubmitBegins, CancelReturns
  <2>4. tally' = tally
    BY <1>7 DEF ReceiveOrder
  <2> QED
    BY <1>2, <1>4, <2>3, <2>4
<1>8. ~Replace
  BY DEF Replace, At, OrdersHold
<1>9. CASE StartRound \/ PostAsk \/ Cross \/ Churn
  <2>1. tally' = tally
    BY <1>9 DEF StartRound, PostAsk, Cross, Churn
  <2>2. CASE StartRound
    BY <1>2, <1>4, <2>1, <2>2, SubmitBegins DEF StartRound
  <2>3. CASE PostAsk
    BY <1>2, <1>4, <2>1, <2>3, SubmitBegins DEF PostAsk
  <2>4. CASE Cross
    <3>1. (UNCHANGED bookVars) \/ \E id, side, limit, size : Submit(id, side, limit, size, fills)
      BY <2>4 DEF Cross
    <3> QED
      BY <1>2, <1>4, <2>1, <3>1, SubmitBegins, BookSame
  <2>5. CASE Churn
    <3>1. (UNCHANGED bookVars) \/ \E id \in OrderIds : Cancel(id) /\ fills' = fills
      BY <1>1, <2>5, SynAssumption DEF Churn
    <3> QED
      BY <1>1, <1>2, <1>4, <2>1, <3>1, CancelReturns, BookSame
  <2> QED
    BY <1>9, <2>2, <2>3, <2>4, <2>5
<1>10. CASE Quiet
  <2>1. UNCHANGED bookVars
    BY <1>10, QuietKeepsBook
  <2>2. CASE PublishFill \/ PublishMakerFill
    BY <1>4, <2>1, <2>2, BookSame, PublishedIsDue
  <2>3. CASE ~(PublishFill \/ PublishMakerFill)
    <3>1. tally' = tally
      BY <1>10, <2>3 DEF Quiet, FillsPublished, Prune, MakersPublished, NotDue, PublishTop,
         NotifyTop, TopUnmoved, NextTurn, Primed
    <3> QED
      BY <1>4, <2>1, <3>1, BookSame
  <2> QED
    BY <2>2, <2>3
<1> QED
  BY <1>5, <1>6, <1>7, <1>8, <1>9, <1>10, LoopSteps DEF Next, ExchangeTurn

\* A market order is matched until it has nothing left, or what rests has nothing
\* for it.
LEMMA LeavesNothingKept ==
  ASSUME BookStructure, LoopTyped, ControlHolds, StrategyHolds, OrdersHold, Within(Placed),
         ~env.passive, NeverMakes, LeavesNothing, [Next]_vars
  PROVE  LeavesNothing'
<1>1. /\ env' = env /\ fills \in Seq(Fill) /\ Len(fills) \in Nat /\ DOMAIN fills = 1..Len(fills)
      /\ tally \in [StrategyIds -> Tally]
  BY TurnsOfPipeline, LenProperties DEF BookStructure, BookTypeOK, LoopTyped
<1>2. \A id \in StrategyIds : id \notin SynIds /\ tally[id].executed \in Nat
  BY <1>1 DEF StrategyIds, Tally
<1>3. ASSUME UNCHANGED <<bookVars, xpc>>,
             \A id \in StrategyIds : tally'[id].executed = tally[id].executed
      PROVE  LeavesNothing'
  <2>1. UNCHANGED <<fills, taker, phase>> /\ Idle' = Idle
    BY <1>3, BookSame
  <2> SUFFICES ASSUME xpc = "fills" PROVE LeavesNothing'
    BY <1>3 DEF LeavesNothing
  <2>2. \A i \in DOMAIN fills : fills[i].taker \in StrategyIds
    BY DEF ControlHolds, FillsBy
  <2>3. ~Idle => taker.id \in StrategyIds
    BY DEF ControlHolds
  <2> QED
    BY <1>3, <2>1, <2>2, <2>3 DEF LeavesNothing
<1>4. CASE StrategyTurn \/ ExecutionTurn \/ UNCHANGED vars
  BY <1>1, <1>3, <1>4, OthersKeep
<1>5. CASE ExchangeTurn /\ xpc' # "fills"
  BY <1>5 DEF LeavesNothing
<1>6. CASE BookStep /\ xpc' = "fills"
  <2>1. xpc = "fills" /\ ~Idle /\ (~Idle' => taker'.id = taker.id /\ taker'.limit = taker.limit)
    BY <1>6, TakerEffects DEF BookStep
  <2>2. /\ taker.id \in StrategyIds /\ taker.limit = None
        /\ tally[taker.id].executed + taker.left = OrderQty
        /\ \A i \in DOMAIN fills : fills[i].taker = taker.id
    BY <2>1 DEF ControlHolds, LeavesNothing
  <2>3. CASE FillFront
    <3>1. PICK f \in Fill : /\ f.taker = taker.id /\ fills' = Append(fills, f)
                            /\ Last(fills') = f /\ Len(fills') = Len(fills) + 1
                            /\ IsResting(f.maker)
                            /\ taker'.left = taker.left - f.qty /\ f.left = taker'.left
      BY <2>3, FillEffects
    <3>2. taker.left \in Nat \ {0} /\ ~Idle'
      BY <2>3, MaxQtyAssumption DEF FillFront, BookStructure, BookTypeOK, Taker, Idle
    <3>3. f.qty \in Nat /\ f.maker \in OrderIds
      BY MaxQtyAssumption DEF Fill
    <3>4. f.maker # taker.id
      BY <2>2, <3>1 DEF NeverMakes
    <3>5. CountFill(f)
      BY <1>1, <1>6, <3>1 DEF BookStep
    <3>6. tally'[taker.id].executed = tally[taker.id].executed + f.qty
      <4>1. tally'[taker.id].executed = tally[taker.id].executed
              + If(f.taker = taker.id, f.qty) + If(f.maker = taker.id, f.qty)
        BY <2>2, <3>5, CountTyped
      <4>2. If(f.taker = taker.id, f.qty) = f.qty /\ If(f.maker = taker.id, f.qty) = 0
        BY <3>1, <3>4 DEF If
      <4> QED
        BY <1>2, <2>2, <3>3, <4>1, <4>2
    <3>7. tally'[taker.id].executed + taker'.left = OrderQty
      BY <1>2, <2>2, <3>1, <3>2, <3>3, <3>6
    <3>8. \A i \in DOMAIN fills : fills[i].left # 0
      <4>1. ASSUME NEW i \in DOMAIN fills, fills[i].left = 0 PROVE FALSE
        <5>1. tally[taker.id].executed = OrderQty
          BY <2>1, <2>2, <4>1 DEF LeavesNothing
        <5> QED
          BY <1>2, <2>2, <3>2, <5>1
      <4> QED
        BY <4>1
    <3>9. ASSUME NEW i \in DOMAIN fills'
          PROVE  fills'[i].taker = taker.id /\ (fills'[i].left = 0 => i = Len(fills'))
      <4>1. /\ Append(fills, f) \in Seq(Fill) /\ Len(Append(fills, f)) = Len(fills) + 1
            /\ Append(fills, f)[Len(fills) + 1] = f
            /\ \A k \in 1..Len(fills) : Append(fills, f)[k] = fills[k]
        BY <1>1, AppendProperties
      <4>2. DOMAIN Append(fills, f) = 1..(Len(fills) + 1)
        BY <4>1, LenProperties
      <4>3. i \in 1..Len(fills) \/ i = Len(fills) + 1
        BY <1>1, <3>1, <4>2
      <4> QED
        BY <1>1, <2>2, <3>1, <3>8, <4>1, <4>3
    <3>10. \A i \in DOMAIN fills' : fills'[i].left = 0 => tally'[taker.id].executed = OrderQty
      <4>1. ASSUME NEW i \in DOMAIN fills', fills'[i].left = 0
            PROVE  tally'[taker.id].executed = OrderQty
        <5>1. i = Len(fills')
          BY <3>9, <4>1
        <5>2. fills'[i] = f
          BY <3>1, <5>1 DEF Last
        <5>3. taker'.left = 0
          BY <3>1, <4>1, <5>2
        <5> QED
          BY <1>2, <2>2, <3>3, <3>6, <3>7, <5>3
      <4> QED
        BY <4>1
    <3>11. taker'.id = taker.id /\ taker'.limit = None
      BY <2>1, <2>2, <3>2
    <3> QED
      BY <3>7, <3>9, <3>10, <3>11 DEF LeavesNothing
  <2>4. CASE ~FillFront
    <3>1. fills' = fills /\ (~Idle' => taker' = taker)
      BY <1>6, <2>4, OtherEffects DEF BookStep
    <3>2. tally' = tally
      BY <1>1, <1>6, <3>1 DEF BookStep
    <3> QED
      BY <2>1, <2>2, <3>1, <3>2 DEF LeavesNothing
  <2> QED
    BY <2>3, <2>4
<1>7. CASE ReceiveOrder
  <2> DEFINE c == Head(toExchange)
             q == toExchange
  <2>1. q \in Seq(Order) /\ q \in Seq(Command) /\ q # <<>> /\ xpc = "orders"
    BY <1>7 DEF OrdersHold, LoopTyped, ReceiveOrder, At
  <2>2. c \in Order
    BY <2>1, HeadTailProperties
  <2>3. c.id \in StrategyIds /\ c.action = "new" /\ c.qty = OrderQty /\ c.type = "market"
    BY <2>2 DEF Order, Command
  <2>4. Submit(c.id, c.side, Limit(c), c.qty, <<>>) /\ tally' = tally
    BY <1>7, <2>3, ReceiveOrderCalls DEF ReceiveOrder
  <2> HIDE DEF c
  <2>5. fills' = <<>> /\ taker'.id = c.id /\ taker'.limit = None /\ taker'.left = OrderQty
    BY <2>3, <2>4, SubmitBegins DEF Limit
  <2>6. tally[c.id].executed = 0
    <3> DEFINE a == tally[c.id].executed
               b == Running(c.id)
               d == Returning(c.id)
               m == Asked(c.id, Tail(q))
    <3>1. a \in Nat /\ b \in Nat /\ d \in Nat
      BY <2>3, CommittedType
    <3>2. m \in Nat
      <4>1. Tail(q) \in Seq(Command)
        BY <2>1, HeadTailProperties
      <4> QED
        BY <4>1, CommandQtys, AsksType
    <3>3. Asked(c.id, q) = OrderQty + m
      <4>1. Asked(c.id, q) = If(Head(q).id = c.id, Head(q).qty) + Asked(c.id, Tail(q))
        BY <2>1, CommandQtys, AskedOfTail
      <4> QED
        BY <2>3, <4>1 DEF If, c
    <3>4. a + b + d + Asked(c.id, q) <= Placed[c.id]
      BY <2>3 DEF Within, Committed
    <3>5. Placed[c.id] \in Nat /\ Placed[c.id] <= OrderQty
      BY <2>3, PlacedType, SizeAssumption
    <3> HIDE DEF a, b, d, m, q
    <3>6. a = 0
      BY <3>1, <3>2, <3>3, <3>4, <3>5, SizeAssumption
    <3> QED
      BY <3>6 DEF a
  <2>7. tally'[taker'.id].executed + taker'.left = OrderQty
    BY <2>4, <2>5, <2>6, SizeAssumption
  <2>8. DOMAIN <<>> = {}
    OBVIOUS
  <2> QED
    BY <2>5, <2>7, <2>8 DEF LeavesNothing
<1>8. CASE PublishFill
  <2>1. UNCHANGED <<bookVars, xpc>>
    BY <1>8 DEF PublishFill
  <2> QED
    BY <1>3, <1>8, <2>1, PublishedIsDue
<1>9. CASE ExchangeNext /\ ~BookStep /\ ~ReceiveOrder /\ ~PublishFill
  <2>1. ~Replace
    BY DEF Replace, At, OrdersHold
  <2>2. xpc' # "fills"
    BY <1>9, <2>1 DEF ExchangeNext, MatchOrders, Participants, MarketData, FillsPublished,
       StartRound, PostAsk, Churn, Cross, Prune, PublishMakerFill, MakersPublished, NotDue,
       PublishTop, NotifyTop, TopUnmoved, NextTurn, Primed, AfterTick, Goto, At
  <2> QED
    BY <2>2 DEF LeavesNothing
<1> QED
  BY <1>4, <1>5, <1>6, <1>7, <1>8, <1>9 DEF Next, ExchangeTurn

\* The report of a market order's fill: it was not reported in full before, and is
\* when the report is a terminal one.
LEMMA ReportOfTaker ==
  ASSUME BookStructure, LoopTyped, ControlHolds, ReportsHold, StrategyHolds, Within(Placed),
         NeverMakes, LeavesNothing, PublishFill
  PROVE  \E r \in Reported :
           /\ Send(r) /\ r.id \in StrategyIds
           /\ tally[r.id].reported # OrderQty
           /\ r.status = 2 => tally'[r.id].reported = OrderQty
           /\ \A id \in StrategyIds \ {r.id} : tally'[id].reported = tally[id].reported
<1> DEFINE f == fills[sent + 1]
           r == Report(f.taker, f, f.left, FillStatus(f.left))
           id == f.taker
<1>1. /\ sent < Len(fills) /\ xpc = "fills" /\ Idle
      /\ fills \in Seq(Fill) /\ sent \in Nat /\ Len(fills) \in Nat
  BY LenProperties DEF PublishFill, At, BookStructure, BookTypeOK, LoopTyped
<1>2. sent + 1 \in DOMAIN fills /\ f \in Fill /\ ~IsSynthetic(f.taker) /\ r \in Reported
  BY <1>1, PublishedReport
<1>3. Send(r)
  BY <1>2 DEF PublishFill
<1>4. id \in StrategyIds /\ f.qty \in Nat \ {0}
  <2>1. id \in StrategyIds
    BY <1>1, <1>2 DEF ControlHolds, FillsBy
  <2>2. f.qty \in Nat \ {0}
    BY <1>2, MaxQtyAssumption DEF Fill
  <2> QED
    BY <2>1, <2>2
<1>5. r.id = id /\ r.qty = f.qty /\ r.status = IF f.left = 0 THEN 2 ELSE 1
  BY DEF Report, FillStatus
<1>6. f.left = 0 => sent + 1 = Len(fills) /\ tally[id].executed = OrderQty
  BY <1>1, <1>2 DEF LeavesNothing
<1> DEFINE e == tally[id].executed
           c == tally[id].reported
           d == Due(id, f)
           u == Unsent(id, fills, sent + 1)
<1>7. Owed(id) = d + u /\ u \in Nat /\ (sent + 1 = Len(fills) => u = 0)
  <2>1. Unsent(id, fills, sent) = d + u
    BY <1>1, UnsentShrinks
  <2>2. u \in Nat
    BY <1>1, UnsentType
  <2>3. sent + 1 = Len(fills) => u = 0
    BY <1>1, UnsentAtEnds
  <2> QED
    BY <1>1, <2>1, <2>2, <2>3 DEF Owed
<1>8. d \in Nat /\ d >= f.qty
  <2>1. If(f.taker = id, f.qty) = f.qty
    BY DEF If
  <2>2. If(f.maker = id /\ IsSynthetic(f.taker), f.qty) \in Nat
    BY <1>4 DEF If
  <2> QED
    BY <1>4, <2>1, <2>2 DEF Due
<1>9. /\ e \in Nat /\ c \in Nat /\ e <= OrderQty
      /\ e = 0 + c + Owed(id)
  <2>1. tally[id].selfMade = 0
    BY <1>4 DEF NeverMakes
  <2>2. /\ e \in Nat /\ c \in Nat /\ e <= Placed[id]
        /\ e = tally[id].selfMade + c + Owed(id)
    BY <1>4, PlacedType, ExchangeAccount
  <2>3. Placed[id] \in Nat /\ Placed[id] <= OrderQty
    BY <1>4, PlacedType, SizeAssumption
  <2> QED
    BY <2>1, <2>2, <2>3, SizeAssumption
<1>10. tally'[id].reported = c + d
  BY <1>4, PublishedIsDue
<1>11. \A k \in StrategyIds \ {id} : tally'[k].reported = tally[k].reported
  <2> SUFFICES ASSUME NEW k \in StrategyIds \ {id} PROVE tally'[k].reported = tally[k].reported
    OBVIOUS
  <2>1. tally'[k].reported = tally[k].reported + If(r.id = k, r.qty)
    BY <1>2, <1>3, SendTyped
  <2>2. If(r.id = k, r.qty) = 0
    BY <1>5 DEF If
  <2>3. tally[k].reported \in Nat
    BY PlacedType, ExchangeAccount
  <2> QED
    BY <2>1, <2>2, <2>3
<1> HIDE DEF e, c, d, u
<1>12. c # OrderQty
  BY <1>4, <1>7, <1>8, <1>9, SizeAssumption
<1>13. f.left = 0 => c + d = OrderQty
  <2> SUFFICES ASSUME f.left = 0 PROVE c + d = OrderQty
    OBVIOUS
  <2>1. u = 0 /\ e = OrderQty
    BY <1>6, <1>7 DEF e
  <2> QED
    BY <1>7, <1>8, <1>9, <2>1, SizeAssumption
<1>14. r.status = 2 => tally'[id].reported = OrderQty
  BY <1>5, <1>10, <1>13
<1> HIDE DEF r
<1> QED
  BY <1>2, <1>3, <1>4, <1>5, <1>11, <1>12, <1>14 DEF c

\* A terminal report is the last of its order.
LEMMA EndsItKept ==
  ASSUME BookStructure, LoopTyped, ControlHolds, ReportsHold, StrategyHolds, Within(Placed),
         ContextHolds, NeverMakes, LeavesNothing, EndsIt, [Next]_vars
  PROVE  EndsIt'
<1>1. /\ env' = env /\ reports \in Seq(Reported) /\ Len(reports) \in Nat
      /\ Len(reports) <= Capacity /\ DOMAIN reports = 1..Len(reports)
  BY TurnsOfPipeline, LenProperties DEF LoopTyped
<1>2. \A i \in DOMAIN reports : reports[i].id \in StrategyIds
  <2>1. \A i \in DOMAIN reports : reports[i] \in Reported
    BY <1>1, ElementOfSeq
  <2> QED
    BY <2>1 DEF Reported, ReportType
<1>3. ASSUME UNCHANGED <<reports, booked>>,
             \A id \in StrategyIds : tally'[id].reported = tally[id].reported
      PROVE  EndsIt'
  BY <1>2, <1>3 DEF EndsIt
<1>4. CASE StrategyTurn \/ UNCHANGED vars
  BY <1>3, <1>4 DEF StrategyTurn, vars, exchangeVars, executionVars
<1>5. CASE ExchangeTurn /\ PublishFill
  <2>1. booked' = booked
    BY <1>5 DEF ExchangeTurn, executionVars
  <2>2. PICK r \in Reported :
          /\ Send(r) /\ r.id \in StrategyIds
          /\ tally[r.id].reported # OrderQty
          /\ r.status = 2 => tally'[r.id].reported = OrderQty
          /\ \A id \in StrategyIds \ {r.id} : tally'[id].reported = tally[id].reported
    BY <1>5, ReportOfTaker
  <2>3. reports' = Delivered(reports, r)
    BY <2>2 DEF Send
  <2>4. PICK d \in {0, 1} :
          /\ Len(reports) - d \in Nat /\ Len(reports') = Len(reports) - d + 1
          /\ \A i \in 1..(Len(reports) - d) : reports'[i] = reports[i + d]
          /\ reports'[Len(reports) - d + 1] = r
    BY <1>1, <2>3, DeliveredShape
  <2> DEFINE n == Len(reports) - d
  <2>5. DOMAIN reports' = 1..(n + 1)
    <3>1. reports' \in Seq(Reported)
      BY <2>2, SendTyped
    <3> QED
      BY <2>4, <3>1, LenProperties
  <2>6. \A i \in 1..n : i + d \in DOMAIN reports /\ reports'[i] = reports[i + d]
    BY <1>1, <2>4
  <2>7. n \in Nat /\ reports'[n + 1] = r
    BY <2>4
  <2> HIDE DEF n
  <2>8. ASSUME NEW i \in DOMAIN reports', reports'[i].status = 2
        PROVE  /\ tally'[reports'[i].id].reported = OrderQty
               /\ \A j \in DOMAIN reports' : i < j => reports'[j].id # reports'[i].id
    <3>1. CASE i = n + 1
      <4>1. \A j \in DOMAIN reports' : ~(i < j)
        BY <2>5, <2>7, <3>1
      <4> QED
        BY <2>2, <2>7, <2>8, <3>1, <4>1
    <3>2. CASE i \in 1..n
      <4> DEFINE k == reports[i + d].id
      <4>1. i + d \in DOMAIN reports /\ reports'[i] = reports[i + d] /\ i \in Nat /\ d \in Nat
        BY <2>6, <3>2
      <4>2. /\ k \in StrategyIds /\ tally[k].reported = OrderQty
            /\ \A j \in DOMAIN reports : i + d < j => reports[j].id # k
        BY <1>2, <2>8, <4>1 DEF EndsIt
      <4>3. k # r.id /\ tally'[k].reported = OrderQty
        BY <2>2, <4>2
      <4>4. ASSUME NEW j \in DOMAIN reports', i < j PROVE reports'[j].id # k
        <5>1. CASE j = n + 1
          BY <2>7, <4>3, <5>1
        <5>2. CASE j \in 1..n
          <6>1. j + d \in DOMAIN reports /\ reports'[j] = reports[j + d] /\ i + d < j + d
            BY <2>6, <4>1, <4>4, <5>2
          <6> QED
            BY <4>2, <6>1
        <5> QED
          BY <2>5, <2>7, <5>1, <5>2
      <4> QED
        BY <4>1, <4>3, <4>4
    <3> QED
      BY <2>5, <2>7, <3>1, <3>2
  <2>9. ASSUME NEW id \in StrategyIds, booked[id].terminal # 0
        PROVE  /\ booked[id].terminal = 1 /\ tally'[id].reported = OrderQty
               /\ \A j \in DOMAIN reports' : reports'[j].id # id
    <3>1. /\ booked[id].terminal = 1 /\ tally[id].reported = OrderQty
          /\ \A j \in DOMAIN reports : reports[j].id # id
      BY <2>9 DEF EndsIt
    <3>2. id # r.id /\ tally'[id].reported = OrderQty
      BY <2>2, <3>1
    <3>3. ASSUME NEW j \in DOMAIN reports' PROVE reports'[j].id # id
      <4>1. j = n + 1 \/ j \in 1..n
        BY <2>5, <2>7
      <4> QED
        BY <2>6, <2>7, <3>1, <3>2, <4>1
    <3> QED
      BY <3>1, <3>2, <3>3
  <2> QED
    BY <2>1, <2>8, <2>9 DEF EndsIt
<1>6. CASE ExchangeTurn /\ ~PublishFill
  <2>1. booked' = booked
    BY <1>6 DEF ExchangeTurn, executionVars
  <2>2. CASE PublishMakerFill
    <3>1. sent < Len(fills)
      BY <2>2 DEF PublishMakerFill
    <3>2. ~StrategyMaker(fills[sent + 1])
      BY <3>1, PublishedReport DEF NeverMakes, StrategyMaker, IsSynthetic
    <3>3. UNCHANGED <<reports, tally>>
      BY <2>2, <3>2 DEF PublishMakerFill
    <3> QED
      BY <1>3, <2>1, <3>3
  <2>3. CASE ~PublishMakerFill
    BY <1>3, <1>6, <2>1, <2>3, LoopReports DEF ExchangeTurn
  <2> QED
    BY <2>2, <2>3
<1>7. CASE ExecutionTurn /\ (DrainOrder \/ Drained \/ NoReport)
  <2>1. UNCHANGED <<reports, booked, tally>>
    BY <1>7 DEF ExecutionTurn, DrainOrder, Drained, NoReport
  <2> QED
    BY <1>3, <2>1
<1>8. CASE ExecutionTurn /\ (SkipReport \/ BookReport)
  <2> DEFINE r == Head(reports)
  <2>1. tally' = tally /\ ReceiveReport /\ booked \in [StrategyIds -> Booking]
    BY <1>8 DEF ExecutionTurn, SkipReport, BookReport, ContextHolds
  <2>2. /\ r.id \in StrategyIds /\ reports # <<>> /\ reports' = Tail(reports)
    BY <2>1, ReportTaken
  <2>3. /\ reports' \in Seq(Reported) /\ Len(reports') = Len(reports) - 1
        /\ \A i \in 1..Len(reports') : reports'[i] = reports[i + 1]
        /\ r = reports[1] /\ Len(reports) # 0
    BY <1>1, <2>2, HeadTailProperties, EmptySeq
  <2>4. /\ DOMAIN reports' = 1..Len(reports') /\ 1 \in DOMAIN reports
        /\ \A i \in DOMAIN reports' : /\ i + 1 \in DOMAIN reports /\ reports'[i] = reports[i + 1]
                                      /\ i \in Nat /\ 1 < i + 1
    <3>1. DOMAIN reports' = 1..Len(reports')
      BY <2>3, LenProperties
    <3> QED
      BY <1>1, <2>3, <3>1
  <2>5. /\ \A id \in StrategyIds \ {r.id} : booked'[id] = booked[id]
        /\ \/ booked'[r.id].terminal = booked[r.id].terminal
           \/ r.status = 2 /\ booked'[r.id].terminal = booked[r.id].terminal + 1
    <3>1. booked[r.id].terminal \in Nat
      BY <2>1, <2>2 DEF Booking
    <3>2. \A id \in StrategyIds \ {r.id} : booked'[id] = booked[id]
      BY <1>8, <2>1, ReportBooked
    <3>3. SkipReport => booked'[r.id].terminal = booked[r.id].terminal
      BY <2>1, ReportBooked
    <3>4. BookReport => booked'[r.id].terminal = booked[r.id].terminal
                          + (IF r.status = 2 THEN 1 ELSE 0)
      BY <2>1, ReportBooked
    <3> DEFINE t == booked[r.id].terminal
               u == booked'[r.id].terminal
               two == r.status = 2
    <3>5. t \in Nat /\ (u = t \/ u = t + (IF two THEN 1 ELSE 0))
      BY <1>8, <3>1, <3>3, <3>4
    <3> HIDE DEF t, u, two
    <3>6. u = t \/ (two /\ u = t + 1)
      BY <3>5
    <3>7. \/ booked'[r.id].terminal = booked[r.id].terminal
          \/ r.status = 2 /\ booked'[r.id].terminal = booked[r.id].terminal + 1
      BY <3>6 DEF t, u, two
    <3> QED
      BY <3>2, <3>7
  <2> HIDE DEF r
  <2>6. ASSUME NEW i \in DOMAIN reports', reports'[i].status = 2
        PROVE  /\ tally[reports'[i].id].reported = OrderQty
               /\ \A j \in DOMAIN reports' : i < j => reports'[j].id # reports'[i].id
    <3>1. /\ tally[reports[i + 1].id].reported = OrderQty
          /\ \A j \in DOMAIN reports : i + 1 < j => reports[j].id # reports[i + 1].id
      BY <2>4, <2>6 DEF EndsIt
    <3> QED
      BY <2>4, <3>1
  <2>7. ASSUME NEW id \in StrategyIds, booked'[id].terminal # 0
        PROVE  /\ booked'[id].terminal = 1 /\ tally[id].reported = OrderQty
               /\ \A j \in DOMAIN reports' : reports'[j].id # id
    <3>1. CASE booked[id].terminal # 0
      <4>1. /\ booked[id].terminal = 1 /\ tally[id].reported = OrderQty
            /\ \A j \in DOMAIN reports : reports[j].id # id
        BY <3>1 DEF EndsIt
      <4>2. id # r.id
        BY <2>3, <2>4, <4>1
      <4> QED
        BY <2>4, <2>5, <4>1, <4>2
    <3>2. CASE booked[id].terminal = 0
      <4>1. id = r.id /\ r.status = 2 /\ booked'[id].terminal = 1
        BY <2>5, <2>7, <3>2
      <4>2. /\ tally[id].reported = OrderQty
            /\ \A j \in DOMAIN reports : 1 < j => reports[j].id # id
        BY <2>3, <2>4, <4>1 DEF EndsIt
      <4> QED
        BY <2>4, <4>1, <4>2
    <3> QED
      BY <3>1, <3>2
  <2> QED
    BY <2>1, <2>6, <2>7 DEF EndsIt
<1> QED
  BY <1>4, <1>5, <1>6, <1>7, <1>8 DEF Next, ExecutionTurn, ExecutionNext
----------------------------------------------------------------------------
(* The invariant, and what follows from it *)

\* The invariant holds in the initial state.
LEMMA InitPipeline == Init => PipelineInvariant
<1> SUFFICES ASSUME Init PROVE PipelineInvariant
  OBVIOUS
<1>1. /\ BookStructure /\ LoopTyped /\ ControlHolds /\ PrimingHolds /\ ReportsHold /\ ClearedHolds
      /\ AbstractOrders = {} /\ \A id \in StrategyIds : Committed(id) = 0
  BY InitHolds DEF Init
<1>2. env \in Settings /\ env.maxOrders \in Nat \ {0}
  BY SettingsAssumption DEF Init, EnvInit
<1>3. StrategyHolds
  BY <1>2 DEF Init, StrategyInit, StrategyHolds
<1>4. OrdersHold
  <2>1. \A S : <<>> \in Seq(S) /\ Len(<<>>) = 0
    BY EmptySeq
  <2> QED
    BY <2>1, CapacityAssumption DEF Init, BusInit, ExchangeInit, OrdersHold
<1>5. Within(Placed)
  <2>1. \A id \in StrategyIds : Placed[id] = 0
    BY PlacedType DEF Init
  <2> QED
    BY <1>1, <2>1 DEF Within
<1>6. ContextHolds
  <2>1. IsFiniteSet({}) /\ Cardinality({}) = 0 /\ Len(<<>>) = 0
    BY FS_EmptySet, EmptySeq
  <2>2. booked \in [StrategyIds -> Booking]
    BY PipelineAssumption DEF Init, ExecutionInit, Booking
  <2> QED
    BY <2>1, <2>2 DEF Init, BusInit, StrategyInit, ExecutionInit, ContextHolds
<1>7. AccountsHold
  <2>1. \A id : InFlight(id) = 0
    <3>1. \A id : Asks(id, <<>>) = <<>>
      BY DEF Asks
    <3> QED
      BY <3>1, SumOfEmpty, InFlightIsAsked DEF Init, BusInit, Asked
  <2> QED
    BY <2>1, PipelineAssumption DEF Init, ExchangeInit, ExecutionInit, AccountsHold
<1>8. HeldIsBooked
  <2>1. SentIds = {} /\ held = 0
    BY DEF Init, ExecutionInit, SentIds
  <2> QED
    BY <2>1, HeldSum, SumEmpty
<1>9. NeverMakes /\ LeavesNothing /\ EndsIt
  <2>1. /\ \A id \in OrderIds : ~IsResting(id)
        /\ fills = <<>> /\ DOMAIN fills = {} /\ DOMAIN reports = {}
    BY DEF Init, BusInit, ExchangeInit, BookInit, IsResting
  <2>2. NeverMakes
    BY <2>1 DEF Init, ExchangeInit, NeverMakes, StrategyIds
  <2>3. LeavesNothing
    BY DEF Init, ExchangeInit, LeavesNothing
  <2>4. EndsIt
    BY <2>1, PipelineAssumption DEF Init, ExecutionInit, EndsIt
  <2> QED
    BY <2>2, <2>3, <2>4
<1> QED
  BY <1>1, <1>3, <1>4, <1>5, <1>6, <1>7, <1>8, <1>9 DEF PipelineInvariant, MarketHolds

\* What holds of market orders goes on holding of them.
LEMMA MarketKept ==
  ASSUME BookStructure, LoopTyped, ControlHolds, ReportsHold, StrategyHolds, OrdersHold,
         Within(Placed), ContextHolds, MarketHolds, [Next]_vars
  PROVE  MarketHolds'
<1>1. env' = env
  BY TurnsOfPipeline
<1>2. CASE env.passive
  BY <1>1, <1>2 DEF MarketHolds
<1>3. CASE ~env.passive
  <2>1. NeverMakes /\ LeavesNothing /\ EndsIt
    BY <1>3 DEF MarketHolds
  <2> QED
    BY <1>3, <2>1, NeverMakesKept, LeavesNothingKept, EndsItKept DEF MarketHolds
<1> QED
  BY <1>2, <1>3

\* The three stages keep their invariant, however their steps interleave, and
\* whatever the queues between them lose.
THEOREM PipelineInvariantHolds == Spec => []PipelineInvariant
<1>1. PipelineInvariant /\ [Next]_vars => PipelineInvariant'
  <2> SUFFICES ASSUME PipelineInvariant, [Next]_vars
               PROVE  PipelineInvariant'
    OBVIOUS
  <2>1. Turn
    BY TurnsOfPipeline DEF PipelineInvariant
  <2>2. /\ BookStructure' /\ LoopTyped' /\ ControlHolds' /\ PrimingHolds' /\ ReportsHold'
        /\ ClearedHolds'
    BY <2>1, StructureKept, LoopTypedKept, ControlKept, PrimingKept, ReportsKept, ClearedKept
       DEF PipelineInvariant
  <2>3. StrategyHolds' /\ OrdersHold' /\ Within(Placed)'
    BY StrategyKept, OrdersKept, PlacedKept DEF PipelineInvariant
  <2>4. ContextHolds' /\ AccountsHold' /\ HeldIsBooked' /\ MarketHolds'
    BY ContextKept, AccountsKept, HeldKept, MarketKept DEF PipelineInvariant
  <2> QED
    BY <2>2, <2>3, <2>4 DEF PipelineInvariant
<1> QED
  BY <1>1, InitPipeline, PTL DEF Spec

\* The stages keep the types of their variables: contexts are one per order, no
\* more orders are completed than may be sent, and no queue outgrows its capacity.
THEOREM StagesTypeCorrect == Spec => []TypeOK
<1>1. PipelineInvariant => TypeOK
  <2> SUFFICES ASSUME PipelineInvariant PROVE TypeOK
    OBVIOUS
  <2>1. completed \in 0..env.maxOrders
    <3>1. /\ completed + Cardinality(ctx) + Len(toExecution) <= orderId
          /\ completed \in Nat /\ IsFiniteSet(ctx) /\ toExecution \in Seq(Order)
      BY DEF PipelineInvariant, ContextHolds, OrdersHold
    <3>2. orderId \in 0..env.maxOrders /\ env.maxOrders \in Nat
      BY SettingType DEF PipelineInvariant, StrategyHolds
    <3>3. Cardinality(ctx) \in Nat /\ Len(toExecution) \in Nat
      BY <3>1, FS_CardinalityType, LenProperties
    <3> QED
      BY <3>1, <3>2, <3>3
  <2> QED
    BY <2>1 DEF PipelineInvariant, StrategyHolds, ContextHolds, OrdersHold, LoopTyped, TypeOK
<1> QED
  BY <1>1, PipelineInvariantHolds, PTL

\* Every quantity the exchange reports is booked, skipped, lost or in flight, and it
\* reports no more than was executed, which is no more than was ordered.
THEOREM NoFillInvented == Spec => []FillsConserved
<1>1. PipelineInvariant => FillsConserved
  <2> SUFFICES ASSUME PipelineInvariant, NEW id \in StrategyIds
               PROVE  /\ tally[id].reported =
                           booked[id].qty + booked[id].skipped + tally[id].lost + InFlight(id)
                      /\ tally[id].reported <= tally[id].executed
                      /\ tally[id].executed <= OrderQty
                      /\ placed[id] = "none" => tally[id].executed = 0
    BY DEF FillsConserved
  <2>1. /\ tally[id].executed \in Nat /\ tally[id].reported <= tally[id].executed
        /\ tally[id].executed <= Placed[id]
    BY PlacedType, ExchangeAccount DEF PipelineInvariant
  <2>2. Placed[id] = IF placed[id] = "none" THEN 0 ELSE OrderQty
    BY PlacedType
  <2>3. tally[id].reported = booked[id].qty + booked[id].skipped + tally[id].lost + InFlight(id)
    BY DEF PipelineInvariant, AccountsHold
  <2> QED
    BY <2>1, <2>2, <2>3, SizeAssumption
<1> QED
  BY <1>1, PipelineInvariantHolds, PTL

\* The execution stage's position is the sum of what it booked, with the side of
\* each order as the strategy sent it.
THEOREM PositionIsBooked == Spec => []HeldIsBooked
<1>1. PipelineInvariant => HeldIsBooked
  BY DEF PipelineInvariant
<1> QED
  BY <1>1, PipelineInvariantHolds, PTL

\* Market orders have one terminal report, after all of the order is executed and
\* reported, and nothing follows it.
THEOREM TerminalEndsMarketOrder == Spec => []MarketTerminalIsFinal
<1>1. PipelineInvariant => MarketTerminalIsFinal
  <2> SUFFICES ASSUME PipelineInvariant, ~env.passive, NEW id \in StrategyIds
               PROVE  /\ booked[id].terminal <= 1
                      /\ booked[id].terminal = 1 =>
                           tally[id].executed = OrderQty /\ InFlight(id) = 0
    BY DEF MarketTerminalIsFinal, TerminalIsFinal
  <2>1. booked[id].terminal \in Nat /\ EndsIt
    BY ExecutionAccount DEF PipelineInvariant, MarketHolds
  <2>2. CASE booked[id].terminal = 0
    BY <2>2
  <2>3. CASE booked[id].terminal # 0
    <3>1. /\ booked[id].terminal = 1 /\ tally[id].reported = OrderQty
          /\ \A j \in DOMAIN reports : reports[j].id # id
      BY <2>1, <2>3 DEF EndsIt
    <3>2. /\ tally[id].executed \in Nat /\ tally[id].reported <= tally[id].executed
          /\ tally[id].executed <= Placed[id] /\ Placed[id] <= OrderQty
      BY PlacedType, ExchangeAccount, SizeAssumption DEF PipelineInvariant
    <3>3. InFlight(id) = 0
      <4>1. reports \in Seq(Reported)
        BY DEF PipelineInvariant, LoopTyped
      <4>2. /\ Asks(id, reports) \in Seq(Int) /\ Len(Asks(id, reports)) = Len(reports)
            /\ DOMAIN reports = 1..Len(reports)
            /\ \A i \in 1..Len(reports) : Asks(id, reports)[i] = If(reports[i].id = id, reports[i].qty)
        BY <4>1, ReportQtys, AsksType, LenProperties
      <4>3. \A i \in 1..Len(reports) : Asks(id, reports)[i] = 0
        BY <3>1, <4>2 DEF If
      <4> DEFINE v == Asks(id, reports)
      <4>4. /\ v \in Seq(Int) /\ DOMAIN v = 1..Len(reports)
            /\ \A i \in DOMAIN v : v[i] = 0
        BY <4>2, <4>3, LenProperties
      <4> HIDE DEF v
      <4>5. SumFunction(v) = 0
        BY <4>4, SequenceSum, SumZero
      <4> QED
        BY <4>5, InFlightIsAsked DEF Asked, v
    <3> DEFINE e == tally[id].executed
    <3>4. e \in Nat /\ OrderQty <= e /\ e <= Placed[id] /\ Placed[id] <= OrderQty
          /\ Placed[id] \in Nat
      BY <3>1, <3>2, PlacedType
    <3> HIDE DEF e
    <3>5. e = OrderQty
      BY <3>4, SizeAssumption
    <3> QED
      BY <3>1, <3>3, <3>5 DEF e
  <2> QED
    BY <2>2, <2>3
<1> QED
  BY <1>1, PipelineInvariantHolds, PTL

\* The book is asked to add an order of the strategy's once only, and before it has
\* anything of it: an order on its way is not in the book, has executed nothing, and
\* is on its way once.
THEOREM OrdersAreFresh == Spec => []FreshOrders
<1>1. PipelineInvariant => FreshOrders
  <2> DEFINE q == toExchange
  <2> SUFFICES ASSUME PipelineInvariant, NEW i \in DOMAIN q
               PROVE  /\ ~IsResting(q[i].id)
                      /\ tally[q[i].id].executed = 0
                      /\ \A j \in DOMAIN q : q[i].id = q[j].id => i = j
    BY DEF FreshOrders
  <2>1. /\ BookStructure /\ LoopTyped /\ ControlHolds /\ ClearedHolds /\ Within(Placed)
        /\ q \in Seq(Order) /\ q \in Seq(Command)
    BY DEF PipelineInvariant, OrdersHold, LoopTyped
  <2>2. \A j \in DOMAIN q : q[j] \in Order
    BY <2>1, ElementOfSeq
  <2>3. \A j \in DOMAIN q : q[j].id \in StrategyIds /\ q[j].id \in OrderIds /\ q[j].qty = OrderQty
    BY <2>2 DEF Order, Command, StrategyIds
  <2> DEFINE id == q[i].id
             a == tally[id].executed
             b == Running(id)
             c == Returning(id)
             d == Placed[id]
  <2>4. PICK n \in Nat : /\ Asked(id, q) = OrderQty + n
                         /\ \A j \in DOMAIN q : j # i /\ q[j].id = id => q[j].qty <= n
    BY <2>1, <2>3, CommandQtys, AskedOfMembers
  <2>5. /\ a \in Nat /\ b \in Nat /\ c \in Nat /\ d \in Nat /\ d <= OrderQty
        /\ Committed(id) \in Nat /\ Committed(id) = a + b + c + Asked(id, q)
        /\ Committed(id) <= d
    <3>1. Committed(id) <= d
      BY <2>1, <2>3 DEF Within
    <3>2. d \in Nat /\ d <= OrderQty
      BY <2>3, PlacedType, SizeAssumption
    <3> QED
      BY <2>1, <2>3, <3>1, <3>2, CommittedType DEF Committed
  <2>6. a = 0 /\ n = 0 /\ Committed(id) = d
    <3> DEFINE m == Committed(id)
    <3>1. /\ a \in Nat /\ b \in Nat /\ c \in Nat /\ d \in Nat /\ d <= OrderQty /\ m \in Nat
          /\ m = a + b + c + (OrderQty + n) /\ m <= d
      BY <2>4, <2>5
    <3> HIDE DEF a, b, c, d, m
    <3>2. a = 0 /\ n = 0 /\ m = d
      BY <3>1, SizeAssumption
    <3> QED
      BY <3>2 DEF m
  <2>7. \A j \in DOMAIN q : q[i].id = q[j].id => i = j
    <3> SUFFICES ASSUME NEW j \in DOMAIN q, q[j].id = id, i # j PROVE FALSE
      OBVIOUS
    <3>1. OrderQty <= 0
      BY <2>3, <2>4, <2>6
    <3> QED
      BY <3>1, SizeAssumption
  <2>8. ASSUME IsResting(id) PROVE FALSE
    <3>1. PICK l \in locate[id] : TRUE
      BY <2>8 DEF IsResting
    <3>2. l \in Location
      BY <2>1, <2>3 DEF BookStructure, BookTypeOK
    <3>3. CASE id \in cleared
      <4>1. a > 0
        BY <2>1, <2>3, <3>3 DEF ClearedHolds
      <4> QED
        BY <2>6, <4>1
    <3>4. CASE id \notin cleared
      <4>1. id \in IdsAt(l)
        BY <2>1, <2>3, <3>1, <3>2, <3>4 DEF BookStructure, LocateExact
      <4>2. PICK k \in DOMAIN QueueAt(l) : QueueAt(l)[k].id = id
        BY <4>1 DEF IdsAt, Ids
      <4> DEFINE o == OrderAt(l, QueueAt(l), k)
      <4>3. o \in AbstractOrders /\ o.id = id
        BY <3>2, <4>2 DEF AbstractOrders, OrdersIn, OrderAt
      <4> HIDE DEF o
      <4>4. o.left \in Nat \ {0}
        BY <2>1, <4>3, OrderTyped, MaxQtyAssumption
      <4>5. Committed(o.id) + o.left <= Placed[o.id]
        BY <2>1, <2>3, <4>3 DEF Within
      <4>6. d + o.left <= d
        BY <2>6, <4>3, <4>5
      <4> QED
        BY <2>5, <4>4, <4>6
    <3> QED
      BY <3>3, <3>4
  <2> QED
    BY <2>6, <2>7, <2>8
<1> QED
  BY <1>1, PipelineInvariantHolds, PTL

=============================================================================
