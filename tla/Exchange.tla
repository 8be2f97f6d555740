------------------------------ MODULE Exchange ------------------------------
(***************************************************************************)
(* The exchange process: src/src/bin/exchange.rs.                          *)
(*                                                                         *)
(* One thread loops: drain the order queue, matching each command and       *)
(* publishing a report per fill; when the cadence is due, run one round of *)
(* synthetic participants and report the strategy's maker fills; publish   *)
(* the top of the book when a best price moved.  `xpc` is where the loop   *)
(* is; a call into the book runs as OrderBook's own steps, and the loop    *)
(* goes on when the book is idle again.                                    *)
(*                                                                         *)
(* Left out: fees and timestamps, the random walk of the fair value (any   *)
(* of Quotes may come next), SIGINT, the order event (it only shortens a   *)
(* timed wait), and the book snapshot, which nothing in src/ consumes.     *)
(***************************************************************************)
EXTENDS OrderBook, Bus

CONSTANTS
  SynIds,       \* ids with SYNTHETIC_BIT; one may come back once it is gone
  Quotes,       \* <<bid_px, ask_px>> pairs a fair value can give
  QuoteSizes,   \* sizes of the participants' quotes
  CrossSizes,   \* sizes of the synthetic takers
  PrimeRounds,  \* rounds before the loop starts
  MaxRounds,    \* bound: participant rounds in a run
  MarketNotify  \* MARKET_NOTIFY=1

ASSUME SynAssumption    == SynIds \subseteq OrderIds
ASSUME QuotesAssumption == \A q \in Quotes : q \in Prices \X Prices /\ q[1] < q[2]
ASSUME SizesAssumption  == QuoteSizes \cup CrossSizes \subseteq 1..MaxQty
ASSUME RoundsAssumption == PrimeRounds \in Nat /\ MaxRounds \in Nat

IsSynthetic(id) == id \in SynIds
StrategyIds == OrderIds \ SynIds

VARIABLES
  xpc,       \* where the loop is
  cmd,       \* the command being handled
  quote,     \* the round's <<bid_px, ask_px>>
  sent,      \* fills already looked at by the publishing loop
  live,      \* Participants.live
  rounds,    \* rounds run so far
  lastBid, lastAsk,   \* last_bid, last_ask
  tally      \* history, per strategy order: the quantity the book executed, how
             \* much of it as the maker of another strategy order, the quantity
             \* reported, and how much of that a full queue lost

\* A command on the order service, and a report on the execution service.
Command == [action : {"new", "cancel", "modify"}, id : StrategyIds, side : Side,
            type : {"market", "limit"}, px : Prices, qty : 0..MaxQty]

ReportType == [id : StrategyIds, px : Prices, qty : 1..MaxQty, left : 0..MaxQty, status : {1, 2}]

matchVars == <<cmd, sent>>
roundVars == <<quote, live, rounds>>
topVars == <<lastBid, lastAsk, ticks, tickEvent>>
exchangeVars == <<bookVars, xpc, matchVars, roundVars, topVars, toExchange, reports, tally>>

ExchangeInit ==
  /\ BookInit
  /\ xpc = "prime" /\ cmd = None /\ quote = None /\ sent = 0
  /\ live = {} /\ rounds = 0
  /\ lastBid = 0 /\ lastAsk = 0
  /\ tally = [id \in StrategyIds |->
                [executed |-> 0, selfMade |-> 0, reported |-> 0, lost |-> 0]]

Goto(label) == xpc' = label

\* A step of the loop itself, taken when no call into the book is running.
At(label) == xpc = label /\ Idle

----------------------------------------------------------------------------
(* The steps of a call into the book, and the history of what it executes. *)

If(condition, n) == IF condition THEN n ELSE 0

CountFill(f) ==
  tally' = [id \in StrategyIds |->
              [tally[id] EXCEPT
                 !.executed = @ + If(f.taker = id, f.qty) + If(f.maker = id, f.qty),
                 !.selfMade = @ + If(f.maker = id /\ ~IsSynthetic(f.taker), f.qty)]]

BookStep ==
  /\ SubmitStep
  /\ IF Len(fills') > Len(fills) THEN CountFill(Last(fills')) ELSE UNCHANGED tally
  /\ UNCHANGED <<xpc, matchVars, roundVars, topVars, toExchange, reports>>

\* A report is sent; when the execution stage's queue is full it replaces the
\* oldest one there.
Send(r) ==
  /\ reports' = Delivered(reports, r)
  /\ tally' = [id \in StrategyIds |->
                 [tally[id] EXCEPT
                    !.reported = @ + If(r.id = id, r.qty),
                    !.lost = @ + If(Lost(reports) # <<>> /\ Head(reports).id = id,
                                    Head(reports).qty)]]

Report(id, f, left, status) ==
  [id |-> id, px |-> f.px, qty |-> f.qty, left |-> left, status |-> status]

----------------------------------------------------------------------------
(* 1) The hot path: match_strategy_order and publish_fills. *)

Limit(c) == IF c.type = "limit" THEN c.px ELSE None

\* Variant: the fills of the command before are not cleared.
SubmitUncleared(c, sink) == Submit(c.id, c.side, Limit(c), c.qty, fills)

SubmitCommand(c, sink) == Submit(c.id, c.side, Limit(c), c.qty, sink)

\* The next command; its outcome is not looked at.
ReceiveOrder ==
  /\ At("orders")
  /\ toExchange # <<>>
  /\ toExchange' = Tail(toExchange)
  /\ LET c == Head(toExchange)
     IN  /\ cmd' = c
         /\ IF c.action = "new" THEN SubmitCommand(c, <<>>)
            ELSE Cancel(c.id) /\ fills' = <<>>
         /\ Goto(IF c.action = "modify" THEN "replace" ELSE "fills")
  /\ UNCHANGED <<sent, roundVars, topVars, reports, tally>>

\* The second half of a modify, whatever became of the first.
Replace ==
  /\ At("replace")
  /\ SubmitCommand(cmd, fills)
  /\ Goto("fills")
  /\ UNCHANGED <<matchVars, roundVars, topVars, toExchange, reports, tally>>

\* Variant: every taker fill ends its order.
AlwaysFilled(left) == 2

\* 1 is a partial fill, 2 a terminal one.
FillStatus(left) == IF left = 0 THEN 2 ELSE 1

\* One fill of the command's order: a report when its taker is the strategy's.
PublishFill ==
  /\ At("fills")
  /\ sent < Len(fills)
  /\ LET f == fills[sent + 1]
     IN  IF IsSynthetic(f.taker) THEN UNCHANGED <<reports, tally>>
         ELSE Send(Report(f.taker, f, f.left, FillStatus(f.left)))
  /\ sent' = sent + 1
  /\ UNCHANGED <<bookVars, xpc, cmd, roundVars, topVars, toExchange>>

FillsPublished ==
  /\ At("fills")
  /\ sent = Len(fills)
  /\ Goto("orders")
  /\ cmd' = None
  /\ sent' = 0
  /\ UNCHANGED <<bookVars, roundVars, topVars, toExchange, reports, tally>>

----------------------------------------------------------------------------
(* 2) The paced path: Participants::act, once per cadence. *)

\* new_syn_id: a synthetic id nobody holds.
FreshIds == {id \in SynIds \ live : \A other \in SynIds \ live : id <= other}

\* Priming runs its rounds back to back; the loop runs one when the queue is
\* drained and the cadence has elapsed, which may be at any time.  A round
\* needs at most three ids.
StartRound ==
  /\ IF rounds < PrimeRounds THEN At("prime") ELSE At("orders") /\ toExchange = <<>>
  /\ rounds < MaxRounds
  /\ Cardinality(SynIds \ live) >= 3
  /\ rounds' = rounds + 1
  /\ \E q \in Quotes, size \in QuoteSizes, id \in FreshIds :
       /\ Submit(id, "buy", q[1], size, <<>>)
       /\ live' = live \cup {id}
       /\ quote' = q
  /\ Goto("ask")
  /\ UNCHANGED <<matchVars, topVars, toExchange, reports, tally>>

PostAsk ==
  /\ At("ask")
  /\ \E size \in QuoteSizes, id \in FreshIds :
       /\ Submit(id, "sell", quote[2], size, fills)
       /\ live' = live \cup {id}
  /\ quote' = None
  /\ Goto("churn")
  /\ UNCHANGED <<matchVars, rounds, topVars, toExchange, reports, tally>>

\* Half of the rounds cancel one of the live ids, whether it still rests or not.
Churn ==
  /\ At("churn")
  /\ Goto("cross")
  /\ \/ UNCHANGED <<bookVars, live>>
     \/ \E id \in live : Cancel(id) /\ live' = live \ {id} /\ UNCHANGED fills
  /\ UNCHANGED <<matchVars, quote, rounds, topVars, toExchange, reports, tally>>

\* A quarter of them send a synthetic taker.
Cross ==
  /\ At("cross")
  /\ Goto("prune")
  /\ \/ UNCHANGED bookVars
     \/ \E side \in Side, size \in CrossSizes, id \in FreshIds :
          Submit(id, side, None, size, fills)
  /\ UNCHANGED <<matchVars, roundVars, topVars, toExchange, reports, tally>>

\* Variant: nothing is pruned.
AllKept == live

Pruned == {id \in live : IsResting(id)}

\* The ids that no longer rest leave `live`; priming publishes nothing.
Prune ==
  /\ At("prune")
  /\ live' = Pruned
  /\ Goto(IF rounds <= PrimeRounds THEN "prime" ELSE "makers")
  /\ UNCHANGED <<bookVars, matchVars, quote, rounds, topVars, toExchange, reports, tally>>

\* Variant: a maker that still rests is not reported.
GoneMaker(f) == ~IsSynthetic(f.maker) /\ ~IsResting(f.maker)

StrategyMaker(f) == ~IsSynthetic(f.maker)

\* publish_strategy_maker_fills: every fill of a strategy maker is reported as
\* a terminal one, whatever the order has left.
PublishMakerFill ==
  /\ At("makers")
  /\ sent < Len(fills)
  /\ LET f == fills[sent + 1]
     IN  IF StrategyMaker(f) THEN Send(Report(f.maker, f, 0, 2))
         ELSE UNCHANGED <<reports, tally>>
  /\ sent' = sent + 1
  /\ UNCHANGED <<bookVars, xpc, cmd, roundVars, topVars, toExchange>>

MakersPublished ==
  /\ At("makers")
  /\ sent = Len(fills)
  /\ Goto("top")
  /\ sent' = 0
  /\ UNCHANGED <<bookVars, cmd, roundVars, topVars, toExchange, reports, tally>>

\* The queue is drained and no round is due: spin, or wait with a timeout.
NotDue ==
  /\ At("orders")
  /\ toExchange = <<>>
  /\ Goto("top")
  /\ UNCHANGED <<bookVars, matchVars, roundVars, topVars, toExchange, reports, tally>>

----------------------------------------------------------------------------
(* 3) The top of the book. *)

\* best_bid / best_ask .unwrap_or(0)
BestOrZero(s) == IF keys[s] = {} THEN 0 ELSE CHOOSE p \in BestOf(s) : TRUE

Mid(bid, ask) ==
  IF bid > 0 /\ ask > 0 THEN (bid + ask) \div 2 ELSE IF bid > ask THEN bid ELSE ask

\* Variant: only the bid is looked at.
BidMoved == BestOrZero("buy") # lastBid

TopMoved == BestOrZero("buy") # lastBid \/ BestOrZero("sell") # lastAsk

\* Variant: the market event is never notified.
NoNotify == "loop"

AfterTick == IF MarketNotify THEN "notify" ELSE "loop"

PublishTop ==
  /\ At("top")
  /\ TopMoved
  /\ lastBid' = BestOrZero("buy")
  /\ lastAsk' = BestOrZero("sell")
  /\ ticks' = Delivered(ticks, [bid |-> lastBid', ask |-> lastAsk',
                                price |-> Mid(lastBid', lastAsk')])
  /\ Goto(AfterTick)
  /\ UNCHANGED <<bookVars, matchVars, roundVars, tickEvent, toExchange, reports, tally>>

NotifyTop ==
  /\ At("notify")
  /\ tickEvent' = TRUE
  /\ Goto("loop")
  /\ UNCHANGED <<bookVars, matchVars, roundVars, lastBid, lastAsk, ticks, toExchange, reports, tally>>

TopUnmoved ==
  /\ At("top")
  /\ ~TopMoved
  /\ Goto("loop")
  /\ UNCHANGED <<bookVars, matchVars, roundVars, topVars, toExchange, reports, tally>>

NextTurn ==
  /\ At("loop")
  /\ Goto("orders")
  /\ UNCHANGED <<bookVars, matchVars, roundVars, topVars, toExchange, reports, tally>>

Primed ==
  /\ At("prime")
  /\ rounds = PrimeRounds
  /\ Goto("loop")
  /\ UNCHANGED <<bookVars, matchVars, roundVars, topVars, toExchange, reports, tally>>

----------------------------------------------------------------------------
MatchOrders  == ReceiveOrder \/ Replace \/ PublishFill \/ FillsPublished
Participants == StartRound \/ PostAsk \/ Churn \/ Cross \/ Prune
                \/ PublishMakerFill \/ MakersPublished \/ NotDue
MarketData   == PublishTop \/ NotifyTop \/ TopUnmoved \/ NextTurn \/ Primed

ExchangeNext == BookStep \/ MatchOrders \/ Participants \/ MarketData
=============================================================================
