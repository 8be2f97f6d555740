---------------------------- MODULE ExchangeLemmas ----------------------------
(***************************************************************************)
(* Lemmas about the exchange process, whoever its clients are: what its    *)
(* loop keeps true while other processes send it commands and read what it *)
(* publishes.  ExchangeProofs and PipelineProofs conclude from them.       *)
(***************************************************************************)
EXTENDS Exchange, OrderBookProofs

----------------------------------------------------------------------------
(* The others *)

\* A queue that nobody, or its reader, has touched.
Taken(q, r) == r = q \/ (q # <<>> /\ r = Tail(q))

\* What a step of another process does to the variables of this one.
Outside ==
  /\ UNCHANGED <<bookVars, xpc, matchVars, roundVars, lastBid, lastAsk, tally>>
  /\ toExchange' \in Seq(Command) /\ Len(toExchange') <= Capacity
  /\ Taken(reports, reports') /\ Taken(ticks, ticks')

Turn == ExchangeNext \/ Outside

----------------------------------------------------------------------------
(* The inductive invariant *)

\* Where a call into the book may be running, and where the fills of the last
\* one are still wanted: by the command's reports or by the round's.
Calling == {"fills", "ask", "churn", "prune"}

InRound == {"ask", "churn", "cross", "prune", "makers"}

FillsBy(ids) == \A i \in DOMAIN fills : fills[i].taker \in ids

\* Whose call is running, whose fills are in the vector, and how much of it the
\* publishing loops have looked at.
ControlHolds ==
  /\ ~Idle => xpc \in Calling /\ taker.id \in IF xpc = "fills" THEN StrategyIds ELSE SynIds
  /\ xpc = "fills" => FillsBy(StrategyIds)
  /\ xpc \in InRound => FillsBy(SynIds)
  /\ ~Idle \/ xpc \notin {"fills", "makers"} => sent = 0
  /\ xpc = "replace" => cmd \in Command /\ fills = <<>>
  /\ xpc = "ask" => quote \in Prices \X Prices

Reported == {r \in ReportType : r.status = 2 <=> r.left = 0}

Quoted == Prices \cup {0}

Tick == [bid : Quoted, ask : Quoted, price : Quoted]

Tally == [executed : Nat, selfMade : Nat, reported : Nat, lost : Nat]

\* TypeOK, and the types of what it leaves out.
LoopTyped ==
  /\ xpc \in {"prime", "orders", "replace", "fills", "ask", "churn", "cross", "prune",
              "makers", "top", "notify", "loop"}
  /\ cmd \in Command \cup {None}
  /\ toExchange \in Seq(Command) /\ Len(toExchange) <= Capacity
  /\ sent \in 0..Len(fills)
  /\ live \subseteq SynIds /\ rounds \in 0..MaxRounds
  /\ reports \in Seq(Reported) /\ Len(reports) <= Capacity
  /\ ticks \in Seq(Tick) /\ Len(ticks) <= Capacity
  /\ lastBid \in Quoted /\ lastAsk \in Quoted
  /\ tally \in [StrategyIds -> Tally]

\* A synthetic order that rests is in `live`, the one being submitted included;
\* a synthetic taker sent by Cross leaves nothing to rest.
LiveHolds ==
  /\ \A id \in SynIds : IsResting(id) => id \in live
  /\ ~Idle /\ xpc \in {"ask", "churn"} => taker.id \in live
  /\ ~Idle /\ xpc = "prune" => taker.limit = None
  /\ xpc = "makers" => \A id \in live : IsResting(id)

\* Before the loop starts no strategy order is in the book, so that the fills of
\* priming, which nobody reports, are of synthetic orders.
PrimingHolds ==
  /\ xpc = "prime" => rounds <= PrimeRounds
  /\ xpc \notin {"prime"} \cup InRound => rounds >= PrimeRounds
  /\ xpc = "makers" => rounds > PrimeRounds
  /\ xpc = "prime" \/ (xpc \in InRound /\ rounds <= PrimeRounds) =>
       \A id \in StrategyIds : ~IsResting(id)
  /\ xpc \in InRound /\ rounds <= PrimeRounds =>
       \A i \in DOMAIN fills : fills[i].maker \in SynIds

TopHolds ==
  /\ xpc \in {"notify", "loop"} /\ rounds > PrimeRounds =>
       lastBid = BestOrZero("buy") /\ lastAsk = BestOrZero("sell")
  /\ ticks # <<>> => Last(ticks).bid = lastBid /\ Last(ticks).ask = lastAsk

\* What a fill is to be reported for: as the order that took it, or as the
\* maker of a synthetic one's.
Due(id, f) == If(f.taker = id, f.qty) + If(f.maker = id /\ IsSynthetic(f.taker), f.qty)

Dues(id, q) == [i \in DOMAIN q |-> Due(id, q[i])]

\* ... and has not been so far.
Unsent(id, q, s) == SumFunctionOnSet(Dues(id, q), (s + 1)..Len(q))

Owed(id) == IF xpc \in {"fills"} \cup InRound THEN Unsent(id, fills, sent) ELSE 0

ReportsHold ==
  \A id \in StrategyIds :
    tally[id].executed = tally[id].selfMade + tally[id].reported + Owed(id)

\* What the samples in a queue carry for one id: commands, or reports.
Asks(id, q) == [i \in DOMAIN q |-> If(q[i].id = id, q[i].qty)]

Asked(id, q) == SumFunction(Asks(id, q))

\* What an order has executed or may yet without going through the book: the
\* quantity of the running submit, of the second half of a modify, of the queue.
Running(id) == If(~Idle /\ taker.id = id, taker.left)

Returning(id) == If(xpc = "replace" /\ cmd.id = id, cmd.qty)

Committed(id) == tally[id].executed + Running(id) + Returning(id) + Asked(id, toExchange)

\* No order goes beyond a limit of its own.
Within(lim) ==
  /\ \A id \in StrategyIds : Committed(id) <= lim[id]
  /\ \A o \in AbstractOrders :
       o.id \in StrategyIds => Committed(o.id) + o.left <= lim[o.id]

\* The makers that the running submit has taken out of their level, and that the
\* index still holds, have executed.
ClearedHolds == \A id \in cleared : id \in StrategyIds => tally[id].executed > 0

\* ... after the step, for limits that do not change with it.
WithinAfter(lim) ==
  /\ \A id \in StrategyIds : Committed(id)' <= lim[id]
  /\ \A o \in AbstractOrders' :
       o.id \in StrategyIds => Committed(o.id)' + o.left <= lim[o.id]

----------------------------------------------------------------------------
(* What the loop's steps do to the book *)

\* The calls into the book, by whoever makes them.
SubmitCall ==
  \E id \in OrderIds, side \in Side, limit \in Prices \cup {None}, qty \in 0..MaxQty :
    \E sink \in {<<>>, fills} : Submit(id, side, limit, qty, sink)

CancelCall == \E id \in OrderIds : Cancel(id) /\ fills' \in {<<>>, fills}

\* A command's price, as submit takes it.
LEMMA LimitType ==
  ASSUME NEW c \in Command
  PROVE  Limit(c) \in Prices \cup {None} /\ c.id \in OrderIds /\ c.id \in StrategyIds
         /\ c.side \in Side /\ c.qty \in 0..MaxQty
BY DEF Command, Limit, StrategyIds

\* Every sample of the two queues has a quantity.
LEMMA CommandQtys == \A c \in Command : c.qty \in Nat
BY MaxQtyAssumption DEF Command

\* Every report in a queue has a quantity.
LEMMA ReportQtys == \A r \in Reported : r.qty \in Nat
BY MaxQtyAssumption DEF Reported, ReportType

\* The command at the head of the queue.
LEMMA HeadCommand ==
  ASSUME LoopTyped, toExchange # <<>>
  PROVE  Head(toExchange) \in Command /\ Tail(toExchange) \in Seq(Command)
         /\ Len(Tail(toExchange)) = Len(toExchange) - 1 /\ Len(toExchange) \in Nat
BY HeadTailProperties, LenProperties DEF LoopTyped

\* A command received is one call of the book, with what the command holds.
LEMMA ReceiveOrderCalls ==
  ASSUME LoopTyped, ReceiveOrder
  PROVE  /\ LET c == Head(toExchange) IN
              IF c.action = "new" THEN Submit(c.id, c.side, Limit(c), c.qty, <<>>)
              ELSE Cancel(c.id) /\ fills' = <<>>
         /\ Head(toExchange) \in Command
         /\ SubmitCall \/ CancelCall
<1> DEFINE c == Head(toExchange)
<1>1. c \in Command
  BY HeadCommand DEF ReceiveOrder
<1>2. IF c.action = "new" THEN Submit(c.id, c.side, Limit(c), c.qty, <<>>)
      ELSE Cancel(c.id) /\ fills' = <<>>
  BY DEF ReceiveOrder, SubmitCommand
<1> HIDE DEF c
<1>3. SubmitCall \/ CancelCall
  BY <1>1, <1>2, LimitType DEF SubmitCall, CancelCall
<1> QED
  BY <1>1, <1>2, <1>3 DEF c

\* The steps of a synthetic round that submit are calls of the book too.
LEMMA RoundSubmits ==
  ASSUME LoopTyped, ControlHolds
  PROVE  /\ Replace => SubmitCall
         /\ StartRound => SubmitCall
         /\ PostAsk => SubmitCall
         /\ Cross => SubmitCall \/ UNCHANGED bookVars
<1> USE DEF SubmitCall
<1>1. \A id \in FreshIds : id \in SynIds /\ id \in OrderIds /\ id \notin live
  BY SynAssumption DEF FreshIds
<1>2. \A n \in QuoteSizes \cup CrossSizes : n \in 0..MaxQty
  BY SizesAssumption, MaxQtyAssumption
<1>3. Replace => SubmitCall
  BY LimitType DEF Replace, SubmitCommand, At, ControlHolds
<1>4. StartRound => SubmitCall
  <2>1. \A q \in Quotes : q[1] \in Prices
    BY QuotesAssumption
  <2> QED
    BY <1>1, <1>2, <2>1 DEF StartRound, Side
<1>5. PostAsk => SubmitCall
  <2>1. xpc = "ask" => quote[2] \in Prices
    BY DEF ControlHolds
  <2> QED
    BY <1>1, <1>2, <2>1 DEF PostAsk, At, Side
<1>6. Cross => SubmitCall \/ UNCHANGED bookVars
  BY <1>1, <1>2 DEF Cross, Side
<1> QED
  BY <1>3, <1>4, <1>5, <1>6

\* Cancel churn cancels a live order or does nothing.
LEMMA ChurnCalls ==
  ASSUME LoopTyped, Churn
  PROVE  CancelCall \/ UNCHANGED bookVars
BY SynAssumption DEF Churn, CancelCall, LoopTyped

\* The steps of the loop that do not touch the book.
Quiet ==
  \/ PublishFill \/ FillsPublished
  \/ Prune \/ PublishMakerFill \/ MakersPublished \/ NotDue
  \/ PublishTop \/ NotifyTop \/ TopUnmoved \/ NextTurn \/ Primed

\* The other steps of the loop, and those of the strategies, leave the book alone.
LEMMA QuietKeepsBook == Quiet \/ Outside => UNCHANGED bookVars
BY DEF Quiet, PublishFill, FillsPublished, Prune, PublishMakerFill, MakersPublished, NotDue,
   PublishTop, NotifyTop, TopUnmoved, NextTurn, Primed, Outside

\* The steps of the loop, by what they do to the book.
LEMMA LoopSteps ==
  ASSUME ExchangeNext
  PROVE  \/ BookStep \/ ReceiveOrder \/ Replace
         \/ StartRound \/ PostAsk \/ Churn \/ Cross \/ Quiet
BY DEF ExchangeNext, MatchOrders, Participants, MarketData, Quiet

\* Whatever happens is a step of the loop or of another process.
LEMMA Steps ==
  ASSUME Turn
  PROVE  \/ BookStep \/ ReceiveOrder \/ Replace
         \/ StartRound \/ PostAsk \/ Churn \/ Cross \/ Quiet
         \/ Outside
BY LoopSteps DEF Turn

\* Every step leaves the book whole.
LEMMA StructureKept ==
  ASSUME BookStructure, LoopTyped, ControlHolds, Turn
  PROVE  BookStructure'
<1>1. fills \in Seq(Fill) /\ <<>> \in Seq(Fill)
  BY EmptySeq DEF BookStructure, BookTypeOK
<1>2. CASE SubmitCall
  BY <1>1, <1>2, SubmitPreserves DEF SubmitCall
<1>3. CASE CancelCall
  BY <1>1, <1>3, CancelPreserves DEF CancelCall
<1>4. CASE BookStep
  BY <1>4, SubmitStepPreserves DEF BookStep
<1>5. CASE UNCHANGED bookVars
  BY <1>5, StutterPreserves
<1> QED
  BY <1>2, <1>3, <1>4, <1>5, Steps, ReceiveOrderCalls, RoundSubmits, ChurnCalls, QuietKeepsBook

----------------------------------------------------------------------------
(* What a step of a running submit does *)

\* What the members of the abstract book are.
LEMMA OrderTyped ==
  ASSUME BookStructure, NEW o \in AbstractOrders
  PROVE  /\ o = [id |-> o.id, side |-> o.side, px |-> o.px, left |-> o.left]
         /\ o.left \in 1..MaxQty /\ o.id \in OrderIds
<1>1. PICK l \in Location : \E i \in DOMAIN QueueAt(l) : o = OrderAt(l, QueueAt(l), i)
  BY OrderIsSomewhere
<1>2. PICK i \in DOMAIN QueueAt(l) : o = OrderAt(l, QueueAt(l), i)
  BY <1>1
<1>3. QueueAt(l)[i] \in Resting
  BY QueueApart, LenProperties, ElementOfSeq
<1>4. QueueAt(l)[i].left \in 1..MaxQty /\ QueueAt(l)[i].id \in OrderIds
  BY <1>3 DEF Resting
<1> QED
  BY <1>2, <1>4 DEF OrderAt

\* An id has one order in the book.
LEMMA OneOrderPerId ==
  ASSUME BookStructure, NEW o \in AbstractOrders, NEW p \in AbstractOrders, o.id = p.id
  PROVE  o = p
<1>1. PICK l \in Location : \E i \in DOMAIN QueueAt(l) :
        o = OrderAt(l, QueueAt(l), i) /\ o.id \in IdsAt(l)
  BY OrderIsSomewhere
<1>2. PICK k \in Location : \E j \in DOMAIN QueueAt(k) :
        p = OrderAt(k, QueueAt(k), j) /\ p.id \in IdsAt(k)
  BY OrderIsSomewhere
<1>3. k = l
  BY <1>1, <1>2, QueueApart
<1>4. PICK i \in DOMAIN QueueAt(l) : o = OrderAt(l, QueueAt(l), i)
  BY <1>1
<1>5. PICK j \in DOMAIN QueueAt(l) : p = OrderAt(l, QueueAt(l), j)
  BY <1>2, <1>3
<1>6. QueueAt(l)[i].id = QueueAt(l)[j].id
  BY <1>4, <1>5 DEF OrderAt
<1>7. i = j
  BY <1>6, QueueApart DEF NoRepeats
<1> QED
  BY <1>4, <1>5, <1>7

\* A fill is between the taker and an order of the book, which it takes out or
\* reduces by what it takes.
LEMMA FillEffects ==
  ASSUME BookStructure, FillFront
  PROVE  \E f \in Fill :
           /\ f.taker = taker.id
           /\ fills' = Append(fills, f)
           /\ Last(fills') = f /\ Len(fills') = Len(fills) + 1
           /\ IsResting(f.maker)
           /\ cleared' \subseteq cleared \cup {f.maker}
           /\ taker'.left = taker.left - f.qty /\ f.left = taker'.left
           /\ \E m \in AbstractOrders :
                /\ m.id = f.maker /\ m.left \in Nat /\ f.qty <= m.left
                /\ \A o \in AbstractOrders' :
                     \/ o \in AbstractOrders /\ o.id # m.id
                     \/ o.id = m.id /\ o.left = m.left - f.qty
<1> DEFINE maker == Head(queue[Opp][level])
           qty   == IF taker.left < maker.left THEN taker.left ELSE maker.left
           f     == FillOf(maker, qty)
           here  == [side |-> Opp, px |-> level]
<1>1. /\ phase = "level" /\ taker \in Taker /\ taker.left \in 1..MaxQty /\ ~Idle /\ ~Idle'
      /\ Opp \in Side /\ level \in Prices /\ queue[Opp][level] \in Seq(Resting)
      /\ queue[Opp][level] # <<>> /\ fills \in Seq(Fill) /\ Len(fills) \in Nat
  BY MaxQtyAssumption, LenProperties DEF BookStructure, BookTypeOK, FillFront,
     Idle, Opp, Opposite, Side, Taker
<1>2. /\ maker \in Resting /\ maker = queue[Opp][level][1] /\ 1 \in DOMAIN queue[Opp][level]
  BY <1>1, HeadTailProperties, LenProperties, EmptySeq
<1>3. maker.left \in 1..MaxQty /\ maker.id \in OrderIds
  <2> HIDE DEF maker
  <2> QED
    BY <1>2 DEF Resting
<1>4. maker.id \in IdsAt(here) /\ here \in Location
  BY <1>1, <1>2 DEF IdsAt, Ids, QueueAt, Location
<1>5. /\ taker' = [taker EXCEPT !.left = @ - qty] /\ fills' = Append(fills, f)
      /\ cleared' \subseteq cleared \cup {maker.id}
  BY DEF FillFront
<1> HIDE DEF maker
<1>6. qty \in 1..MaxQty /\ taker.left - qty \in 0..MaxQty
  BY <1>1, <1>3, MaxQtyAssumption
<1>7. f.taker = taker.id /\ f.qty = qty /\ f.maker = maker.id /\ f.left = taker.left - qty
  BY DEF FillOf
<1>8. f \in Fill
  BY <1>1, <1>3, <1>6 DEF Fill, Taker, FillOf
<1> HIDE DEF qty, f
<1>9. taker'.left = taker.left - f.qty /\ f.left = taker'.left
  BY <1>1, <1>5, <1>7 DEF Taker
<1>10. Len(fills') = Len(fills) + 1 /\ fills'[Len(fills) + 1] = f /\ fills' # <<>>
  BY <1>1, <1>5, <1>8, AppendProperties
<1>11. Last(fills') = f
  BY <1>10 DEF Last
<1>12. IsResting(f.maker)
  <2>1. here \in locate[maker.id]
    BY <1>3, <1>4 DEF BookStructure, LocateExact
  <2> QED
    BY <2>1, <1>7 DEF IsResting
<1>13. \E m \in AbstractOrders :
         /\ m.id = f.maker /\ m.left \in Nat /\ f.qty <= m.left
         /\ \A o \in AbstractOrders' :
              \/ o \in AbstractOrders /\ o.id # m.id
              \/ o.id = m.id /\ o.left = m.left - f.qty
  <2>1. PTP!Trade
    BY FillTrades
  <2>2. AbstractIncoming.left = taker.left
    BY <1>1, Matching
  <2>3. AbstractPrint' = [maker |-> f.maker, px |-> f.px, qty |-> f.qty]
    BY <1>10, <1>11 DEF AbstractPrint
  <2>4. PICK m \in AbstractOrders :
          LET n == IF taker.left < m.left THEN taker.left ELSE m.left
          IN  /\ AbstractPrint' = [maker |-> m.id, px |-> m.px, qty |-> n]
              /\ IF n = m.left
                 THEN AbstractOrders' = AbstractOrders \ {m}
                 ELSE AbstractOrders' = (AbstractOrders \ {m}) \cup {[m EXCEPT !.left = @ - n]}
    BY <2>1, <2>2 DEF PTP!Trade
  <2>5. m.id = f.maker /\ f.qty = IF taker.left < m.left THEN taker.left ELSE m.left
    BY <2>3, <2>4
  <2>6. /\ m = [id |-> m.id, side |-> m.side, px |-> m.px, left |-> m.left]
        /\ m.left \in 1..MaxQty
    BY OrderTyped
  <2>7. \A o \in AbstractOrders' :
          \/ o \in AbstractOrders /\ o # m
          \/ o.id = m.id /\ o.left = m.left - f.qty
    BY <2>4, <2>5, <2>6
  <2>8. m.left \in Nat /\ f.qty <= m.left
    BY <2>5, <2>6, <1>1, MaxQtyAssumption
  <2> QED
    BY <2>5, <2>7, <2>8, OneOrderPerId
<1> QED
  BY <1>5, <1>7, <1>8, <1>9, <1>10, <1>11, <1>12, <1>13

\* The other steps of a running submit fill nothing; what is left may rest.
LEMMA OtherEffects ==
  ASSUME BookStructure, SubmitStep, ~FillFront
  PROVE  /\ fills' = fills
         /\ ~Idle' => taker' = taker
         /\ \/ AbstractOrders' = AbstractOrders
            \/ /\ Idle' /\ taker.limit # None
               /\ \A o \in AbstractOrders' :
                    o \in AbstractOrders \/ (o.id = taker.id /\ o.left = taker.left)
<1>1. fills' = fills /\ (~Idle' => taker' = taker)
  BY DEF SubmitStep, MatchStep, ReturnStep, EnterLevel, LeaveLevel, ReturnFilled,
     RejectRemainder, RestRemainder, Return, Idle
<1>2. CASE RestRemainder
  <2>1. PTP!Rest /\ ~Idle /\ Idle' /\ taker.limit # None
    BY <1>2, RestRests DEF RestRemainder, Return, Idle
  <2>2. AbstractOrders' = AbstractOrders \cup {[id |-> taker.id, side |-> taker.side,
                                                px |-> taker.limit, left |-> taker.left]}
    BY <2>1, Matching DEF PTP!Rest
  <2> QED
    BY <1>1, <2>1, <2>2
<1>3. CASE ~RestRemainder
  <2>1. queue' = queue
    BY <1>3 DEF SubmitStep, MatchStep, ReturnStep, EnterLevel, LeaveLevel, ReturnFilled,
       RejectRemainder, book
  <2> QED
    BY <1>1, <2>1, SameQueues
<1> QED
  BY <1>2, <1>3

\* While a submit runs its order stays the same, and only it can come to rest.
LEMMA TakerEffects ==
  ASSUME BookStructure, SubmitStep
  PROVE  /\ ~Idle
         /\ taker.id \in OrderIds
         /\ ~Idle' => taker'.id = taker.id /\ taker'.limit = taker.limit
         /\ \A id \in OrderIds :
              IsResting(id)' => IsResting(id) \/ (id = taker.id /\ Idle' /\ taker.limit # None)
<1>1. ~Idle /\ taker \in Taker /\ locate \in [OrderIds -> SUBSET Location]
  BY DEF SubmitStep, MatchStep, ReturnStep, EnterLevel, FillFront, LeaveLevel, ReturnFilled,
     RejectRemainder, RestRemainder, Idle, BookStructure, BookTypeOK
<1>2. taker.id \in OrderIds
  BY <1>1 DEF Taker
<1>3. ~Idle' => taker'.id = taker.id /\ taker'.limit = taker.limit
  BY <1>1 DEF SubmitStep, MatchStep, ReturnStep, EnterLevel, FillFront, LeaveLevel, ReturnFilled,
     RejectRemainder, RestRemainder, Return, Idle, Taker
<1>4. ASSUME NEW id \in OrderIds, IsResting(id)'
      PROVE  IsResting(id) \/ (id = taker.id /\ Idle' /\ taker.limit # None)
  <2>1. CASE RestRemainder
    <3>1. locate'[id] = IF id = taker.id THEN {[side |-> taker.side, px |-> taker.limit]} ELSE locate[id]
      BY <2>1, <1>1, <1>2 DEF RestRemainder
    <3> QED
      BY <1>4, <2>1, <3>1 DEF IsResting, RestRemainder, Return, Idle
  <2>2. CASE LeaveLevel
    BY <1>4, <2>2 DEF LeaveLevel, Forgotten, IsResting
  <2>3. CASE EnterLevel \/ FillFront \/ ReturnFilled \/ RejectRemainder
    BY <1>4, <2>3 DEF EnterLevel, FillFront, ReturnFilled, RejectRemainder, book, IsResting
  <2> QED
    BY <2>1, <2>2, <2>3 DEF SubmitStep, MatchStep, ReturnStep
<1> QED
  BY <1>1, <1>2, <1>3, <1>4

----------------------------------------------------------------------------
(* Types *)

\* A sample sent into a queue is its last, and the queue keeps within capacity.
LEMMA DeliveredProperties ==
  ASSUME NEW S, NEW q \in Seq(S), NEW x \in S, Len(q) <= Capacity
  PROVE  /\ Delivered(q, x) \in Seq(S)
         /\ Delivered(q, x) # <<>>
         /\ Len(Delivered(q, x)) <= Capacity
         /\ Last(Delivered(q, x)) = x
<1> DEFINE r == IF Len(q) < Capacity THEN q ELSE Tail(q)
<1>1. Len(q) \in Nat /\ Capacity \in Nat \ {0}
  BY LenProperties, CapacityAssumption
<1>2. r \in Seq(S) /\ Len(r) \in Nat /\ Len(r) < Capacity
  <2>1. CASE Len(q) < Capacity
    BY <1>1, <2>1
  <2>2. CASE ~(Len(q) < Capacity)
    <3>1. q # <<>>
      BY <1>1, <2>2, EmptySeq
    <3> QED
      BY <1>1, <2>2, <3>1, HeadTailProperties
  <2> QED
    BY <2>1, <2>2
<1> HIDE DEF r
<1>3. /\ Append(r, x) \in Seq(S) /\ Append(r, x) # <<>>
      /\ Len(Append(r, x)) = Len(r) + 1 /\ Append(r, x)[Len(r) + 1] = x
  BY <1>2, AppendProperties
<1>4. Delivered(q, x) = Append(r, x)
  BY DEF Delivered, r
<1> QED
  BY <1>1, <1>2, <1>3, <1>4 DEF Last

\* A sample sent into a queue comes after the others, of which the first may be
\* lost: d of them.
LEMMA DeliveredShape ==
  ASSUME NEW S, NEW q \in Seq(S), NEW x \in S, Len(q) <= Capacity
  PROVE  \E d \in {0, 1} :
           /\ Len(q) - d \in Nat /\ Len(Delivered(q, x)) = Len(q) - d + 1
           /\ \A i \in 1..(Len(q) - d) : Delivered(q, x)[i] = q[i + d]
           /\ Delivered(q, x)[Len(q) - d + 1] = x
<1>1. Len(q) \in Nat /\ Capacity \in Nat \ {0}
  BY LenProperties, CapacityAssumption
<1>2. CASE Len(q) < Capacity
  <2>1. Delivered(q, x) = Append(q, x)
    BY <1>2 DEF Delivered
  <2>2. /\ Len(Append(q, x)) = Len(q) + 1 /\ Append(q, x)[Len(q) + 1] = x
        /\ \A i \in 1..Len(q) : Append(q, x)[i] = q[i]
    BY AppendProperties
  <2>3. Len(q) - 0 = Len(q) /\ \A i \in 1..Len(q) : i + 0 = i
    BY <1>1
  <2> QED
    BY <1>1, <2>1, <2>2, <2>3
<1>3. CASE ~(Len(q) < Capacity)
  <2> DEFINE r == Tail(q)
  <2>1. q # <<>>
    BY <1>1, <1>3, EmptySeq
  <2>2. r \in Seq(S) /\ Len(r) = Len(q) - 1 /\ \A i \in 1..Len(r) : r[i] = q[i + 1]
    BY <2>1, HeadTailProperties
  <2>3. Delivered(q, x) = Append(r, x)
    BY <1>3 DEF Delivered
  <2> HIDE DEF r
  <2>4. Len(r) \in Nat
    BY <2>2, LenProperties
  <2>5. /\ Len(Append(r, x)) = Len(r) + 1 /\ Append(r, x)[Len(r) + 1] = x
        /\ \A i \in 1..Len(r) : Append(r, x)[i] = r[i]
    BY <2>2, AppendProperties
  <2> QED
    BY <2>2, <2>3, <2>4, <2>5
<1> QED
  BY <1>2, <1>3

\* What a full queue loses of an id when one more sample is sent into it.
LostOf(id, q) == If(Lost(q) # <<>> /\ Head(q).id = id, Head(q).qty)

\* A report that is sent.
LEMMA SendTyped ==
  ASSUME LoopTyped, NEW r \in Reported, Send(r)
  PROVE  /\ reports' \in Seq(Reported) /\ Len(reports') <= Capacity
         /\ tally' \in [StrategyIds -> Tally]
         /\ \A id \in StrategyIds :
              /\ tally'[id].executed = tally[id].executed
              /\ tally'[id].selfMade = tally[id].selfMade
              /\ tally'[id].reported = tally[id].reported + If(r.id = id, r.qty)
              /\ tally'[id].lost = tally[id].lost + LostOf(id, reports)
<1>1. reports \in Seq(Reported) /\ Len(reports) <= Capacity /\ tally \in [StrategyIds -> Tally]
  BY DEF LoopTyped
<1>2. reports' \in Seq(Reported) /\ Len(reports') <= Capacity
  BY <1>1, DeliveredProperties DEF Send
<1>3. \A o \in Reported : o.qty \in Nat
  BY MaxQtyAssumption DEF Reported, ReportType
<1>4. reports # <<>> => Head(reports) \in Reported
  BY <1>1, HeadTailProperties
<1>5. Lost(reports) # <<>> => reports # <<>>
  BY <1>1, CapacityAssumption, EmptySeq DEF Lost
<1> DEFINE n(id) == If(r.id = id, r.qty)
           m(id) == If(Lost(reports) # <<>> /\ Head(reports).id = id, Head(reports).qty)
<1>6. \A id \in StrategyIds : n(id) \in Nat /\ m(id) \in Nat
  BY <1>3, <1>4, <1>5 DEF If
<1>7. tally' = [id \in StrategyIds |-> [tally[id] EXCEPT !.reported = @ + n(id), !.lost = @ + m(id)]]
  BY DEF Send
<1> HIDE DEF n, m
<1>8. ASSUME NEW id \in StrategyIds
      PROVE  /\ tally'[id] \in Tally
             /\ tally'[id].executed = tally[id].executed
             /\ tally'[id].selfMade = tally[id].selfMade
             /\ tally'[id].reported = tally[id].reported + n(id)
             /\ tally'[id].lost = tally[id].lost + m(id)
  <2>1. tally[id] \in Tally /\ tally'[id] = [tally[id] EXCEPT !.reported = @ + n(id), !.lost = @ + m(id)]
    BY <1>1, <1>7
  <2> DEFINE t == tally[id]
             u == tally'[id]
             a == n(id)
             b == m(id)
  <2>2. t \in Tally /\ a \in Nat /\ b \in Nat /\ u = [t EXCEPT !.reported = @ + a, !.lost = @ + b]
    BY <2>1, <1>6
  <2> HIDE DEF t, u, a, b
  <2>3. u \in Tally /\ u.executed = t.executed /\ u.selfMade = t.selfMade
        /\ u.reported = t.reported + a /\ u.lost = t.lost + b
    <3>1. /\ t = [executed |-> t.executed, selfMade |-> t.selfMade, reported |-> t.reported, lost |-> t.lost]
          /\ t.executed \in Nat /\ t.selfMade \in Nat /\ t.reported \in Nat /\ t.lost \in Nat
      BY <2>2 DEF Tally
    <3>2. t.reported + a \in Nat /\ t.lost + b \in Nat
      BY <3>1, <2>2
    <3> QED
      BY <3>1, <3>2, <2>2 DEF Tally
  <2> QED
    BY <2>3 DEF t, u, a, b
<1>9. tally' \in [StrategyIds -> Tally]
  BY <1>7, <1>8
<1> QED
  BY <1>2, <1>8, <1>9 DEF n, m, LostOf

\* A fill that is counted.
LEMMA CountTyped ==
  ASSUME LoopTyped, NEW f \in Fill, CountFill(f)
  PROVE  /\ tally' \in [StrategyIds -> Tally]
         /\ \A id \in StrategyIds :
              /\ tally'[id].executed = tally[id].executed + If(f.taker = id, f.qty) + If(f.maker = id, f.qty)
              /\ tally'[id].selfMade = tally[id].selfMade + If(f.maker = id /\ ~IsSynthetic(f.taker), f.qty)
              /\ tally'[id].reported = tally[id].reported
              /\ tally'[id].lost = tally[id].lost
<1>1. tally \in [StrategyIds -> Tally] /\ f.qty \in Nat
  BY MaxQtyAssumption DEF LoopTyped, Fill
<1> DEFINE n(id) == If(f.taker = id, f.qty)
           m(id) == If(f.maker = id, f.qty)
           k(id) == If(f.maker = id /\ ~IsSynthetic(f.taker), f.qty)
<1>2. \A id \in StrategyIds : n(id) \in Nat /\ m(id) \in Nat /\ k(id) \in Nat
  BY <1>1 DEF If
<1>3. tally' = [id \in StrategyIds |->
                  [tally[id] EXCEPT !.executed = @ + (n(id) + m(id)), !.selfMade = @ + k(id)]]
  <2>1. \A id \in StrategyIds : tally[id].executed \in Nat
    BY <1>1 DEF Tally
  <2> HIDE DEF n, m, k
  <2>2. \A id \in StrategyIds : tally[id].executed + n(id) + m(id) = tally[id].executed + (n(id) + m(id))
    BY <2>1, <1>2
  <2> QED
    BY <2>2 DEF CountFill, n, m, k
<1> HIDE DEF n, m, k
<1>4. ASSUME NEW id \in StrategyIds
      PROVE  /\ tally'[id] \in Tally
             /\ tally'[id].executed = tally[id].executed + n(id) + m(id)
             /\ tally'[id].selfMade = tally[id].selfMade + k(id)
             /\ tally'[id].reported = tally[id].reported
             /\ tally'[id].lost = tally[id].lost
  <2>1. /\ tally[id] \in Tally
        /\ tally'[id] = [tally[id] EXCEPT !.executed = @ + (n(id) + m(id)), !.selfMade = @ + k(id)]
    BY <1>1, <1>3
  <2>2. n(id) + m(id) \in Nat /\ k(id) \in Nat /\ tally[id].executed \in Nat
    BY <2>1, <1>2 DEF Tally
  <2> DEFINE t == tally[id]
             u == tally'[id]
             a == n(id) + m(id)
             b == k(id)
  <2>3. t \in Tally /\ a \in Nat /\ b \in Nat /\ u = [t EXCEPT !.executed = @ + a, !.selfMade = @ + b]
    BY <2>1, <2>2
  <2> HIDE DEF t, u, a, b
  <2>4. u \in Tally /\ u.executed = t.executed + a /\ u.selfMade = t.selfMade + b
        /\ u.reported = t.reported /\ u.lost = t.lost
    <3>1. /\ t = [executed |-> t.executed, selfMade |-> t.selfMade, reported |-> t.reported, lost |-> t.lost]
          /\ t.executed \in Nat /\ t.selfMade \in Nat /\ t.reported \in Nat /\ t.lost \in Nat
      BY <2>3 DEF Tally
    <3>2. t.executed + a \in Nat /\ t.selfMade + b \in Nat
      BY <3>1, <2>3
    <3> QED
      BY <3>1, <3>2, <2>3 DEF Tally
  <2>5. /\ tally'[id] \in Tally
        /\ tally'[id].executed = tally[id].executed + (n(id) + m(id))
        /\ tally'[id].selfMade = tally[id].selfMade + k(id)
        /\ tally'[id].reported = tally[id].reported
        /\ tally'[id].lost = tally[id].lost
    BY <2>4 DEF t, u, a, b
  <2> QED
    BY <2>2, <2>5, <1>2
<1>5. tally' \in [StrategyIds -> Tally]
  BY <1>3, <1>4
<1> QED
  BY <1>4, <1>5 DEF n, m, k

\* The reports the two publishing loops send.
LEMMA PublishedReport ==
  ASSUME BookStructure, LoopTyped, ControlHolds, sent < Len(fills)
  PROVE  LET f == fills[sent + 1] IN
         /\ sent + 1 \in DOMAIN fills /\ sent + 1 \in 1..Len(fills) /\ f \in Fill
         /\ xpc = "fills" =>
              /\ ~IsSynthetic(f.taker)
              /\ Report(f.taker, f, f.left, FillStatus(f.left)) \in Reported
         /\ xpc = "makers" /\ StrategyMaker(f) => Report(f.maker, f, 0, 2) \in Reported
<1> DEFINE f == fills[sent + 1]
<1>1. /\ fills \in Seq(Fill) /\ Len(fills) \in Nat /\ sent \in 0..Len(fills)
      /\ DOMAIN fills = 1..Len(fills)
  BY LenProperties DEF BookStructure, BookTypeOK, LoopTyped
<1>2. sent + 1 \in 1..Len(fills) /\ sent + 1 \in DOMAIN fills
  BY <1>1
<1>3. f \in Fill
  BY <1>1, <1>2, ElementOfSeq
<1>4. xpc = "fills" => f.taker \in StrategyIds
  BY <1>2 DEF ControlHolds, FillsBy
<1> HIDE DEF f
<1>5. f.px \in Prices /\ f.qty \in 1..MaxQty /\ f.left \in 0..MaxQty /\ f.maker \in OrderIds
  BY <1>3 DEF Fill
<1>6. f.taker \in StrategyIds => Report(f.taker, f, f.left, FillStatus(f.left)) \in Reported
  BY <1>5 DEF Report, FillStatus, Reported, ReportType
<1>7. StrategyMaker(f) => Report(f.maker, f, 0, 2) \in Reported
  BY <1>5, MaxQtyAssumption DEF Report, Reported, ReportType, StrategyMaker, IsSynthetic, StrategyIds
<1>8. f.taker \in StrategyIds => ~IsSynthetic(f.taker)
  BY DEF StrategyIds, IsSynthetic
<1> QED
  BY <1>2, <1>3, <1>4, <1>6, <1>7, <1>8 DEF f

\* The best price of a side, where there is one.
LEMMA BestOrZeroType ==
  ASSUME BookTypeOK, NEW s \in Side
  PROVE  BestOrZero(s) \in Quoted
<1>1. keys[s] \in SUBSET Prices
  BY DEF BookTypeOK
<1>2. CASE keys[s] = {}
  BY <1>2 DEF BestOrZero, Quoted
<1>3. CASE keys[s] # {}
  <2>1. BestOf(s) # {} /\ BestOf(s) \subseteq Prices
    BY <1>1, <1>3, BestExists DEF BestOf, Better
  <2>2. BestOrZero(s) \in BestOf(s)
    BY <1>3, <2>1 DEF BestOrZero
  <2> QED
    BY <2>1, <2>2 DEF Quoted
<1> QED
  BY <1>2, <1>3

\* A tick's prices are prices of the book, or zero for a side without orders.
LEMMA TickType ==
  ASSUME NEW bid \in Quoted, NEW ask \in Quoted
  PROVE  [bid |-> bid, ask |-> ask, price |-> Mid(bid, ask)] \in Tick
<1>1. bid \in Int /\ ask \in Int /\ MinPrice \in Int /\ MaxPrice \in Int
  BY PricesAssumption DEF Quoted, Prices
<1>2. CASE bid > 0 /\ ask > 0
  <2>1. bid \in MinPrice..MaxPrice /\ ask \in MinPrice..MaxPrice
    BY <1>1, <1>2 DEF Quoted, Prices
  <2>2. (bid + ask) \div 2 \in MinPrice..MaxPrice
    BY <1>1, <2>1
  <2> QED
    BY <1>2, <2>2 DEF Mid, Tick, Quoted, Prices
<1>3. CASE ~(bid > 0 /\ ask > 0)
  BY <1>3 DEF Mid, Tick
<1> QED
  BY <1>2, <1>3

\* What a reader leaves in a queue.
LEMMA TakenTyped ==
  ASSUME NEW S, NEW q \in Seq(S), NEW r, Taken(q, r)
  PROVE  /\ r \in Seq(S) /\ Len(r) \in Nat /\ Len(q) \in Nat /\ Len(r) <= Len(q)
         /\ r # <<>> => q # <<>> /\ Last(r) = Last(q)
<1>1. Len(q) \in Nat
  BY LenProperties
<1>2. CASE r = q
  BY <1>1, <1>2
<1>3. CASE q # <<>> /\ r = Tail(q)
  <2>1. /\ r \in Seq(S) /\ Len(r) = Len(q) - 1 /\ \A i \in 1..Len(r) : r[i] = q[i + 1]
    BY <1>3, HeadTailProperties
  <2>2. Len(r) \in Nat
    BY <2>1, LenProperties
  <2>3. r # <<>> => Len(r) # 0
    BY <2>1, EmptySeq
  <2>4. r # <<>> => Last(r) = Last(q)
    <3> SUFFICES ASSUME r # <<>> PROVE r[Len(r)] = q[Len(q)]
      BY DEF Last
    <3>1. Len(r) \in 1..Len(r) /\ Len(r) + 1 = Len(q)
      BY <1>1, <2>1, <2>2, <2>3
    <3> QED
      BY <2>1, <3>1
  <2> QED
    BY <1>1, <1>3, <2>1, <2>2, <2>4
<1> QED
  BY <1>2, <1>3 DEF Taken

\* Every step keeps the types of what the process itself holds.
LEMMA LoopTypedKept ==
  ASSUME BookStructure, LoopTyped, ControlHolds, Turn
  PROVE  LoopTyped'
<1> USE DEF Goto, At
<1>1. /\ LoopTyped /\ reports \in Seq(Reported) /\ ticks \in Seq(Tick)
      /\ lastBid \in Quoted /\ lastAsk \in Quoted
      /\ tally \in [StrategyIds -> Tally]
      /\ Len(toExchange) <= Capacity /\ toExchange \in Seq(Command)
      /\ Len(reports) <= Capacity /\ Len(ticks) <= Capacity
      /\ sent \in 0..Len(fills) /\ Len(fills) \in Nat /\ Len(fills') \in Nat
  <2>1. fills \in Seq(Fill) /\ fills' \in Seq(Fill)
    BY StructureKept DEF BookStructure, BookTypeOK
  <2> QED
    BY <2>1, LenProperties DEF LoopTyped
<1>2. ASSUME BookStep PROVE LoopTyped'
  <2>1. sent \in 0..Len(fills') /\ tally' \in [StrategyIds -> Tally]
    <3>1. CASE FillFront
      <4>1. PICK f \in Fill : Last(fills') = f /\ Len(fills') = Len(fills) + 1
        BY <3>1, FillEffects
      <4>2. CountFill(f)
        BY <1>1, <1>2, <4>1 DEF BookStep
      <4> QED
        BY <1>1, <4>1, <4>2, CountTyped
    <3>2. CASE ~FillFront
      <4>1. fills' = fills
        BY <1>2, <3>2, OtherEffects DEF BookStep
      <4> QED
        BY <1>1, <1>2, <4>1 DEF BookStep
    <3> QED
      BY <3>1, <3>2
  <2> QED
    BY <1>1, <1>2, <2>1 DEF BookStep, LoopTyped, matchVars, roundVars, topVars
<1>3. ASSUME ReceiveOrder PROVE LoopTyped'
  <2>1. Head(toExchange) \in Command /\ Tail(toExchange) \in Seq(Command)
        /\ Len(Tail(toExchange)) = Len(toExchange) - 1 /\ Len(toExchange) \in Nat
    BY <1>3, HeadCommand DEF ReceiveOrder
  <2>2. sent' = 0
    BY <1>3 DEF ReceiveOrder, ControlHolds
  <2> QED
    BY <1>1, <1>3, <2>1, <2>2, CapacityAssumption DEF ReceiveOrder, LoopTyped, roundVars, topVars
<1>4. ASSUME Replace PROVE LoopTyped'
  <2>1. sent' = 0
    BY <1>4 DEF Replace, ControlHolds, matchVars
  <2> QED
    BY <1>1, <1>4, <2>1 DEF Replace, LoopTyped, matchVars, roundVars, topVars
<1>5. ASSUME StartRound \/ PostAsk \/ Churn \/ Cross PROVE LoopTyped'
  <2>1. sent' = 0
    BY <1>5 DEF StartRound, PostAsk, Churn, Cross, ControlHolds, matchVars
  <2>2. live' \subseteq SynIds
    BY <1>1, <1>5 DEF LoopTyped, StartRound, PostAsk, Churn, Cross, FreshIds, roundVars
  <2>3. rounds' \in 0..MaxRounds
    BY <1>1, <1>5, RoundsAssumption DEF LoopTyped, StartRound, PostAsk, Churn, Cross, roundVars
  <2> QED
    BY <1>1, <1>5, <2>1, <2>2, <2>3
    DEF StartRound, PostAsk, Churn, Cross, LoopTyped, matchVars, topVars
<1>6. ASSUME PublishFill \/ PublishMakerFill PROVE LoopTyped'
  <2>1. sent < Len(fills) /\ (xpc = "fills" \/ xpc = "makers")
    BY <1>6 DEF PublishFill, PublishMakerFill
  <2> DEFINE f == fills[sent + 1]
  <2>2. \/ UNCHANGED <<reports, tally>>
        \/ \E r \in Reported : Send(r)
    <3>1. CASE PublishFill
      BY <2>1, <3>1, PublishedReport DEF PublishFill
    <3>2. CASE PublishMakerFill
      BY <2>1, <3>2, PublishedReport DEF PublishMakerFill
    <3> QED
      BY <1>6, <3>1, <3>2
  <2>3. reports' \in Seq(Reported) /\ Len(reports') <= Capacity /\ tally' \in [StrategyIds -> Tally]
    BY <1>1, <2>2, SendTyped
  <2>4. sent' \in 0..Len(fills') /\ fills' = fills
    BY <1>1, <1>6, <2>1, QuietKeepsBook DEF Quiet, PublishFill, PublishMakerFill, bookVars
  <2> QED
    BY <1>1, <1>6, <2>3, <2>4 DEF PublishFill, PublishMakerFill, LoopTyped, roundVars, topVars
<1>7. ASSUME FillsPublished \/ Prune \/ MakersPublished \/ NotDue PROVE LoopTyped'
  <2>1. fills' = fills
    BY <1>7, QuietKeepsBook DEF Quiet, bookVars
  <2> QED
    BY <1>1, <1>7, <2>1 DEF FillsPublished, Prune, Pruned, MakersPublished, NotDue, LoopTyped,
       matchVars, roundVars, topVars
<1>8. ASSUME PublishTop PROVE LoopTyped'
  <2>1. BestOrZero("buy") \in Quoted /\ BestOrZero("sell") \in Quoted
    BY BestOrZeroType DEF BookStructure, Side
  <2>2. lastBid' \in Quoted /\ lastAsk' \in Quoted
    BY <1>8, <2>1 DEF PublishTop
  <2>3. [bid |-> lastBid', ask |-> lastAsk', price |-> Mid(lastBid', lastAsk')] \in Tick
    BY <2>2, TickType
  <2>4. ticks' \in Seq(Tick) /\ Len(ticks') <= Capacity
    BY <1>1, <1>8, <2>3, DeliveredProperties DEF PublishTop
  <2>5. fills' = fills
    BY <1>8 DEF PublishTop, bookVars
  <2> QED
    BY <1>1, <1>8, <2>2, <2>4, <2>5 DEF PublishTop, AfterTick, LoopTyped, matchVars, roundVars
<1>9. ASSUME NotifyTop \/ TopUnmoved \/ NextTurn \/ Primed PROVE LoopTyped'
  <2>1. fills' = fills
    BY <1>9, QuietKeepsBook DEF Quiet, bookVars
  <2> QED
    BY <1>1, <1>9, <2>1 DEF NotifyTop, TopUnmoved, NextTurn, Primed, LoopTyped,
       matchVars, roundVars, topVars
<1>10. CASE Outside
  <2>1. /\ reports' \in Seq(Reported) /\ Len(reports') <= Capacity
        /\ ticks' \in Seq(Tick) /\ Len(ticks') <= Capacity
    <3>1. Taken(reports, reports') /\ Taken(ticks, ticks') /\ Capacity \in Nat
      BY <1>10, CapacityAssumption DEF Outside
    <3>2. reports' \in Seq(Reported) /\ Len(reports') <= Len(reports)
          /\ Len(reports') \in Nat /\ Len(reports) \in Nat
      BY <1>1, <3>1, TakenTyped
    <3>3. ticks' \in Seq(Tick) /\ Len(ticks') <= Len(ticks)
          /\ Len(ticks') \in Nat /\ Len(ticks) \in Nat
      BY <1>1, <3>1, TakenTyped
    <3> QED
      BY <1>1, <3>1, <3>2, <3>3
  <2>2. UNCHANGED <<fills, xpc, cmd, sent, live, rounds, lastBid, lastAsk, tally>>
    BY <1>10 DEF Outside, bookVars, matchVars, roundVars
  <2>3. toExchange' \in Seq(Command) /\ Len(toExchange') <= Capacity
    BY <1>10 DEF Outside
  <2> QED
    BY <1>1, <2>1, <2>2, <2>3 DEF LoopTyped
<1> QED
  BY <1>1, <1>2, <1>3, <1>4, <1>5, <1>6, <1>7, <1>8, <1>9, <1>10, Steps DEF Quiet

----------------------------------------------------------------------------
(* Where the loop is *)

\* The taker's own fills join the others.
LEMMA MoreFills ==
  ASSUME fills \in Seq(Fill), NEW f \in Fill, fills' = Append(fills, f),
         NEW ids, FillsBy(ids), f.taker \in ids
  PROVE  FillsBy(ids)'
<1>1. /\ Len(fills) \in Nat /\ DOMAIN fills = 1..Len(fills)
      /\ fills' \in Seq(Fill) /\ Len(fills') = Len(fills) + 1
      /\ \A i \in 1..Len(fills) : fills'[i] = fills[i]
      /\ fills'[Len(fills) + 1] = f
  BY AppendProperties, LenProperties
<1>2. DOMAIN fills' = 1..(Len(fills) + 1)
  BY <1>1, LenProperties
<1>3. \A i \in DOMAIN fills' : i \in DOMAIN fills \/ i = Len(fills) + 1
  BY <1>1, <1>2
<1> QED
  BY <1>1, <1>3 DEF FillsBy

\* What an unchanged book leaves unchanged.
LEMMA BookSame ==
  ASSUME UNCHANGED bookVars
  PROVE  /\ UNCHANGED <<fills, taker, phase, locate, keys, queue>>
         /\ Idle' = Idle
         /\ \A id : IsResting(id)' = IsResting(id)
         /\ \A s : BestOrZero(s)' = BestOrZero(s)
         /\ AbstractOrders' = AbstractOrders
BY SameQueues DEF bookVars, book, call, Idle, IsResting, BestOrZero, BestOf

\* What a submit that begins leaves, and what it starts with.
LEMMA SubmitBegins ==
  ASSUME NEW id, NEW side, NEW limit, NEW qty, NEW sink, Submit(id, side, limit, qty, sink)
  PROVE  /\ Idle /\ ~Idle' /\ fills' = sink
         /\ taker'.id = id /\ taker'.limit = limit /\ taker'.left = qty
         /\ \A k : IsResting(k)' = IsResting(k)
         /\ \A s : BestOrZero(s)' = BestOrZero(s)
BY DEF Submit, Idle, book, IsResting, BestOrZero, BestOf

\* A cancel returns at once, and its order no longer rests.
LEMMA CancelReturns ==
  ASSUME BookTypeOK, NEW id \in OrderIds, Cancel(id)
  PROVE  /\ Idle /\ Idle'
         /\ \A k \in OrderIds : IsResting(k)' => IsResting(k)
         /\ ~IsResting(id)'
BY DEF Cancel, CancelResting, CancelUnknown, Idle, call, book, IsResting, BookTypeOK

\* Every step keeps what holds at each place of the loop.
LEMMA ControlKept ==
  ASSUME BookStructure, LoopTyped, ControlHolds, Turn
  PROVE  ControlHolds'
<1> USE DEF Goto, At, Calling, InRound
<1>1. fills \in Seq(Fill) /\ BookTypeOK
  BY DEF BookStructure, BookTypeOK
<1>2. StrategyIds \subseteq OrderIds /\ SynIds \subseteq OrderIds
  BY SynAssumption DEF StrategyIds
<1>3. CASE BookStep
  <2> DEFINE ids == IF xpc = "fills" THEN StrategyIds ELSE SynIds
  <2>1. /\ ~Idle /\ xpc \in Calling /\ taker.id \in ids /\ FillsBy(ids) /\ sent = 0
        /\ UNCHANGED <<xpc, sent, quote>>
        /\ ~Idle' => taker'.id = taker.id
    BY <1>3, TakerEffects DEF BookStep, ControlHolds, matchVars, roundVars
  <2> HIDE DEF ids
  <2>2. FillsBy(ids)'
    <3>1. CASE FillFront
      <4>1. PICK f \in Fill : f.taker = taker.id /\ fills' = Append(fills, f)
        BY <3>1, FillEffects
      <4>2. \A i \in DOMAIN fills' : fills'[i].taker \in ids
        BY <1>1, <2>1, <4>1, MoreFills DEF FillsBy
      <4> QED
        BY <4>2, <2>1 DEF FillsBy, ids
    <3>2. CASE ~FillFront
      BY <1>3, <2>1, <3>2, OtherEffects DEF BookStep, FillsBy, ids
    <3> QED
      BY <3>1, <3>2
  <2> QED
    BY <2>1, <2>2 DEF ControlHolds, ids
<1>4. CASE ReceiveOrder
  <2> DEFINE c == Head(toExchange)
  <2>1. /\ c \in Command /\ c.id \in StrategyIds /\ sent' = 0 /\ cmd' = c
        /\ xpc' = IF c.action = "modify" THEN "replace" ELSE "fills"
        /\ IF c.action = "new" THEN Submit(c.id, c.side, Limit(c), c.qty, <<>>)
           ELSE Cancel(c.id) /\ fills' = <<>>
    BY <1>4, ReceiveOrderCalls, LimitType DEF ReceiveOrder, ControlHolds
  <2> HIDE DEF c
  <2>2. CASE c.action = "new"
    <3>1. fills' = <<>> /\ ~Idle' /\ taker'.id = c.id
      BY <2>1, <2>2, SubmitBegins
    <3> QED
      BY <2>1, <2>2, <3>1 DEF ControlHolds, FillsBy
  <2>3. CASE c.action # "new"
    <3>1. fills' = <<>> /\ Idle'
      BY <1>1, <1>2, <2>1, <2>3, CancelReturns
    <3> QED
      BY <2>1, <2>3, <3>1 DEF ControlHolds, FillsBy
  <2> QED
    BY <2>2, <2>3
<1>5. CASE Replace
  <2>1. /\ cmd \in Command /\ fills = <<>> /\ sent' = 0 /\ xpc' = "fills"
        /\ Submit(cmd.id, cmd.side, Limit(cmd), cmd.qty, fills)
    BY <1>5 DEF Replace, SubmitCommand, ControlHolds, matchVars
  <2>2. fills' = <<>> /\ ~Idle' /\ taker'.id \in StrategyIds
    BY <2>1, SubmitBegins, LimitType
  <2> QED
    BY <2>1, <2>2 DEF ControlHolds, FillsBy
<1>6. CASE StartRound
  <2>1. PICK q \in Quotes, size \in QuoteSizes, id \in FreshIds :
          Submit(id, "buy", q[1], size, <<>>) /\ quote' = q
    BY <1>6 DEF StartRound
  <2>2. fills' = <<>> /\ ~Idle' /\ taker'.id \in SynIds
    BY <2>1, SubmitBegins DEF FreshIds
  <2>3. xpc' = "ask" /\ sent' = 0
    BY <1>6 DEF StartRound, ControlHolds, matchVars
  <2> QED
    BY <2>1, <2>2, <2>3, QuotesAssumption DEF ControlHolds, FillsBy
<1>7. CASE PostAsk
  <2>1. PICK size \in QuoteSizes, id \in FreshIds : Submit(id, "sell", quote[2], size, fills)
    BY <1>7 DEF PostAsk
  <2>2. fills' = fills /\ ~Idle' /\ taker'.id \in SynIds
    BY <2>1, SubmitBegins DEF FreshIds
  <2> QED
    BY <1>7, <2>2 DEF PostAsk, ControlHolds, FillsBy, matchVars
<1>8. CASE Churn
  <2>1. fills' = fills /\ Idle'
    <3>1. CASE UNCHANGED bookVars
      BY <1>8, <3>1, BookSame DEF Churn
    <3>2. ASSUME NEW id \in live, Cancel(id), UNCHANGED fills PROVE fills' = fills /\ Idle'
      BY <1>1, <1>2, <3>2, CancelReturns DEF LoopTyped
    <3> QED
      BY <1>8, <3>1, <3>2 DEF Churn
  <2> QED
    BY <1>8, <2>1 DEF Churn, ControlHolds, FillsBy, matchVars
<1>9. CASE Cross
  <2>1. fills' = fills /\ (~Idle' => taker'.id \in SynIds)
    <3>1. CASE UNCHANGED bookVars
      BY <1>9, <3>1, BookSame DEF Cross
    <3>2. ASSUME NEW side, NEW size, NEW id \in FreshIds, Submit(id, side, None, size, fills)
          PROVE  fills' = fills /\ taker'.id \in SynIds
      BY <3>2, SubmitBegins DEF FreshIds
    <3> QED
      BY <1>9, <3>1, <3>2 DEF Cross
  <2> QED
    BY <1>9, <2>1 DEF Cross, ControlHolds, FillsBy, matchVars
<1>10. CASE Quiet
  <2>1. fills' = fills /\ Idle' = Idle /\ taker' = taker
    BY <1>10, QuietKeepsBook, BookSame
  <2> QED
    BY <1>10, <2>1 DEF Quiet, PublishFill, FillsPublished, Prune, PublishMakerFill, MakersPublished,
       NotDue, PublishTop, NotifyTop, TopUnmoved, NextTurn, Primed, AfterTick,
       ControlHolds, FillsBy, matchVars, roundVars
<1>11. CASE Outside
  <2>1. fills' = fills /\ Idle' = Idle /\ taker' = taker
    BY <1>11, QuietKeepsBook, BookSame
  <2>2. UNCHANGED <<xpc, cmd, sent, quote>>
    BY <1>11 DEF Outside, matchVars, roundVars
  <2> QED
    BY <2>1, <2>2 DEF ControlHolds, FillsBy
<1> QED
  BY <1>3, <1>4, <1>5, <1>6, <1>7, <1>8, <1>9, <1>10, <1>11, Steps

----------------------------------------------------------------------------
(* The participants' list, priming, the top of the book *)

\* Every step keeps the live list and the book in agreement.
LEMMA LiveKept ==
  ASSUME BookStructure, LoopTyped, ControlHolds, LiveHolds, Turn
  PROVE  LiveHolds'
<1> USE DEF Goto, At
<1>1. BookTypeOK /\ live \subseteq SynIds
  BY DEF BookStructure, LoopTyped
<1>2. StrategyIds \subseteq OrderIds /\ SynIds \subseteq OrderIds
      /\ \A id \in SynIds : id \notin StrategyIds
  BY SynAssumption DEF StrategyIds
<1>3. CASE BookStep
  <2>1. UNCHANGED <<xpc, live>>
    BY <1>3 DEF BookStep, roundVars
  <2>2. /\ ~Idle /\ (~Idle' => taker'.id = taker.id /\ taker'.limit = taker.limit)
        /\ \A id \in OrderIds :
             IsResting(id)' => IsResting(id) \/ (id = taker.id /\ taker.limit # None)
    BY <1>3, TakerEffects DEF BookStep
  <2>3. taker.id \in SynIds /\ taker.limit # None => taker.id \in live
    BY <1>2, <2>2 DEF LiveHolds, ControlHolds, Calling
  <2>4. xpc # "makers"
    BY <2>2 DEF ControlHolds, Calling
  <2> QED
    BY <1>2, <2>1, <2>2, <2>3, <2>4 DEF LiveHolds
<1>4. CASE ReceiveOrder
  <2>1. live' = live /\ xpc' \in {"fills", "replace"}
    BY <1>4 DEF ReceiveOrder, roundVars
  <2>2. \A id \in OrderIds : IsResting(id)' => IsResting(id)
    <3>1. LET c == Head(toExchange)
          IN  /\ c.id \in OrderIds
              /\ \/ Submit(c.id, c.side, Limit(c), c.qty, <<>>)
                 \/ Cancel(c.id)
      BY <1>4, ReceiveOrderCalls, LimitType
    <3> QED
      BY <1>1, <3>1, SubmitBegins, CancelReturns
  <2> QED
    BY <1>2, <2>1, <2>2 DEF LiveHolds
<1>5. CASE Replace
  <2>1. live' = live /\ xpc' = "fills" /\ SubmitCommand(cmd, fills)
    BY <1>5 DEF Replace, roundVars
  <2>2. \A id \in OrderIds : IsResting(id)' => IsResting(id)
    BY <2>1, SubmitBegins DEF SubmitCommand
  <2> QED
    BY <1>2, <2>1, <2>2 DEF LiveHolds
<1>6. CASE StartRound \/ PostAsk
  <2>1. PICK id \in FreshIds : \E side, limit, qty, sink :
          Submit(id, side, limit, qty, sink) /\ live' = live \cup {id}
    BY <1>6 DEF StartRound, PostAsk
  <2>2. ~Idle' /\ taker'.id = id /\ \A k : IsResting(k)' = IsResting(k)
    BY <2>1, SubmitBegins
  <2>3. xpc' \in {"ask", "churn"}
    BY <1>6 DEF StartRound, PostAsk
  <2> QED
    BY <2>1, <2>2, <2>3 DEF LiveHolds
<1>7. CASE Churn
  <2>1. xpc' = "cross"
    BY <1>7 DEF Churn
  <2>2. \A id \in SynIds : IsResting(id)' => id \in live'
    <3>1. CASE UNCHANGED bookVars /\ live' = live
      BY <3>1, BookSame DEF LiveHolds
    <3>2. ASSUME NEW id \in live, Cancel(id), live' = live \ {id}
          PROVE  \A k \in SynIds : IsResting(k)' => k \in live'
      BY <1>1, <1>2, <3>2, CancelReturns DEF LiveHolds
    <3> QED
      BY <1>7, <3>1, <3>2 DEF Churn
  <2> QED
    BY <2>1, <2>2 DEF LiveHolds
<1>8. CASE Cross
  <2>1. xpc' = "prune" /\ live' = live /\ Idle
    BY <1>8 DEF Cross, roundVars
  <2>2. /\ \A k \in SynIds : IsResting(k)' => IsResting(k)
        /\ ~Idle' => taker'.limit = None
    <3>1. CASE UNCHANGED bookVars
      BY <2>1, <3>1, BookSame
    <3>2. ASSUME NEW side, NEW size, NEW id, Submit(id, side, None, size, fills)
          PROVE  /\ \A k \in SynIds : IsResting(k)' => IsResting(k)
                 /\ taker'.limit = None
      BY <3>2, SubmitBegins
    <3> QED
      BY <1>8, <3>1, <3>2 DEF Cross
  <2> QED
    BY <2>1, <2>2 DEF LiveHolds
<1>9. CASE Prune
  <2>1. /\ live' = {id \in live : IsResting(id)} /\ xpc' \in {"prime", "makers"} /\ Idle
        /\ UNCHANGED bookVars
    BY <1>9 DEF Prune, Pruned
  <2>2. \A k : IsResting(k)' = IsResting(k)
    BY <2>1, BookSame
  <2> QED
    BY <2>1, <2>2 DEF LiveHolds
<1>10. CASE (Quiet /\ ~Prune) \/ Outside
  <2>1. Idle' = Idle /\ taker' = taker /\ \A k : IsResting(k)' = IsResting(k)
    BY <1>10, QuietKeepsBook, BookSame
  <2>2. live' = live
    BY <1>10 DEF Quiet, PublishFill, FillsPublished, PublishMakerFill, MakersPublished,
       NotDue, PublishTop, NotifyTop, TopUnmoved, NextTurn, Primed, Outside, roundVars
  <2>3. xpc' = xpc \/ xpc' \in {"orders", "top", "notify", "loop"}
    BY <1>10 DEF Quiet, PublishFill, FillsPublished, PublishMakerFill, MakersPublished,
       NotDue, PublishTop, NotifyTop, TopUnmoved, NextTurn, Primed, AfterTick, Outside
  <2> QED
    BY <2>1, <2>2, <2>3 DEF LiveHolds
<1> QED
  BY <1>3, <1>4, <1>5, <1>6, <1>7, <1>8, <1>9, <1>10, Steps

\* Every step keeps what the priming rounds do before the first command is read.
LEMMA PrimingKept ==
  ASSUME BookStructure, LoopTyped, ControlHolds, PrimingHolds, Turn
  PROVE  PrimingHolds'
<1> USE DEF Goto, At, InRound
<1>1. /\ BookTypeOK /\ live \subseteq SynIds /\ rounds \in Nat /\ PrimeRounds \in Nat
      /\ fills \in Seq(Fill)
  BY RoundsAssumption DEF BookStructure, BookTypeOK, LoopTyped
<1>2. /\ StrategyIds \subseteq OrderIds /\ SynIds \subseteq OrderIds
      /\ \A id \in SynIds : id \notin StrategyIds
      /\ \A id \in OrderIds : id \notin StrategyIds => id \in SynIds
  BY SynAssumption DEF StrategyIds
<1>3. CASE BookStep
  <2>1. UNCHANGED <<xpc, rounds>> /\ ~Idle /\ xpc \in Calling
    BY <1>3, TakerEffects DEF BookStep, roundVars, ControlHolds
  <2>2. ASSUME xpc \in InRound, rounds <= PrimeRounds
        PROVE  /\ \A id \in StrategyIds : ~IsResting(id)'
               /\ \A i \in DOMAIN fills' : fills'[i].maker \in SynIds
    <3>1. taker.id \in SynIds
      BY <2>1, <2>2 DEF ControlHolds, Calling
    <3>2. \A id \in StrategyIds : ~IsResting(id) /\ id # taker.id
      BY <1>2, <2>2, <3>1 DEF PrimingHolds
    <3>3. \A id \in StrategyIds : ~IsResting(id)'
      BY <1>2, <1>3, <3>2, TakerEffects DEF BookStep
    <3>4. CASE FillFront
      <4>1. PICK f \in Fill : fills' = Append(fills, f) /\ IsResting(f.maker)
        BY <3>4, FillEffects
      <4>2. f.maker \in SynIds
        <5>1. f.maker \in OrderIds
          BY DEF Fill
        <5> QED
          BY <1>2, <3>2, <4>1, <5>1
      <4>3. /\ Len(fills) \in Nat /\ DOMAIN fills = 1..Len(fills)
            /\ fills' \in Seq(Fill) /\ Len(fills') = Len(fills) + 1
            /\ \A i \in 1..Len(fills) : fills'[i] = fills[i]
            /\ fills'[Len(fills) + 1] = f
        BY <1>1, <4>1, AppendProperties, LenProperties
      <4>4. \A i \in DOMAIN fills' : i \in DOMAIN fills \/ i = Len(fills) + 1
        BY <4>3, LenProperties
      <4> QED
        BY <2>2, <3>3, <4>2, <4>3, <4>4 DEF PrimingHolds
    <3>5. CASE ~FillFront
      BY <1>3, <2>2, <3>3, <3>5, OtherEffects DEF BookStep, PrimingHolds
    <3> QED
      BY <3>4, <3>5
  <2> QED
    BY <2>1, <2>2 DEF PrimingHolds, Calling
<1>4. CASE ReceiveOrder \/ Replace
  <2>1. rounds' = rounds /\ xpc \in {"orders", "replace"} /\ xpc' \in {"fills", "replace"}
    BY <1>4 DEF ReceiveOrder, Replace, roundVars
  <2> QED
    BY <2>1 DEF PrimingHolds
<1>5. CASE StartRound
  <2>1. PICK id : \E side, limit, qty : Submit(id, side, limit, qty, <<>>)
    BY <1>5 DEF StartRound
  <2>2. fills' = <<>> /\ \A k : IsResting(k)' = IsResting(k)
    BY <2>1, SubmitBegins
  <2>3. xpc' = "ask" /\ rounds' = rounds + 1 /\ (xpc = "prime" \/ xpc = "orders")
        /\ (xpc = "orders" => rounds' > PrimeRounds)
    BY <1>1, <1>5 DEF StartRound, PrimingHolds
  <2> QED
    BY <1>1, <2>2, <2>3 DEF PrimingHolds
<1>6. CASE PostAsk \/ Churn \/ Cross
  <2>1. /\ rounds' = rounds /\ xpc \in {"ask", "churn", "cross"} /\ xpc' \in {"churn", "cross", "prune"}
    BY <1>6 DEF PostAsk, Churn, Cross, roundVars
  <2>2. fills' = fills /\ \A k \in OrderIds : IsResting(k)' => IsResting(k)
    <3>1. CASE UNCHANGED bookVars
      BY <3>1, BookSame
    <3>2. ASSUME NEW id, NEW side, NEW limit, NEW qty, Submit(id, side, limit, qty, fills)
          PROVE  fills' = fills /\ \A k \in OrderIds : IsResting(k)' => IsResting(k)
      BY <3>2, SubmitBegins
    <3>3. ASSUME NEW id \in OrderIds, Cancel(id), UNCHANGED fills
          PROVE  fills' = fills /\ \A k \in OrderIds : IsResting(k)' => IsResting(k)
      BY <1>1, <3>3, CancelReturns
    <3> QED
      BY <1>1, <1>2, <1>6, <3>1, <3>2, <3>3 DEF PostAsk, Churn, Cross
  <2> QED
    BY <1>2, <2>1, <2>2 DEF PrimingHolds
<1>7. CASE Prune
  <2>1. /\ UNCHANGED <<bookVars, rounds>> /\ xpc = "prune"
        /\ xpc' = IF rounds <= PrimeRounds THEN "prime" ELSE "makers"
    BY <1>7 DEF Prune
  <2>2. fills' = fills /\ \A k : IsResting(k)' = IsResting(k)
    BY <2>1, BookSame
  <2> QED
    BY <1>1, <2>1, <2>2 DEF PrimingHolds
<1>8. CASE (Quiet /\ ~Prune) \/ Outside
  <2>1. fills' = fills /\ \A k : IsResting(k)' = IsResting(k)
    BY <1>8, QuietKeepsBook, BookSame
  <2>2. rounds' = rounds
    BY <1>8 DEF Quiet, PublishFill, FillsPublished, PublishMakerFill, MakersPublished,
       NotDue, PublishTop, NotifyTop, TopUnmoved, NextTurn, Primed, Outside, roundVars
  <2>3. \/ xpc' = xpc
        \/ xpc = "prime" /\ xpc' = "loop" /\ rounds = PrimeRounds
        \/ xpc \notin {"prime"} \cup {"ask", "churn", "cross", "prune"}
           /\ xpc' \in {"orders", "top", "notify", "loop"}
    BY <1>8 DEF Quiet, PublishFill, FillsPublished, PublishMakerFill, MakersPublished,
       NotDue, PublishTop, NotifyTop, TopUnmoved, NextTurn, Primed, AfterTick, Outside
  <2> QED
    BY <1>1, <2>1, <2>2, <2>3 DEF PrimingHolds
<1> QED
  BY <1>3, <1>4, <1>5, <1>6, <1>7, <1>8, Steps

\* Every step keeps the top the process remembers and the one it published last equal.
LEMMA TopKept ==
  ASSUME BookStructure, LoopTyped, ControlHolds, PrimingHolds, TopHolds, Turn
  PROVE  TopHolds'
<1> USE DEF Goto, At
<1>1. ticks \in Seq(Tick) /\ Len(ticks) <= Capacity /\ rounds \in Nat /\ PrimeRounds \in Nat
      /\ lastBid \in Quoted /\ lastAsk \in Quoted
  BY RoundsAssumption DEF LoopTyped
<1>2. CASE BookStep \/ ReceiveOrder \/ Replace \/ StartRound \/ PostAsk \/ Churn \/ Cross
  <2>1. UNCHANGED <<ticks, lastBid, lastAsk>>
    BY <1>2 DEF BookStep, ReceiveOrder, Replace, StartRound, PostAsk, Churn, Cross, topVars
  <2>2. xpc' \notin {"notify", "loop"}
    <3>1. CASE BookStep
      BY <3>1, TakerEffects DEF BookStep, ControlHolds, Calling
    <3>2. CASE ~BookStep
      BY <1>2, <3>2 DEF ReceiveOrder, Replace, StartRound, PostAsk, Churn, Cross
    <3> QED
      BY <3>1, <3>2
  <2> QED
    BY <2>1, <2>2 DEF TopHolds
<1>3. CASE PublishTop
  <2>1. /\ lastBid' = BestOrZero("buy") /\ lastAsk' = BestOrZero("sell")
        /\ ticks' = Delivered(ticks, [bid |-> lastBid', ask |-> lastAsk',
                                      price |-> Mid(lastBid', lastAsk')])
        /\ UNCHANGED bookVars
    BY <1>3 DEF PublishTop
  <2>2. \A s : BestOrZero(s)' = BestOrZero(s)
    BY <2>1, BookSame
  <2> DEFINE t == [bid |-> lastBid', ask |-> lastAsk', price |-> Mid(lastBid', lastAsk')]
  <2>3. BestOrZero("buy") \in Quoted /\ BestOrZero("sell") \in Quoted
    BY BestOrZeroType DEF BookStructure, Side
  <2>4. t \in Tick /\ t.bid = lastBid' /\ t.ask = lastAsk'
    BY <2>1, <2>3, TickType
  <2>5. ticks' = Delivered(ticks, t)
    BY <2>1
  <2> HIDE DEF t
  <2>6. Last(ticks') = t
    BY <1>1, <2>4, <2>5, DeliveredProperties
  <2> QED
    BY <2>1, <2>2, <2>4, <2>6 DEF TopHolds
<1>4. CASE TopUnmoved
  <2>1. /\ lastBid = BestOrZero("buy") /\ lastAsk = BestOrZero("sell")
        /\ UNCHANGED <<bookVars, lastBid, lastAsk, ticks, rounds>>
    BY <1>4 DEF TopUnmoved, TopMoved, topVars, roundVars
  <2>2. \A s : BestOrZero(s)' = BestOrZero(s)
    BY <2>1, BookSame
  <2> QED
    BY <2>1, <2>2 DEF TopHolds
<1>5. CASE (Quiet /\ ~PublishTop /\ ~TopUnmoved) \/ Outside
  <2>1. \A s : BestOrZero(s)' = BestOrZero(s)
    BY <1>5, QuietKeepsBook, BookSame
  <2>2. UNCHANGED <<lastBid, lastAsk, rounds>> /\ Taken(ticks, ticks')
    BY <1>5 DEF Quiet, PublishFill, FillsPublished, Prune, PublishMakerFill, MakersPublished,
       NotDue, NotifyTop, NextTurn, Primed, Outside, Taken, roundVars, topVars
  <2>3. \/ xpc' = xpc
        \/ xpc' \notin {"notify", "loop"}
        \/ xpc = "notify"
        \/ rounds = PrimeRounds
    BY <1>5 DEF Quiet, PublishFill, FillsPublished, Prune, PublishMakerFill, MakersPublished,
       NotDue, NotifyTop, NextTurn, Primed, Outside
  <2>4. ticks' # <<>> => ticks # <<>> /\ Last(ticks') = Last(ticks)
    BY <1>1, <2>2, TakenTyped
  <2> QED
    BY <1>1, <2>1, <2>2, <2>3, <2>4 DEF TopHolds
<1> QED
  BY <1>2, <1>3, <1>4, <1>5, Steps DEF Quiet

----------------------------------------------------------------------------
(* Sums over the fills, and over a queue of commands *)

\* What a fill is due, as a natural number.
LEMMA DueType ==
  ASSUME NEW f \in Fill, NEW id
  PROVE  Due(id, f) \in Nat
<1>1. f.qty \in Nat
  BY MaxQtyAssumption DEF Fill
<1>2. If(f.taker = id, f.qty) \in Nat /\ If(f.maker = id /\ IsSynthetic(f.taker), f.qty) \in Nat
  BY <1>1 DEF If
<1> QED
  BY <1>2 DEF Due

\* The dues of a vector of fills are a sequence of naturals.
LEMMA DuesType ==
  ASSUME NEW q \in Seq(Fill), NEW id
  PROVE  /\ Dues(id, q) \in Seq(Int) /\ Len(Dues(id, q)) = Len(q) /\ Len(q) \in Nat
         /\ DOMAIN q = 1..Len(q) /\ DOMAIN Dues(id, q) = 1..Len(q)
         /\ \A i \in 1..Len(q) : Dues(id, q)[i] = Due(id, q[i]) /\ Dues(id, q)[i] \in Nat
<1> DEFINE d == Dues(id, q)
<1>1. Len(q) \in Nat /\ DOMAIN q = 1..Len(q)
  BY LenProperties
<1>2. \A i \in 1..Len(q) : Due(id, q[i]) \in Nat
  BY ElementOfSeq, DueType
<1>3. d = [i \in 1..Len(q) |-> Due(id, q[i])]
  BY <1>1 DEF Dues
<1>4. d \in [1..Len(q) -> Int] /\ \A i \in 1..Len(q) : d[i] = Due(id, q[i]) /\ d[i] \in Nat
  BY <1>2, <1>3
<1> HIDE DEF d
<1>5. d \in Seq(Int) /\ Len(d) = Len(q)
  BY <1>1, <1>4, FunctionIsSequence
<1>6. DOMAIN d = 1..Len(q)
  BY <1>4
<1> QED
  BY <1>1, <1>4, <1>5, <1>6 DEF d

\* One fill more.
LEMMA DuesGrow ==
  ASSUME NEW q \in Seq(Fill), NEW f \in Fill, NEW id
  PROVE  SumFunction(Dues(id, Append(q, f))) = SumFunction(Dues(id, q)) + Due(id, f)
<1> DEFINE r == Append(q, f)
           v == Dues(id, q)
           w == Dues(id, r)
<1>1. /\ r \in Seq(Fill) /\ Len(r) = Len(q) + 1 /\ r[Len(q) + 1] = f
      /\ \A i \in 1..Len(q) : r[i] = q[i]
  BY AppendProperties
<1>2. /\ v \in Seq(Int) /\ Len(v) = Len(q) /\ Len(q) \in Nat
      /\ \A i \in 1..Len(q) : v[i] = Due(id, q[i])
  BY DuesType
<1> HIDE DEF r, v
<1>3. /\ w \in Seq(Int) /\ Len(w) = Len(r)
      /\ \A i \in 1..Len(r) : w[i] = Due(id, r[i])
  BY <1>1, DuesType
<1> HIDE DEF w
<1>4. \A i \in 1..Len(q) : i \in 1..Len(r) /\ w[i] = v[i]
  BY <1>1, <1>2, <1>3
<1>5. w[Len(v) + 1] = Due(id, f)
  BY <1>1, <1>2, <1>3
<1>6. SumFunction(w) = SumFunction(v) + w[Len(v) + 1]
  BY <1>1, <1>2, <1>3, <1>4, SumOfMore
<1> QED
  BY <1>5, <1>6 DEF r, v, w

\* Before any is looked at, all of them are due; when all have been, none is.
LEMMA UnsentAtEnds ==
  ASSUME NEW q \in Seq(Fill), NEW id
  PROVE  Unsent(id, q, 0) = SumFunction(Dues(id, q)) /\ Unsent(id, q, Len(q)) = 0
<1>1. Len(q) \in Nat /\ DOMAIN Dues(id, q) = 1..Len(q)
  BY DuesType
<1>2. (0 + 1)..Len(q) = 1..Len(q) /\ (Len(q) + 1)..Len(q) = {}
  BY <1>1
<1>3. SumFunctionOnSet(Dues(id, q), {}) = 0
  BY SumEmpty
<1>4. SumFunction(Dues(id, q)) = SumFunctionOnSet(Dues(id, q), 1..Len(q))
  BY <1>1 DEF SumFunction
<1> QED
  BY <1>2, <1>3, <1>4 DEF Unsent

\* A fill is looked at.
LEMMA UnsentShrinks ==
  ASSUME NEW q \in Seq(Fill), NEW id, NEW s \in Nat, s < Len(q)
  PROVE  Unsent(id, q, s) = Due(id, q[s + 1]) + Unsent(id, q, s + 1)
<1> DEFINE d == Dues(id, q)
           D == (s + 1)..Len(q)
           R == (s + 1 + 1)..Len(q)
<1>1. Len(q) \in Nat /\ \A i \in 1..Len(q) : d[i] = Due(id, q[i]) /\ d[i] \in Nat
  BY DuesType
<1>2. /\ IsFiniteSet(D) /\ s + 1 \in D /\ D \ {s + 1} = R /\ s + 1 \in 1..Len(q)
      /\ \A i \in D : d[i] \in Int
  <2>1. IsFiniteSet(D)
    BY <1>1, FS_Interval
  <2>2. \A i \in D : i \in 1..Len(q)
    BY <1>1
  <2>3. s + 1 \in D /\ D \ {s + 1} = R
    BY <1>1
  <2> HIDE DEF d, D
  <2>4. \A i \in D : d[i] \in Int
    BY <1>1, <2>2
  <2> QED
    BY <2>1, <2>2, <2>3, <2>4
<1>3. Unsent(id, q, s) = SumFunctionOnSet(d, D) /\ Unsent(id, q, s + 1) = SumFunctionOnSet(d, R)
  BY DEF Unsent
<1> HIDE DEF d, D, R
<1>4. SumFunctionOnSet(d, D) = d[s + 1] + SumFunctionOnSet(d, D \ {s + 1})
  BY <1>2, SumRemove
<1> QED
  BY <1>1, <1>2, <1>3, <1>4

\* What is due is never less than nothing, and nothing when every part of it is.
LEMMA UnsentType ==
  ASSUME NEW q \in Seq(Fill), NEW id, NEW s \in Nat
  PROVE  /\ Unsent(id, q, s) \in Nat
         /\ (\A i \in 1..Len(q) : Due(id, q[i]) = 0) => Unsent(id, q, s) = 0
<1> DEFINE d == Dues(id, q)
           D == (s + 1)..Len(q)
<1>1. Len(q) \in Nat /\ \A i \in 1..Len(q) : d[i] = Due(id, q[i]) /\ d[i] \in Nat
  BY DuesType
<1>2. IsFiniteSet(D) /\ \A i \in D : i \in 1..Len(q)
  BY <1>1, FS_Interval
<1>3. Unsent(id, q, s) = SumFunctionOnSet(d, D)
  BY DEF Unsent
<1> HIDE DEF d, D
<1>4. SumFunctionOnSet(d, D) \in Nat
  BY <1>1, <1>2, SumNatural
<1>5. (\A i \in 1..Len(q) : Due(id, q[i]) = 0) => SumFunctionOnSet(d, D) = 0
  BY <1>1, <1>2, SumZero
<1> QED
  BY <1>3, <1>4, <1>5

\* What a queue carries for an id.
LEMMA AsksType ==
  ASSUME NEW S, \A x \in S : x.qty \in Nat, NEW q \in Seq(S), NEW id
  PROVE  /\ Asks(id, q) \in Seq(Int) /\ Len(Asks(id, q)) = Len(q) /\ Len(q) \in Nat
         /\ \A i \in 1..Len(q) : Asks(id, q)[i] = If(q[i].id = id, q[i].qty)
         /\ Asked(id, q) \in Nat
<1> DEFINE d == Asks(id, q)
<1>1. Len(q) \in Nat /\ DOMAIN q = 1..Len(q)
  BY LenProperties
<1>2. \A i \in 1..Len(q) : If(q[i].id = id, q[i].qty) \in Nat
  <2>1. \A i \in 1..Len(q) : q[i].qty \in Nat
    BY ElementOfSeq
  <2> QED
    BY <2>1 DEF If
<1>3. d = [i \in 1..Len(q) |-> If(q[i].id = id, q[i].qty)]
  BY <1>1 DEF Asks
<1>4. /\ d \in [1..Len(q) -> Int] /\ DOMAIN d = 1..Len(q)
      /\ \A i \in 1..Len(q) : d[i] = If(q[i].id = id, q[i].qty) /\ d[i] \in Nat
  BY <1>2, <1>3
<1> HIDE DEF d
<1>5. d \in Seq(Int) /\ Len(d) = Len(q)
  BY <1>1, <1>4, FunctionIsSequence
<1>6. SumFunction(d) \in Nat
  <2>1. SumFunction(d) = SumFunctionOnSet(d, 1..Len(q)) /\ IsFiniteSet(1..Len(q))
    BY <1>4, <1>5, SequenceSum
  <2> QED
    BY <2>1, <1>4, SumNatural
<1> QED
  BY <1>1, <1>4, <1>5, <1>6 DEF d, Asked

\* What is taken from a queue is no longer in it.
LEMMA AskedOfTail ==
  ASSUME NEW S, \A x \in S : x.qty \in Nat, NEW q \in Seq(S), q # <<>>, NEW id
  PROVE  Asked(id, q) = If(Head(q).id = id, Head(q).qty) + Asked(id, Tail(q))
<1> DEFINE r == Tail(q)
           v == Asks(id, q)
           w == Asks(id, r)
<1>1. /\ r \in Seq(S) /\ Len(r) = Len(q) - 1
      /\ \A i \in 1..Len(r) : r[i] = q[i + 1]
  BY HeadTailProperties
<1>2. /\ v \in Seq(Int) /\ Len(v) = Len(q) /\ Len(q) \in Nat
      /\ \A i \in 1..Len(q) : v[i] = If(q[i].id = id, q[i].qty)
  BY AsksType
<1> HIDE DEF r, v
<1>3. /\ w \in Seq(Int) /\ Len(w) = Len(r)
      /\ \A i \in 1..Len(r) : w[i] = If(r[i].id = id, r[i].qty)
  BY <1>1, AsksType
<1> HIDE DEF w
<1>4. Len(q) \in Nat \ {0} /\ DOMAIN v = 1..Len(q)
  BY <1>2, EmptySeq, LenProperties
<1>5. ASSUME NEW i \in 1..(Len(v) - 1)
      PROVE  w[i] = IF i < 1 THEN v[i] ELSE v[i + 1]
  <2>1. i \in 1..Len(r) /\ i + 1 \in 1..Len(q) /\ ~(i < 1)
    BY <1>1, <1>2
  <2>2. w[i] = If(r[i].id = id, r[i].qty) /\ r[i] = q[i + 1]
    BY <2>1, <1>1, <1>3
  <2>3. v[i + 1] = If(q[i + 1].id = id, q[i + 1].qty)
    BY <2>1, <1>2
  <2> QED
    BY <2>1, <2>2, <2>3
<1>6. SumFunction(w) = SumFunction(v) - v[1]
  <2>1. 1 \in DOMAIN v /\ Len(w) = Len(v) - 1
    BY <1>1, <1>2, <1>3, <1>4
  <2> QED
    BY <2>1, <1>2, <1>3, <1>5, SumOfRemove
<1>7. v[1] = If(Head(q).id = id, Head(q).qty) /\ v[1] \in Int
  BY <1>2, <1>4, ElementOfSeq
<1>8. SumFunction(v) \in Int
  BY <1>2, SequenceSum
<1> QED
  BY <1>6, <1>7, <1>8 DEF r, v, w, Asked

\* A sample delivered adds its quantity, and a full queue loses its oldest.
LEMMA AskedOfDelivered ==
  ASSUME NEW S, \A x \in S : x.qty \in Nat,
         NEW q \in Seq(S), NEW c \in S, NEW id, Len(q) <= Capacity
  PROVE  /\ Asked(id, Delivered(q, c)) = Asked(id, q) - LostOf(id, q) + If(c.id = id, c.qty)
         /\ LostOf(id, q) \in Nat /\ If(c.id = id, c.qty) \in Nat
<1> DEFINE r == IF Len(q) < Capacity THEN q ELSE Tail(q)
           s == Append(r, c)
           v == Asks(id, r)
           w == Asks(id, s)
<1>1. r \in Seq(S) /\ Asked(id, r) = Asked(id, q) - LostOf(id, q) /\ LostOf(id, q) \in Nat
  <2>1. CASE Len(q) < Capacity
    <3>1. LostOf(id, q) = 0 /\ Asked(id, q) \in Nat
      BY <2>1, AsksType DEF LostOf, Lost, If
    <3> QED
      BY <2>1, <3>1
  <2>2. CASE ~(Len(q) < Capacity)
    <3>1. Len(q) \in Nat /\ q # <<>>
      BY <2>2, LenProperties, CapacityAssumption, EmptySeq
    <3>2. Tail(q) \in Seq(S) /\ Head(q) \in S
      BY <3>1, HeadTailProperties
    <3>3. Asked(id, q) = If(Head(q).id = id, Head(q).qty) + Asked(id, Tail(q))
      BY <3>1, AskedOfTail
    <3>4. If(Head(q).id = id, Head(q).qty) \in Nat
      BY <3>2 DEF If
    <3>5. Asked(id, Tail(q)) \in Nat
      BY <3>2, AsksType
    <3>6. LostOf(id, q) = If(Head(q).id = id, Head(q).qty)
      <4>1. Lost(q) = <<Head(q)>> /\ <<Head(q)>> # <<>>
        BY <2>2 DEF Lost
      <4> QED
        BY <4>1 DEF LostOf
    <3> QED
      BY <2>2, <3>2, <3>3, <3>4, <3>5, <3>6
  <2> QED
    BY <2>1, <2>2
<1> HIDE DEF r
<1>2. /\ s \in Seq(S) /\ Len(s) = Len(r) + 1 /\ s[Len(r) + 1] = c
      /\ \A i \in 1..Len(r) : s[i] = r[i]
  BY <1>1, AppendProperties
<1>3. /\ v \in Seq(Int) /\ Len(v) = Len(r) /\ Len(r) \in Nat /\ Asked(id, r) \in Nat
      /\ \A i \in 1..Len(r) : v[i] = If(r[i].id = id, r[i].qty)
  BY <1>1, AsksType
<1> HIDE DEF s, v
<1>4. /\ w \in Seq(Int) /\ Len(w) = Len(s) /\ Asked(id, s) \in Nat
      /\ \A i \in 1..Len(s) : w[i] = If(s[i].id = id, s[i].qty)
  BY <1>2, AsksType
<1> HIDE DEF w
<1>5. ASSUME NEW i \in 1..Len(v) PROVE w[i] = v[i]
  <2>1. i \in 1..Len(r) /\ i \in 1..Len(s)
    BY <1>2, <1>3
  <2>2. s[i] = r[i]
    BY <2>1, <1>2
  <2>3. w[i] = If(s[i].id = id, s[i].qty) /\ v[i] = If(r[i].id = id, r[i].qty)
    BY <2>1, <1>3, <1>4
  <2> QED
    BY <2>2, <2>3
<1>6. w[Len(v) + 1] = If(c.id = id, c.qty)
  <2>1. Len(v) + 1 \in 1..Len(s) /\ Len(v) + 1 = Len(r) + 1
    BY <1>2, <1>3
  <2>2. w[Len(v) + 1] = If(s[Len(v) + 1].id = id, s[Len(v) + 1].qty)
    BY <2>1, <1>4
  <2> QED
    BY <2>1, <2>2, <1>2
<1>7. SumFunction(w) = SumFunction(v) + w[Len(v) + 1]
  BY <1>2, <1>3, <1>4, <1>5, SumOfMore
<1>8. Asked(id, s) = Asked(id, r) + If(c.id = id, c.qty)
  BY <1>6, <1>7 DEF v, w, Asked
<1>9. If(c.id = id, c.qty) \in Nat /\ Asked(id, q) \in Nat
  BY AsksType DEF If
<1>10. Delivered(q, c) = s
  BY DEF Delivered, r, s
<1> QED
  BY <1>1, <1>3, <1>8, <1>9, <1>10

----------------------------------------------------------------------------
(* Every fill is reported, once *)

\* What a fill adds to the tally of its two orders, and what is due for it.
LEMMA CountedIsDue ==
  ASSUME NEW f \in Fill, NEW id
  PROVE  If(f.taker = id, f.qty) + If(f.maker = id, f.qty)
           = If(f.maker = id /\ ~IsSynthetic(f.taker), f.qty) + Due(id, f)
<1>1. f.qty \in Nat
  BY MaxQtyAssumption DEF Fill
<1> QED
  BY <1>1 DEF Due, If

\* The two publishing loops report what is due for the fill they look at.
LEMMA PublishedIsDue ==
  ASSUME BookStructure, LoopTyped, ControlHolds, PublishFill \/ PublishMakerFill,
         NEW id \in StrategyIds
  PROVE  /\ tally'[id].executed = tally[id].executed
         /\ tally'[id].selfMade = tally[id].selfMade
         /\ tally'[id].reported = tally[id].reported + Due(id, fills[sent + 1])
<1> DEFINE f == fills[sent + 1]
<1>1. /\ sent < Len(fills)
      /\ PublishFill => xpc = "fills"
      /\ PublishMakerFill => xpc = "makers"
  BY DEF PublishFill, PublishMakerFill, At
<1>2. /\ sent + 1 \in DOMAIN fills /\ f \in Fill
      /\ xpc = "fills" =>
           /\ ~IsSynthetic(f.taker)
           /\ Report(f.taker, f, f.left, FillStatus(f.left)) \in Reported
      /\ xpc = "makers" /\ StrategyMaker(f) => Report(f.maker, f, 0, 2) \in Reported
  BY <1>1, PublishedReport
<1>3. f.qty \in Nat /\ tally[id].reported \in Nat
  <2>1. f.qty \in Nat
    BY <1>2, MaxQtyAssumption DEF Fill
  <2>2. tally[id] \in Tally
    BY DEF LoopTyped
  <2> QED
    BY <2>1, <2>2 DEF Tally
<1>4. CASE PublishFill
  <2> DEFINE r == Report(f.taker, f, f.left, FillStatus(f.left))
  <2>1. Send(r) /\ r \in Reported /\ ~IsSynthetic(f.taker)
    BY <1>1, <1>2, <1>4 DEF PublishFill
  <2>2. r.id = f.taker /\ r.qty = f.qty
    BY DEF Report
  <2> HIDE DEF r
  <2>3. /\ tally'[id].executed = tally[id].executed
        /\ tally'[id].selfMade = tally[id].selfMade
        /\ tally'[id].reported = tally[id].reported + If(r.id = id, r.qty)
    BY <2>1, SendTyped
  <2>4. Due(id, f) = If(r.id = id, r.qty)
    BY <1>3, <2>1, <2>2 DEF Due, If
  <2> QED
    BY <2>3, <2>4
<1>5. CASE PublishMakerFill
  <2>1. f.taker \in SynIds /\ f.taker # id
    BY <1>1, <1>2, <1>5 DEF ControlHolds, FillsBy, InRound, StrategyIds
  <2>2. CASE StrategyMaker(f)
    <3> DEFINE r == Report(f.maker, f, 0, 2)
    <3>1. Send(r) /\ r \in Reported
      BY <1>1, <1>2, <1>5, <2>2 DEF PublishMakerFill
    <3>2. r.id = f.maker /\ r.qty = f.qty
      BY DEF Report
    <3> HIDE DEF r
    <3>3. /\ tally'[id].executed = tally[id].executed
          /\ tally'[id].selfMade = tally[id].selfMade
          /\ tally'[id].reported = tally[id].reported + If(r.id = id, r.qty)
      BY <3>1, SendTyped
    <3>4. Due(id, f) = If(r.id = id, r.qty)
      BY <1>3, <2>1, <3>2 DEF Due, If, IsSynthetic
    <3> QED
      BY <3>3, <3>4
  <2>3. CASE ~StrategyMaker(f)
    <3>1. tally' = tally
      BY <1>5, <2>3 DEF PublishMakerFill
    <3>2. f.maker # id
      BY <2>3 DEF StrategyMaker, IsSynthetic, StrategyIds
    <3>3. Due(id, f) = 0
      BY <2>1, <3>2 DEF Due, If
    <3> QED
      BY <1>3, <3>1, <3>3
  <2> QED
    BY <2>2, <2>3
<1> QED
  BY <1>4, <1>5

\* A publishing loop sends one report; otherwise none is sent, and the accounts of
\* the reports stay as they are.
LEMMA LoopReports ==
  ASSUME BookStructure, LoopTyped, ControlHolds, ExchangeNext
  PROVE  \/ (PublishFill \/ PublishMakerFill) /\ \E r \in Reported : Send(r)
         \/ /\ reports' = reports
            /\ \A id \in StrategyIds :
                 tally'[id].reported = tally[id].reported /\ tally'[id].lost = tally[id].lost
<1>1. CASE BookStep
  <2>1. reports' = reports /\ fills \in Seq(Fill) /\ Len(fills) \in Nat
    BY <1>1, LenProperties DEF BookStep, BookStructure, BookTypeOK
  <2>2. CASE FillFront
    <3>1. PICK f \in Fill : Last(fills') = f /\ Len(fills') = Len(fills) + 1
      BY <2>2, FillEffects
    <3>2. CountFill(f)
      BY <1>1, <2>1, <3>1 DEF BookStep
    <3> QED
      BY <2>1, <3>2, CountTyped
  <2>3. CASE ~FillFront
    <3>1. fills' = fills
      BY <1>1, <2>3, OtherEffects DEF BookStep
    <3> QED
      BY <1>1, <2>1, <3>1 DEF BookStep
  <2> QED
    BY <2>2, <2>3
<1>2. CASE PublishFill \/ PublishMakerFill
  <2> DEFINE f == fills[sent + 1]
  <2>1. sent < Len(fills) /\ (PublishFill => xpc = "fills") /\ (PublishMakerFill => xpc = "makers")
    BY <1>2 DEF PublishFill, PublishMakerFill, At
  <2>2. /\ xpc = "fills" => ~IsSynthetic(f.taker)
                            /\ Report(f.taker, f, f.left, FillStatus(f.left)) \in Reported
        /\ xpc = "makers" /\ StrategyMaker(f) => Report(f.maker, f, 0, 2) \in Reported
    BY <2>1, PublishedReport
  <2>3. CASE PublishFill
    BY <2>1, <2>2, <2>3 DEF PublishFill
  <2>4. CASE PublishMakerFill
    BY <2>1, <2>2, <2>4 DEF PublishMakerFill
  <2> QED
    BY <1>2, <2>3, <2>4
<1>3. CASE ReceiveOrder \/ Replace \/ StartRound \/ PostAsk \/ Churn \/ Cross
  BY <1>3 DEF ReceiveOrder, Replace, StartRound, PostAsk, Churn, Cross
<1>4. CASE Quiet /\ ~(PublishFill \/ PublishMakerFill)
  BY <1>4 DEF Quiet, FillsPublished, Prune, MakersPublished, NotDue, PublishTop, NotifyTop,
     TopUnmoved, NextTurn, Primed
<1> QED
  BY <1>1, <1>2, <1>3, <1>4, LoopSteps

\* Every step keeps each fill reported, or among those still to report.
LEMMA ReportsKept ==
  ASSUME BookStructure, LoopTyped, ControlHolds, PrimingHolds, ReportsHold, Turn
  PROVE  ReportsHold'
<1> USE DEF Goto, At
<1>1. /\ fills \in Seq(Fill) /\ fills' \in Seq(Fill) /\ sent \in 0..Len(fills) /\ sent \in Nat
      /\ Len(fills) \in Nat /\ DOMAIN fills = 1..Len(fills) /\ BookTypeOK
      /\ live \subseteq SynIds
  <2>1. fills \in Seq(Fill) /\ fills' \in Seq(Fill) /\ BookTypeOK
    BY StructureKept DEF BookStructure, BookTypeOK
  <2> QED
    BY <2>1, LenProperties DEF LoopTyped
<1>2. \A id \in StrategyIds :
        /\ tally[id].executed \in Nat /\ tally[id].selfMade \in Nat /\ tally[id].reported \in Nat
        /\ Owed(id) \in Nat
        /\ tally[id].executed = tally[id].selfMade + tally[id].reported + Owed(id)
  <2>1. \A id : Unsent(id, fills, sent) \in Nat
    BY <1>1, UnsentType
  <2>2. \A id : Owed(id) \in Nat
    BY <2>1 DEF Owed
  <2>3. \A id \in StrategyIds : tally[id] \in Tally
    BY DEF LoopTyped
  <2> QED
    BY <2>2, <2>3 DEF Tally, ReportsHold

\* Nothing is counted, reported, or becomes due.
<1>3. tally' = tally /\ (\A id \in StrategyIds : Owed(id)' = Owed(id)) => ReportsHold'
  BY <1>2 DEF ReportsHold
<1>4. CASE BookStep
  <2>1. /\ xpc' = xpc /\ sent' = sent /\ sent = 0 /\ xpc \in {"fills"} \cup InRound
    BY <1>4, TakerEffects DEF BookStep, ControlHolds, Calling, InRound, matchVars
  <2>2. \A id : /\ Owed(id) = SumFunction(Dues(id, fills))
                /\ Owed(id)' = SumFunction(Dues(id, fills'))
    BY <1>1, <2>1, UnsentAtEnds DEF Owed
  <2>3. CASE FillFront
    <3>1. PICK f \in Fill : /\ fills' = Append(fills, f) /\ Last(fills') = f
                            /\ Len(fills') = Len(fills) + 1
      BY <2>3, FillEffects
    <3>2. CountFill(f)
      BY <1>1, <1>4, <3>1 DEF BookStep
    <3> SUFFICES ASSUME NEW id \in StrategyIds
                 PROVE  tally'[id].executed = tally'[id].selfMade + tally'[id].reported + Owed(id)'
      BY DEF ReportsHold
    <3> DEFINE a == If(f.taker = id, f.qty)
               b == If(f.maker = id, f.qty)
               c == If(f.maker = id /\ ~IsSynthetic(f.taker), f.qty)
    <3>3. Owed(id)' = Owed(id) + Due(id, f)
      BY <1>1, <2>2, <3>1, DuesGrow
    <3>4. /\ tally'[id].executed = tally[id].executed + a + b
          /\ tally'[id].selfMade = tally[id].selfMade + c
          /\ tally'[id].reported = tally[id].reported
      BY <3>2, CountTyped
    <3>5. a + b = c + Due(id, f)
      BY CountedIsDue
    <3>6. a \in Nat /\ b \in Nat /\ c \in Nat /\ Due(id, f) \in Nat
      <4>1. f.qty \in Nat
        BY MaxQtyAssumption DEF Fill
      <4> QED
        BY <4>1, DueType DEF If
    <3> DEFINE d == Due(id, f)
               e == tally[id].executed
               m == tally[id].selfMade
               r == tally[id].reported
               o == Owed(id)
    <3>7. e \in Nat /\ m \in Nat /\ r \in Nat /\ o \in Nat /\ e = m + r + o
      BY <1>2
    <3>8. d \in Nat /\ a + b = c + d
      BY <3>5, <3>6
    <3>9. /\ tally'[id].executed = e + a + b /\ tally'[id].selfMade = m + c
          /\ tally'[id].reported = r /\ Owed(id)' = o + d
      BY <3>3, <3>4
    <3> HIDE DEF a, b, c, d, e, m, r, o
    <3>10. e + a + b = m + c + r + (o + d)
      BY <3>6, <3>7, <3>8
    <3> QED
      BY <3>9, <3>10
  <2>4. CASE ~FillFront
    <3>1. fills' = fills
      BY <1>4, <2>4, OtherEffects DEF BookStep
    <3>2. tally' = tally
      BY <1>1, <1>4, <3>1 DEF BookStep
    <3> QED
      BY <1>3, <2>2, <3>1, <3>2
  <2> QED
    BY <2>3, <2>4
<1>5. CASE ReceiveOrder \/ Replace \/ StartRound
  <2>1. fills' = <<>>
    <3>1. CASE ReceiveOrder
      BY <3>1, ReceiveOrderCalls, SubmitBegins
    <3>2. CASE Replace
      BY <3>2, SubmitBegins DEF Replace, SubmitCommand, ControlHolds
    <3>3. CASE StartRound
      BY <3>3, SubmitBegins DEF StartRound
    <3> QED
      BY <1>5, <3>1, <3>2, <3>3
  <2>2. tally' = tally /\ sent' = 0 /\ xpc \in {"orders", "replace", "prime"}
    BY <1>5 DEF ReceiveOrder, Replace, StartRound, ControlHolds, matchVars
  <2>3. \A id : Owed(id) = 0
    BY <2>2 DEF Owed, InRound
  <2>4. \A id : Owed(id)' = 0
    <3>1. Len(fills') = 0
      BY <2>1
    <3>2. \A id : Unsent(id, fills', 0) = 0
      BY <1>1, <3>1, UnsentAtEnds
    <3> QED
      BY <2>2, <3>2 DEF Owed
  <2> QED
    BY <1>3, <2>2, <2>3, <2>4
<1>6. CASE PostAsk \/ Churn \/ Cross
  <2>1. fills' = fills
    <3>1. CASE PostAsk
      BY <3>1, SubmitBegins DEF PostAsk
    <3>2. CASE Churn
      BY <3>2 DEF Churn, bookVars
    <3>3. CASE Cross
      BY <3>3, SubmitBegins DEF Cross, bookVars
    <3> QED
      BY <1>6, <3>1, <3>2, <3>3
  <2>2. tally' = tally /\ sent' = sent /\ xpc \in InRound /\ xpc' \in InRound
    BY <1>6 DEF PostAsk, Churn, Cross, matchVars, InRound
  <2> QED
    BY <1>3, <2>1, <2>2 DEF Owed
<1>7. CASE PublishFill \/ PublishMakerFill
  <2>1. /\ sent < Len(fills) /\ xpc \in {"fills", "makers"}
        /\ xpc' = xpc /\ sent' = sent + 1 /\ fills' = fills
    BY <1>7 DEF PublishFill, PublishMakerFill, bookVars
  <2> SUFFICES ASSUME NEW id \in StrategyIds
               PROVE  tally'[id].executed = tally'[id].selfMade + tally'[id].reported + Owed(id)'
    BY DEF ReportsHold
  <2> DEFINE d == Due(id, fills[sent + 1])
  <2>2. Unsent(id, fills, sent) = d + Unsent(id, fills, sent + 1)
    BY <1>1, <2>1, UnsentShrinks
  <2>3. Owed(id) = d + Owed(id)'
    BY <2>1, <2>2 DEF Owed, InRound
  <2>4. d \in Nat /\ Owed(id)' \in Nat
    <3>1. fills[sent + 1] \in Fill
      BY <2>1, PublishedReport
    <3>2. Unsent(id, fills, sent + 1) \in Nat
      BY <1>1, UnsentType
    <3> QED
      BY <2>1, <3>1, <3>2, DueType DEF Owed
  <2>5. /\ tally'[id].executed = tally[id].executed
        /\ tally'[id].selfMade = tally[id].selfMade
        /\ tally'[id].reported = tally[id].reported + d
    BY <1>7, PublishedIsDue
  <2> HIDE DEF d
  <2> QED
    BY <1>2, <2>3, <2>4, <2>5
<1>8. CASE FillsPublished \/ MakersPublished
  <2>1. tally' = tally /\ sent = Len(fills) /\ xpc' \in {"orders", "top"}
    BY <1>8 DEF FillsPublished, MakersPublished
  <2>2. \A id : Owed(id) = 0
    BY <1>1, <2>1, UnsentAtEnds DEF Owed
  <2>3. \A id : Owed(id)' = 0
    BY <2>1 DEF Owed, InRound
  <2> QED
    BY <1>3, <2>1, <2>2, <2>3
<1>9. CASE Prune
  <2>1. /\ tally' = tally /\ fills' = fills /\ sent' = sent /\ xpc = "prune"
        /\ xpc' = IF rounds <= PrimeRounds THEN "prime" ELSE "makers"
    BY <1>9 DEF Prune, bookVars, matchVars
  <2>2. CASE rounds <= PrimeRounds
    <3>1. \A i \in 1..Len(fills) : fills[i].taker \in SynIds /\ fills[i].maker \in SynIds
      BY <1>1, <2>1, <2>2 DEF ControlHolds, FillsBy, PrimingHolds, InRound
    <3>2. \A id \in StrategyIds : \A i \in 1..Len(fills) : Due(id, fills[i]) = 0
      BY <3>1 DEF Due, If, StrategyIds
    <3>3. \A id \in StrategyIds : Unsent(id, fills, sent) = 0
      BY <1>1, <3>2, UnsentType
    <3>4. \A id \in StrategyIds : Owed(id) = 0 /\ Owed(id)' = 0
      BY <2>1, <2>2, <3>3 DEF Owed, InRound
    <3> QED
      BY <1>3, <2>1, <3>4
  <2>3. CASE ~(rounds <= PrimeRounds)
    BY <1>3, <2>1, <2>3 DEF Owed, InRound
  <2> QED
    BY <2>2, <2>3
<1>10. CASE NotDue \/ PublishTop \/ NotifyTop \/ TopUnmoved \/ NextTurn \/ Primed
  <2>1. /\ tally' = tally
        /\ xpc \in {"orders", "top", "notify", "loop", "prime"}
        /\ xpc' \in {"orders", "top", "notify", "loop", "prime"}
    BY <1>10 DEF NotDue, PublishTop, NotifyTop, TopUnmoved, NextTurn, Primed, AfterTick
  <2> QED
    BY <1>3, <2>1 DEF Owed, InRound
<1>11. CASE Outside
  <2>1. tally' = tally /\ fills' = fills /\ sent' = sent /\ xpc' = xpc
    BY <1>11 DEF Outside, bookVars, matchVars
  <2> QED
    BY <1>3, <2>1 DEF Owed
<1> QED
  BY <1>4, <1>5, <1>6, <1>7, <1>8, <1>9, <1>10, <1>11, Steps DEF Quiet
----------------------------------------------------------------------------
(* No order executes for more than was asked for *)

\* The parts of what is committed are natural numbers.
LEMMA CommittedType ==
  ASSUME BookStructure, LoopTyped, ControlHolds, NEW id \in StrategyIds
  PROVE  /\ tally[id].executed \in Nat /\ Running(id) \in Nat /\ Returning(id) \in Nat
         /\ Asked(id, toExchange) \in Nat /\ Committed(id) \in Nat
<1>1. tally[id].executed \in Nat
  <2>1. tally[id] \in Tally
    BY DEF LoopTyped
  <2> QED
    BY <2>1 DEF Tally
<1>2. Running(id) \in Nat
  <2>1. ~Idle => taker.left \in Nat
    BY Matching, MaxQtyAssumption DEF Taker
  <2> QED
    BY <2>1 DEF Running, If
<1>3. Returning(id) \in Nat
  <2>1. xpc = "replace" => cmd.qty \in Nat
    BY MaxQtyAssumption DEF ControlHolds, Command
  <2> QED
    BY <2>1 DEF Returning, If
<1>4. Asked(id, toExchange) \in Nat
  BY CommandQtys, AsksType DEF LoopTyped
<1> QED
  BY <1>1, <1>2, <1>3, <1>4 DEF Committed

\* A step that commits to no more, and adds no order.
LEMMA NoMoreCommitted ==
  ASSUME BookStructure, LoopTyped, ControlHolds, NEW lim \in [StrategyIds -> Nat], Within(lim),
         \A id \in StrategyIds : \E n \in Nat : Committed(id)' = Committed(id) - n,
         \A o \in AbstractOrders' : o \in AbstractOrders
  PROVE  WithinAfter(lim)
<1>1. \A id \in StrategyIds : Committed(id) \in Nat /\ lim[id] \in Nat
  BY CommittedType
<1>2. \A o \in AbstractOrders : o.left \in Nat
  BY OrderTyped, MaxQtyAssumption
<1>3. \A id \in StrategyIds : Committed(id)' <= lim[id]
  BY <1>1 DEF Within, WithinAfter
<1>4. ASSUME NEW o \in AbstractOrders', o.id \in StrategyIds
      PROVE  Committed(o.id)' + o.left <= lim[o.id]
  <2>1. o.left \in Nat /\ Committed(o.id) + o.left <= lim[o.id]
    BY <1>2, <1>4 DEF Within, WithinAfter
  <2>2. PICK n \in Nat : Committed(o.id)' = Committed(o.id) - n
    BY <1>4
  <2> QED
    BY <1>1, <1>4, <2>1, <2>2
<1> QED
  BY <1>3, <1>4 DEF Within, WithinAfter

\* A fill: what the taker executes it had committed to, what the maker executes
\* its order in the book had left.
LEMMA FillWithin ==
  ASSUME BookStructure, LoopTyped, ControlHolds, NEW lim \in [StrategyIds -> Nat], Within(lim),
         BookStep, FillFront
  PROVE  WithinAfter(lim)
<1>1. PICK f \in Fill :
        /\ f.taker = taker.id /\ taker'.left = taker.left - f.qty
        /\ Last(fills') = f /\ Len(fills') = Len(fills) + 1
        /\ \E m \in AbstractOrders :
             /\ m.id = f.maker /\ m.left \in Nat /\ f.qty <= m.left
             /\ \A o \in AbstractOrders' :
                  \/ o \in AbstractOrders /\ o.id # m.id
                  \/ o.id = m.id /\ o.left = m.left - f.qty
  BY FillEffects
<1>2. PICK m \in AbstractOrders :
        /\ m.id = f.maker /\ m.left \in Nat /\ f.qty <= m.left
        /\ \A o \in AbstractOrders' :
             \/ o \in AbstractOrders /\ o.id # m.id
             \/ o.id = m.id /\ o.left = m.left - f.qty
  BY <1>1
<1>3. /\ ~Idle /\ ~Idle' /\ taker'.id = taker.id /\ taker.left \in Nat /\ f.qty \in Nat
      /\ UNCHANGED <<xpc, cmd, toExchange>>
  <2>1. ~Idle /\ ~Idle'
    BY DEF FillFront, Idle
  <2>2. taker'.id = taker.id
    BY <2>1, TakerEffects DEF BookStep
  <2>3. taker.left \in Nat
    BY <2>1, Matching, MaxQtyAssumption DEF Taker
  <2>4. f.qty \in Nat
    BY MaxQtyAssumption DEF Fill
  <2> QED
    BY <2>1, <2>2, <2>3, <2>4 DEF BookStep, matchVars
<1>4. CountFill(f)
  <2>1. Len(fills) \in Nat
    BY LenProperties DEF BookStructure, BookTypeOK
  <2> QED
    BY <1>1, <2>1 DEF BookStep
<1>5. ASSUME NEW id \in StrategyIds
      PROVE  /\ Committed(id) \in Nat /\ lim[id] \in Nat
             /\ Committed(id)' = Committed(id) + If(f.maker = id, f.qty)
  <2> DEFINE e == tally[id].executed
             u == Running(id)
             v == Returning(id)
             w == Asked(id, toExchange)
             a == If(f.taker = id, f.qty)
             b == If(f.maker = id, f.qty)
  <2>1. e \in Nat /\ u \in Nat /\ v \in Nat /\ w \in Nat /\ Committed(id) \in Nat /\ lim[id] \in Nat
    BY CommittedType
  <2>2. a \in Nat /\ b \in Nat
    BY <1>3 DEF If
  <2>3. tally'[id].executed = e + a + b
    BY <1>4, CountTyped
  <2>4. Running(id)' = u - a
    <3>1. CASE taker.id = id
      <4>1. Running(id)' = taker.left - f.qty /\ u = taker.left /\ a = f.qty
        BY <1>1, <1>3, <3>1 DEF Running, If
      <4> QED
        BY <4>1
    <3>2. CASE taker.id # id
      <4>1. Running(id)' = 0 /\ u = 0 /\ a = 0
        BY <1>1, <1>3, <3>2 DEF Running, If
      <4> QED
        BY <4>1
    <3> QED
      BY <3>1, <3>2
  <2>5. Returning(id)' = v /\ Asked(id, toExchange)' = w
    BY <1>3 DEF Returning, Asked, Asks
  <2>6. /\ Committed(id) = e + u + v + w
        /\ Committed(id)' = (e + a + b) + (u - a) + v + w
    BY <2>3, <2>4, <2>5 DEF Committed
  <2> HIDE DEF e, u, v, w, a, b
  <2>7. (e + a + b) + (u - a) + v + w = (e + u + v + w) + b
    BY <2>1, <2>2
  <2>8. Committed(id)' = Committed(id) + b
    BY <2>6, <2>7
  <2> QED
    BY <2>1, <2>8 DEF b
<1>6. \A o \in AbstractOrders : o.left \in Nat
  BY OrderTyped, MaxQtyAssumption
<1>7. ASSUME NEW id \in StrategyIds PROVE Committed(id)' <= lim[id]
  <2>1. CASE f.maker = id
    <3>1. Committed(id) + m.left <= lim[id]
      BY <1>2, <2>1 DEF Within, WithinAfter
    <3>2. Committed(id)' = Committed(id) + f.qty
      BY <1>5, <2>1 DEF If
    <3> QED
      BY <1>2, <1>3, <1>5, <3>1, <3>2
  <2>2. CASE f.maker # id
    <3>1. Committed(id)' = Committed(id) + 0
      BY <1>5, <2>2 DEF If
    <3> QED
      BY <1>5, <3>1 DEF Within, WithinAfter
  <2> QED
    BY <2>1, <2>2
<1>8. ASSUME NEW o \in AbstractOrders', o.id \in StrategyIds
      PROVE  Committed(o.id)' + o.left <= lim[o.id]
  <2>1. CASE o \in AbstractOrders /\ o.id # m.id
    <3>1. Committed(o.id)' = Committed(o.id) + 0
      BY <1>2, <1>5, <1>8, <2>1 DEF If
    <3>2. Committed(o.id) + o.left <= lim[o.id] /\ o.left \in Nat
      BY <1>6, <1>8, <2>1 DEF Within, WithinAfter
    <3> QED
      BY <1>5, <1>8, <3>1, <3>2
  <2>2. CASE o.id = m.id /\ o.left = m.left - f.qty
    <3>1. Committed(o.id) + m.left <= lim[o.id]
      BY <1>8, <2>2 DEF Within, WithinAfter
    <3>2. Committed(o.id)' = Committed(o.id) + f.qty
      BY <1>2, <1>5, <1>8, <2>2 DEF If
    <3> QED
      BY <1>2, <1>3, <1>5, <1>8, <2>2, <3>1, <3>2
  <2> QED
    BY <1>2, <1>8, <2>1, <2>2
<1> QED
  BY <1>7, <1>8 DEF Within, WithinAfter

\* What rests is what the taker had left.
LEMMA RestWithin ==
  ASSUME BookStructure, LoopTyped, ControlHolds, NEW lim \in [StrategyIds -> Nat], Within(lim),
         BookStep, ~FillFront
  PROVE  WithinAfter(lim)
<1>1. /\ fills' = fills
      /\ ~Idle' => taker' = taker
      /\ \/ AbstractOrders' = AbstractOrders
         \/ /\ Idle' /\ taker.limit # None
            /\ \A o \in AbstractOrders' :
                 o \in AbstractOrders \/ (o.id = taker.id /\ o.left = taker.left)
  BY OtherEffects DEF BookStep
<1>2. ~Idle /\ UNCHANGED <<xpc, cmd, toExchange, tally>>
  <2>1. Len(fills) \in Nat
    BY LenProperties DEF BookStructure, BookTypeOK
  <2> QED
    BY <1>1, <2>1, TakerEffects DEF BookStep, matchVars
<1>3. ASSUME NEW id \in StrategyIds
      PROVE  /\ Committed(id) \in Nat /\ lim[id] \in Nat /\ Running(id) \in Nat
             /\ ~Idle' => Committed(id)' = Committed(id) - 0
             /\ Idle' => Committed(id)' = Committed(id) - Running(id)
  <2> DEFINE e == tally[id].executed
             u == Running(id)
             v == Returning(id)
             w == Asked(id, toExchange)
  <2>1. e \in Nat /\ u \in Nat /\ v \in Nat /\ w \in Nat /\ Committed(id) \in Nat /\ lim[id] \in Nat
    BY CommittedType
  <2>2. /\ ~Idle' => Running(id)' = u
        /\ Idle' => Running(id)' = 0
    BY <1>1, <1>2 DEF Running, If
  <2>3. Returning(id)' = v /\ Asked(id, toExchange)' = w /\ tally'[id].executed = e
    BY <1>2 DEF Returning, Asked, Asks
  <2>4. /\ Committed(id) = e + u + v + w
        /\ ~Idle' => Committed(id)' = e + u + v + w
        /\ Idle' => Committed(id)' = e + 0 + v + w
    BY <2>2, <2>3 DEF Committed
  <2> HIDE DEF e, u, v, w
  <2> QED
    BY <2>1, <2>4 DEF u
<1>4. CASE AbstractOrders' = AbstractOrders
  BY <1>3, <1>4, NoMoreCommitted
<1>5. CASE /\ Idle'
           /\ \A o \in AbstractOrders' :
                o \in AbstractOrders \/ (o.id = taker.id /\ o.left = taker.left)
  <2>1. \A o \in AbstractOrders : o.left \in Nat
    BY OrderTyped, MaxQtyAssumption
  <2>2. \A id \in StrategyIds : Committed(id)' <= lim[id]
    BY <1>3, <1>5 DEF Within, WithinAfter
  <2>3. ASSUME NEW o \in AbstractOrders', o.id \in StrategyIds
        PROVE  Committed(o.id)' + o.left <= lim[o.id]
    <3>1. CASE o \in AbstractOrders
      <4>1. Committed(o.id) + o.left <= lim[o.id] /\ o.left \in Nat
        BY <2>1, <2>3, <3>1 DEF Within, WithinAfter
      <4> QED
        BY <1>3, <1>5, <2>3, <4>1
    <3>2. CASE o.id = taker.id /\ o.left = taker.left
      <4>1. o.left = Running(o.id)
        BY <1>2, <3>2 DEF Running, If
      <4>2. Committed(o.id) <= lim[o.id]
        BY <2>3 DEF Within, WithinAfter
      <4> QED
        BY <1>3, <1>5, <2>3, <4>1, <4>2
    <3> QED
      BY <1>5, <2>3, <3>1, <3>2
  <2> QED
    BY <2>2, <2>3 DEF Within, WithinAfter
<1> QED
  BY <1>1, <1>4, <1>5

\* The calls into the book add no order to it before they return.
LEMMA CallsAddNothing ==
  ASSUME BookStructure
  PROVE  /\ \A id, side, limit, qty, sink :
              Submit(id, side, limit, qty, sink) => AbstractOrders' = AbstractOrders
         /\ \A id \in OrderIds :
              Cancel(id) => \A o \in AbstractOrders' : o \in AbstractOrders
         /\ UNCHANGED bookVars => AbstractOrders' = AbstractOrders
<1>1. ASSUME NEW id, NEW side, NEW limit, NEW qty, NEW sink, Submit(id, side, limit, qty, sink)
      PROVE  AbstractOrders' = AbstractOrders
  BY <1>1, SameQueues DEF Submit, book
<1>2. ASSUME NEW id \in OrderIds, Cancel(id)
      PROVE  \A o \in AbstractOrders' : o \in AbstractOrders
  <2>1. CASE CancelResting(id)
    BY <2>1, CancelTakesOut
  <2>2. CASE CancelUnknown(id)
    BY <2>2, SameQueues DEF CancelUnknown, book
  <2> QED
    BY <1>2, <2>1, <2>2 DEF Cancel
<1> QED
  BY <1>1, <1>2, BookSame

\* A command taken from the queue becomes the running submit, or is to come back.
LEMMA ReceiveWithin ==
  ASSUME BookStructure, LoopTyped, ControlHolds, NEW lim \in [StrategyIds -> Nat], Within(lim), ReceiveOrder
  PROVE  WithinAfter(lim)
<1> USE DEF Goto, At
<1> DEFINE c == Head(toExchange)
<1>1. /\ c \in Command /\ c.id \in OrderIds /\ toExchange # <<>> /\ toExchange \in Seq(Command)
      /\ IF c.action = "new" THEN Submit(c.id, c.side, Limit(c), c.qty, <<>>)
         ELSE Cancel(c.id) /\ fills' = <<>>
      /\ BookTypeOK
  BY ReceiveOrderCalls, LimitType DEF ReceiveOrder, LoopTyped, BookStructure
<1>2. /\ toExchange' = Tail(toExchange) /\ cmd' = c /\ tally' = tally
      /\ xpc = "orders" /\ Idle
      /\ xpc' = IF c.action = "modify" THEN "replace" ELSE "fills"
  BY DEF ReceiveOrder
<1>3. \A id : Asked(id, toExchange) = If(c.id = id, c.qty) + Asked(id, Tail(toExchange))
  BY <1>1, CommandQtys, AskedOfTail
<1>4. Tail(toExchange) \in Seq(Command)
  BY <1>1, HeadTailProperties
<1> HIDE DEF c
<1>5. \A o \in AbstractOrders' : o \in AbstractOrders
  BY <1>1, CallsAddNothing
<1>6. c.qty \in Nat
  BY <1>1, MaxQtyAssumption DEF Command
<1>7. ASSUME NEW id \in StrategyIds PROVE \E n \in Nat : Committed(id)' = Committed(id) - n
  <2> DEFINE e == tally[id].executed
             a == If(c.id = id, c.qty)
             w == Asked(id, Tail(toExchange))
  <2>1. e \in Nat /\ a \in Nat /\ w \in Nat
    BY <1>4, <1>6, CommittedType, CommandQtys, AsksType DEF If
  <2>2. Running(id) = 0 /\ Returning(id) = 0
    BY <1>2 DEF Running, Returning, If
  <2>3. Committed(id) = e + 0 + 0 + (a + w)
    BY <1>3, <2>2 DEF Committed
  <2>4. Asked(id, toExchange)' = w /\ tally'[id].executed = e
    BY <1>2 DEF Asked, Asks
  <2>5. CASE c.action = "new"
    <3>1. ~Idle' /\ taker'.id = c.id /\ taker'.left = c.qty
      BY <1>1, <2>5, SubmitBegins
    <3>2. Running(id)' = a /\ Returning(id)' = 0
      BY <1>2, <2>5, <3>1 DEF Running, Returning, If
    <3>3. Committed(id)' = e + a + 0 + w
      BY <2>4, <3>2 DEF Committed
    <3> HIDE DEF e, a, w
    <3>4. Committed(id)' = Committed(id) - 0
      BY <2>1, <2>3, <3>3
    <3> QED
      BY <3>4
  <2>6. CASE c.action # "new"
    <3>1. Idle'
      BY <1>1, <2>6, CancelReturns
    <3>2. Running(id)' = 0 /\ (Returning(id)' = a \/ Returning(id)' = 0)
      BY <1>2, <3>1 DEF Running, Returning, If
    <3>3. Committed(id)' = e + 0 + a + w \/ Committed(id)' = e + 0 + 0 + w
      BY <2>4, <3>2 DEF Committed
    <3> HIDE DEF e, a, w
    <3>4. Committed(id)' = Committed(id) - 0 \/ Committed(id)' = Committed(id) - a
      BY <2>1, <2>3, <3>3
    <3> QED
      BY <2>1, <3>4
  <2> QED
    BY <2>5, <2>6
<1> QED
  BY <1>5, <1>7, NoMoreCommitted

\* Every step keeps what an order has executed and may yet execute within what was asked.
LEMMA WithinKept ==
  ASSUME BookStructure, LoopTyped, ControlHolds, NEW lim \in [StrategyIds -> Nat], Within(lim), ExchangeNext
  PROVE  WithinAfter(lim)
<1> USE DEF Goto, At
<1>1. \A id \in StrategyIds :
        /\ tally[id].executed \in Nat /\ Running(id) \in Nat /\ Returning(id) \in Nat
        /\ Asked(id, toExchange) \in Nat /\ Committed(id) \in Nat
  BY CommittedType
<1>2. BookTypeOK /\ live \subseteq SynIds /\ SynIds \subseteq OrderIds
  BY SynAssumption DEF BookStructure, LoopTyped

\* Nothing is committed, and no order added.
<1>3. ASSUME \A id \in StrategyIds : /\ tally'[id].executed = tally[id].executed
                                     /\ Running(id)' + Returning(id)' = Running(id) + Returning(id)
                                     /\ Running(id)' \in Nat /\ Returning(id)' \in Nat,
             toExchange' = toExchange,
             \A o \in AbstractOrders' : o \in AbstractOrders
      PROVE  WithinAfter(lim)
  <2>1. ASSUME NEW id \in StrategyIds PROVE \E n \in Nat : Committed(id)' = Committed(id) - n
    <3> DEFINE e == tally[id].executed
               w == Asked(id, toExchange)
               u == Running(id)
               v == Returning(id)
               x == Running(id)'
               y == Returning(id)'
    <3>1. /\ e \in Nat /\ u \in Nat /\ v \in Nat /\ w \in Nat
          /\ x \in Nat /\ y \in Nat /\ x + y = u + v
      BY <1>1, <1>3
    <3>2. Asked(id, toExchange)' = w /\ tally'[id].executed = e
      BY <1>3 DEF Asked, Asks
    <3>3. Committed(id) = e + u + v + w /\ Committed(id)' = e + x + y + w
      BY <3>2 DEF Committed
    <3> HIDE DEF e, u, v, w, x, y
    <3>4. Committed(id)' = Committed(id) - 0
      BY <3>1, <3>3
    <3> QED
      BY <3>4
  <2> QED
    BY <1>3, <2>1, NoMoreCommitted
<1>4. ASSUME BookStep PROVE WithinAfter(lim)
  BY <1>4, FillWithin, RestWithin
<1>5. ASSUME ReceiveOrder PROVE WithinAfter(lim)
  BY <1>5, ReceiveWithin
<1>6. ASSUME Replace PROVE WithinAfter(lim)
  <2>1. /\ Submit(cmd.id, cmd.side, Limit(cmd), cmd.qty, fills)
        /\ xpc = "replace" /\ xpc' = "fills" /\ Idle
        /\ tally' = tally /\ toExchange' = toExchange
    BY <1>6 DEF Replace, SubmitCommand
  <2>2. ~Idle' /\ taker'.id = cmd.id /\ taker'.left = cmd.qty
    BY <2>1, SubmitBegins
  <2>3. cmd.qty \in Nat
    BY <2>1, MaxQtyAssumption DEF ControlHolds, Command
  <2>4. \A id : /\ Running(id) = 0 /\ Returning(id) = If(cmd.id = id, cmd.qty)
                /\ Running(id)' = If(cmd.id = id, cmd.qty) /\ Returning(id)' = 0
                /\ If(cmd.id = id, cmd.qty) \in Nat
    BY <2>1, <2>2, <2>3 DEF Running, Returning, If
  <2>5. \A o \in AbstractOrders' : o \in AbstractOrders
    BY <2>1, CallsAddNothing
  <2>6. ASSUME NEW id
        PROVE  /\ Running(id)' + Returning(id)' = Running(id) + Returning(id)
               /\ Running(id)' \in Nat /\ Returning(id)' \in Nat
    <3> DEFINE n == If(cmd.id = id, cmd.qty)
    <3>1. /\ Running(id) = 0 /\ Returning(id) = n /\ Running(id)' = n /\ Returning(id)' = 0
          /\ n \in Nat
      BY <2>4
    <3> HIDE DEF n
    <3> QED
      BY <3>1
  <2> QED
    BY <1>3, <1>6, <2>1, <2>5, <2>6
<1>7. ASSUME StartRound \/ PostAsk \/ Churn \/ Cross PROVE WithinAfter(lim)
  <2>1. /\ xpc # "replace" /\ xpc' # "replace" /\ Idle
        /\ tally' = tally /\ toExchange' = toExchange
    BY <1>7 DEF StartRound, PostAsk, Churn, Cross
  <2>2. \/ \E id \in SynIds : \E side, limit, qty, sink : Submit(id, side, limit, qty, sink)
        \/ \E id \in OrderIds : Cancel(id)
        \/ UNCHANGED bookVars
    <3>1. CASE StartRound
      BY <3>1 DEF StartRound, FreshIds
    <3>2. CASE PostAsk
      BY <3>2 DEF PostAsk, FreshIds
    <3>3. CASE Churn
      BY <1>2, <3>3 DEF Churn
    <3>4. CASE Cross
      BY <3>4 DEF Cross, FreshIds
    <3> QED
      BY <1>7, <3>1, <3>2, <3>3, <3>4
  <2>3. /\ Idle' \/ taker'.id \in SynIds
        /\ \A o \in AbstractOrders' : o \in AbstractOrders
    <3>1. ASSUME NEW id \in SynIds, NEW side, NEW limit, NEW qty, NEW sink,
                 Submit(id, side, limit, qty, sink)
          PROVE  taker'.id \in SynIds /\ \A o \in AbstractOrders' : o \in AbstractOrders
      BY <3>1, SubmitBegins, CallsAddNothing
    <3>2. ASSUME NEW id \in OrderIds, Cancel(id)
          PROVE  Idle' /\ \A o \in AbstractOrders' : o \in AbstractOrders
      BY <1>2, <3>2, CancelReturns, CallsAddNothing
    <3>3. CASE UNCHANGED bookVars
      BY <2>1, <3>3, BookSame, CallsAddNothing
    <3> QED
      BY <2>2, <3>1, <3>2, <3>3
  <2>4. \A id \in StrategyIds : /\ Running(id) = 0 /\ Returning(id) = 0
                                /\ Running(id)' = 0 /\ Returning(id)' = 0
    BY <2>1, <2>3 DEF Running, Returning, If, StrategyIds
  <2> QED
    BY <1>3, <1>7, <2>1, <2>3, <2>4
<1>8. ASSUME Quiet PROVE WithinAfter(lim)
  <2>1. Idle' = Idle /\ taker' = taker /\ AbstractOrders' = AbstractOrders
    BY <1>8, QuietKeepsBook, BookSame
  <2>2. toExchange' = toExchange /\ xpc # "replace" /\ xpc' # "replace"
    BY <1>8 DEF Quiet, PublishFill, FillsPublished, Prune, PublishMakerFill, MakersPublished,
       NotDue, PublishTop, NotifyTop, TopUnmoved, NextTurn, Primed, AfterTick
  <2>3. \A id \in StrategyIds : tally'[id].executed = tally[id].executed
    <3>1. CASE PublishFill \/ PublishMakerFill
      BY <3>1, PublishedIsDue
    <3>2. CASE ~(PublishFill \/ PublishMakerFill)
      <4>1. tally' = tally
        BY <1>8, <3>2 DEF Quiet, FillsPublished, Prune, MakersPublished,
           NotDue, PublishTop, NotifyTop, TopUnmoved, NextTurn, Primed
      <4> QED
        BY <4>1
    <3> QED
      BY <3>1, <3>2
  <2>4. \A id : Running(id)' = Running(id) /\ Returning(id)' = 0 /\ Returning(id) = 0
    BY <2>1, <2>2 DEF Running, Returning, If
  <2> QED
    BY <1>1, <1>3, <1>8, <2>1, <2>2, <2>3, <2>4
<1> QED
  BY <1>4, <1>5, <1>6, <1>7, <1>8, LoopSteps

\* A step elsewhere that sends nothing commits to nothing.
LEMMA StillWithin ==
  ASSUME BookStructure, LoopTyped, ControlHolds,
         UNCHANGED <<bookVars, xpc, cmd, tally, toExchange>>,
         NEW lim \in [StrategyIds -> Nat], Within(lim)
  PROVE  WithinAfter(lim)
<1>1. Idle' = Idle /\ taker' = taker /\ AbstractOrders' = AbstractOrders
  BY BookSame
<1>2. \A id : Committed(id)' = Committed(id)
  BY <1>1 DEF Committed, Running, Returning, Asked, Asks
<1>3. \A id \in StrategyIds : Committed(id) \in Nat
  BY CommittedType
<1>4. \A id \in StrategyIds : Committed(id)' = Committed(id) - 0
  BY <1>2, <1>3
<1> QED
  BY <1>1, <1>4, NoMoreCommitted

\* One that sends a command commits to what it asks for, or to less when the
\* full queue loses another.
LEMMA SentWithin ==
  ASSUME BookStructure, LoopTyped, ControlHolds, Outside,
         NEW lim \in [StrategyIds -> Nat], Within(lim),
         NEW more \in [StrategyIds -> Nat], NEW c \in Command,
         toExchange' = Delivered(toExchange, c),
         \A id \in StrategyIds : more[id] = lim[id] + If(c.id = id, c.qty)
  PROVE  WithinAfter(more)
<1>1. /\ toExchange \in Seq(Command) /\ Len(toExchange) <= Capacity /\ c.qty \in Nat
      /\ toExchange' \in Seq(Command)
  <2>1. c.qty \in Nat
    BY MaxQtyAssumption DEF Command
  <2> QED
    BY <2>1 DEF Outside, LoopTyped
<1>2. UNCHANGED bookVars /\ UNCHANGED <<xpc, cmd, tally>>
  BY DEF Outside, matchVars
<1>3. Idle' = Idle /\ taker' = taker /\ AbstractOrders' = AbstractOrders
  BY <1>2, BookSame
<1>4. ASSUME NEW id \in StrategyIds
      PROVE  /\ Committed(id)' - Committed(id) <= more[id] - lim[id]
             /\ Committed(id)' \in Nat /\ Committed(id) \in Nat
  <2> DEFINE e == tally[id].executed
             u == Running(id)
             v == Returning(id)
             w == Asked(id, toExchange)
             z == Asked(id, toExchange')
  <2>1. e \in Nat /\ u \in Nat /\ v \in Nat /\ w \in Nat
    BY CommittedType
  <2>2. z \in Nat
    BY <1>1, CommandQtys, AsksType
  <2>3. z - w <= more[id] - lim[id]
    <3> DEFINE a == If(c.id = id, c.qty)
    <3>1. z <= w + a /\ more[id] = lim[id] + a /\ a \in Nat
      <4>1. /\ Asked(id, Delivered(toExchange, c)) = Asked(id, toExchange) - LostOf(id, toExchange) + a
            /\ LostOf(id, toExchange) \in Nat /\ a \in Nat
        BY <1>1, CommandQtys, AskedOfDelivered
      <4>2. z = w - LostOf(id, toExchange) + a
        BY <4>1
      <4>3. more[id] = lim[id] + a
        OBVIOUS
      <4> HIDE DEF a, w, z
      <4> QED
        BY <2>1, <2>2, <4>1, <4>2, <4>3
    <3> HIDE DEF a, w, z
    <3> QED
      BY <2>1, <2>2, <3>1
  <2>4. Running(id)' = u /\ Returning(id)' = v /\ Asked(id, toExchange)' = z /\ tally'[id].executed = e
    BY <1>2, <1>3 DEF Running, Returning, Asked, Asks
  <2>5. Committed(id) = e + u + v + w /\ Committed(id)' = e + u + v + z
    BY <2>4 DEF Committed
  <2> HIDE DEF e, u, v, w, z
  <2> QED
    BY <2>1, <2>2, <2>3, <2>5
<1>5. ASSUME NEW id \in StrategyIds PROVE Committed(id)' <= more[id]
  <2>1. Committed(id) <= lim[id]
    BY DEF Within
  <2> QED
    BY <1>4, <2>1
<1>6. ASSUME NEW o \in AbstractOrders', o.id \in StrategyIds
      PROVE  Committed(o.id)' + o.left <= more[o.id]
  <2>1. o.left \in Nat
    BY <1>3, OrderTyped, MaxQtyAssumption
  <2>2. Committed(o.id) + o.left <= lim[o.id]
    BY <1>3, <1>6 DEF Within
  <2> QED
    BY <1>4, <1>6, <2>1, <2>2
<1> QED
  BY <1>5, <1>6 DEF WithinAfter

----------------------------------------------------------------------------
(* Where it starts *)

\* Only the book executes.
LEMMA OnlyTheBookExecutes ==
  ASSUME BookStructure, LoopTyped, ControlHolds, Turn, ~BookStep, NEW id \in StrategyIds
  PROVE  tally'[id].executed = tally[id].executed
<1>1. CASE PublishFill \/ PublishMakerFill
  BY <1>1, PublishedIsDue
<1>2. CASE ReceiveOrder \/ Replace \/ StartRound \/ PostAsk \/ Churn \/ Cross \/ Outside
  BY <1>2 DEF ReceiveOrder, Replace, StartRound, PostAsk, Churn, Cross, Outside
<1>3. CASE Quiet /\ ~(PublishFill \/ PublishMakerFill)
  BY <1>3 DEF Quiet, FillsPublished, Prune, MakersPublished, NotDue, PublishTop, NotifyTop,
     TopUnmoved, NextTurn, Primed
<1> QED
  BY <1>1, <1>2, <1>3, Steps

\* A maker is cleared by a fill that it executes.
LEMMA ClearedKept ==
  ASSUME BookStructure, LoopTyped, ControlHolds, ClearedHolds, Turn
  PROVE  ClearedHolds'
<1>1. \A id \in StrategyIds : tally[id].executed \in Nat
  <2>1. \A id \in StrategyIds : tally[id] \in Tally
    BY DEF LoopTyped
  <2> QED
    BY <2>1 DEF Tally
<1>2. CASE BookStep /\ FillFront
  <2>1. PICK f \in Fill : /\ cleared' \subseteq cleared \cup {f.maker}
                          /\ Last(fills') = f /\ Len(fills') = Len(fills) + 1
    BY <1>2, FillEffects
  <2>2. CountFill(f)
    <3>1. Len(fills) \in Nat
      BY LenProperties DEF BookStructure, BookTypeOK
    <3> QED
      BY <1>2, <2>1, <3>1 DEF BookStep
  <2>3. f.qty \in Nat \ {0}
    BY MaxQtyAssumption DEF Fill
  <2> SUFFICES ASSUME NEW id \in cleared', id \in StrategyIds PROVE tally'[id].executed > 0
    BY DEF ClearedHolds
  <2>4. tally'[id].executed = tally[id].executed + If(f.taker = id, f.qty) + If(f.maker = id, f.qty)
    BY <2>2, CountTyped
  <2>5. If(f.taker = id, f.qty) \in Nat /\ If(f.maker = id, f.qty) \in Nat
    BY <2>3 DEF If
  <2>6. CASE id \in cleared
    <3>1. tally[id].executed > 0
      BY <2>6 DEF ClearedHolds
    <3> QED
      BY <1>1, <2>4, <2>5, <3>1
  <2>7. CASE id = f.maker
    <3>1. If(f.maker = id, f.qty) = f.qty
      BY <2>7 DEF If
    <3> QED
      BY <1>1, <2>3, <2>4, <2>5, <3>1
  <2> QED
    BY <2>1, <2>6, <2>7
<1>3. CASE BookStep /\ ~FillFront
  <2>1. cleared' \in {cleared, {}}
    BY <1>3 DEF BookStep, SubmitStep, MatchStep, ReturnStep, EnterLevel, LeaveLevel,
       ReturnFilled, RejectRemainder, RestRemainder, Return
  <2>2. tally' = tally
    <3>1. fills' = fills /\ Len(fills) \in Nat
      BY <1>3, OtherEffects, LenProperties DEF BookStep, BookStructure, BookTypeOK
    <3> QED
      BY <1>3, <3>1 DEF BookStep
  <2> QED
    BY <2>1, <2>2 DEF ClearedHolds
<1>4. CASE ~BookStep
  <2>1. cleared' = cleared
    <3>1. CASE SubmitCall
      BY <3>1 DEF SubmitCall, Submit
    <3>2. CASE CancelCall
      BY <3>2 DEF CancelCall, Cancel, CancelResting, CancelUnknown, call
    <3>3. CASE UNCHANGED bookVars
      BY <3>3 DEF bookVars, call
    <3> QED
      BY <1>4, <3>1, <3>2, <3>3, Steps, ReceiveOrderCalls, RoundSubmits, ChurnCalls, QuietKeepsBook
  <2> QED
    BY <1>4, <2>1, OnlyTheBookExecutes DEF ClearedHolds
<1> QED
  BY <1>2, <1>3, <1>4

\* A sample's share of what its queue asks for, and another's of the same id.
LEMMA AskedOfMembers ==
  ASSUME NEW S, \A x \in S : x.qty \in Nat, NEW q \in Seq(S), NEW i \in DOMAIN q
  PROVE  \E n \in Nat :
           /\ Asked(q[i].id, q) = q[i].qty + n
           /\ \A j \in DOMAIN q : j # i /\ q[j].id = q[i].id => q[j].qty <= n
<1> DEFINE id == q[i].id
           v == Asks(id, q)
           D == DOMAIN v
           n == SumFunctionOnSet(v, D \ {i})
<1>1. /\ v \in Seq(Int) /\ Len(v) = Len(q) /\ Len(q) \in Nat
      /\ \A k \in 1..Len(q) : v[k] = If(q[k].id = id, q[k].qty)
  BY AsksType
<1>2. D = DOMAIN q /\ DOMAIN q = 1..Len(q)
  BY <1>1, LenProperties
<1>3. \A k \in D : q[k].qty \in Nat
  BY <1>2, ElementOfSeq
<1>4. \A k \in D : v[k] \in Nat /\ (q[k].id = id => v[k] = q[k].qty)
  BY <1>1, <1>2, <1>3 DEF If
<1>5. v[i] = q[i].qty /\ i \in D
  BY <1>2, <1>4
<1>6. SumFunction(v) = SumFunctionOnSet(v, D) /\ IsFiniteSet(D)
  BY <1>1, SequenceSum
<1> HIDE DEF v, D
<1>7. SumFunctionOnSet(v, D) = v[i] + n
  BY <1>4, <1>5, <1>6, SumRemove
<1>8. IsFiniteSet(D \ {i})
  BY <1>6, FS_Subset
<1>9. n \in Nat
  BY <1>4, <1>8, SumNatural
<1>10. ASSUME NEW j \in D, j # i, q[j].id = id PROVE q[j].qty <= n
  <2> DEFINE R == D \ {i}
             m == SumFunctionOnSet(v, R \ {j})
  <2>1. j \in R /\ IsFiniteSet(R) /\ \A k \in R : v[k] \in Nat
    BY <1>4, <1>8, <1>10
  <2> HIDE DEF R
  <2>2. SumFunctionOnSet(v, R) = v[j] + m
    BY <2>1, SumRemove
  <2>3. IsFiniteSet(R \ {j})
    BY <2>1, FS_Subset
  <2>4. m \in Nat
    BY <2>1, <2>3, SumNatural
  <2>5. v[j] = q[j].qty /\ v[j] \in Nat
    BY <1>4, <1>10
  <2>6. n = v[j] + m
    BY <2>2 DEF R
  <2> HIDE DEF n, m
  <2> QED
    BY <2>4, <2>5, <2>6
<1>11. Asked(id, q) = q[i].qty + n
  BY <1>5, <1>6, <1>7 DEF Asked, v
<1> HIDE DEF n
<1> QED
  BY <1>2, <1>9, <1>10, <1>11

\* The exchange starts with an empty book, and committed to nothing.
LEMMA InitHolds ==
  ASSUME BusInit, ExchangeInit
  PROVE  /\ BookStructure /\ LoopTyped /\ ControlHolds /\ LiveHolds /\ PrimingHolds /\ TopHolds
         /\ ReportsHold /\ ClearedHolds
         /\ AbstractOrders = {} /\ \A id \in StrategyIds : Committed(id) = 0
<1> USE DEF BusInit, ExchangeInit
<1>1. BookStructure
  BY InitStructure
<1>2. /\ Idle /\ fills = <<>> /\ Len(fills) = 0 /\ DOMAIN fills = {}
      /\ \A id \in OrderIds : ~IsResting(id)
  <2>1. Idle /\ fills = <<>> /\ \A id \in OrderIds : ~IsResting(id)
    BY DEF BookInit, Idle, IsResting
  <2> QED
    BY <2>1, EmptySeq
<1>3. AbstractOrders = {}
  BY InitImplements DEF PTP!Init
<1>4. LoopTyped
  <2>1. tally \in [StrategyIds -> Tally]
    BY DEF Tally
  <2>2. \A S : <<>> \in Seq(S) /\ Len(<<>>) = 0
    BY EmptySeq
  <2> QED
    BY <1>2, <2>1, <2>2, CapacityAssumption, RoundsAssumption DEF LoopTyped, Quoted
<1>5. ControlHolds /\ LiveHolds /\ PrimingHolds /\ TopHolds
  <2>1. \A id \in SynIds \cup StrategyIds : ~IsResting(id)
    BY <1>2, SynAssumption DEF StrategyIds
  <2> QED
    BY <1>2, <2>1, RoundsAssumption DEF ControlHolds, LiveHolds, PrimingHolds, TopHolds, InRound
<1>6. ReportsHold /\ ClearedHolds
  BY DEF ReportsHold, Owed, InRound, BookInit, ClearedHolds
<1>7. \A id \in StrategyIds : Committed(id) = 0
  <2>1. \A id \in StrategyIds : Asked(id, toExchange) = 0
    <3>1. \A id : Asks(id, <<>>) = <<>>
      BY DEF Asks
    <3> QED
      BY <3>1, SumOfEmpty DEF Asked
  <2>2. \A id \in StrategyIds : Running(id) = 0 /\ Returning(id) = 0
    BY <1>2 DEF Running, Returning, If
  <2> QED
    BY <2>1, <2>2 DEF Committed
<1> QED
  BY <1>1, <1>3, <1>4, <1>5, <1>6, <1>7
=============================================================================
