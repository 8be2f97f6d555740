--------------------------- MODULE ExchangeProofs ---------------------------
(***************************************************************************)
(* Proofs about the exchange process under any client, for every set of    *)
(* ids, range of prices, quantity bound and queue capacity, any quotes and *)
(* any number of rounds.                                                   *)
(***************************************************************************)
EXTENDS ExchangeClient, ExchangeLemmas

----------------------------------------------------------------------------
(* The inductive invariant *)

\* No order is committed to more than was asked for under its id.
WithinOrdered == Within(ordered)

ExchangeInvariant ==
  /\ BookStructure
  /\ LoopTyped
  /\ ordered \in [StrategyIds -> Nat]
  /\ ControlHolds
  /\ LiveHolds
  /\ PrimingHolds
  /\ TopHolds
  /\ ReportsHold
  /\ WithinOrdered

\* The invariant says more of the types than the property does.
LEMMA TypedEnough == LoopTyped => TypeOK
<1>1. \A q \in Seq(Reported) : q \in Seq(ReportType)
  <2>1. Reported \subseteq ReportType
    BY DEF Reported
  <2> QED
    BY <2>1
<1>2. \A q \in Seq(Reported) : \A i \in DOMAIN q : q[i].status = 2 <=> q[i].left = 0
  <2>1. \A q \in Seq(Reported) : \A i \in DOMAIN q : q[i] \in Reported
    BY LenProperties, ElementOfSeq
  <2> QED
    BY <2>1 DEF Reported
<1> QED
  BY <1>1, <1>2 DEF LoopTyped, TypeOK

\* What the client sends is a command for the strategy's side of the ids.
LEMMA SentCommand ==
  ASSUME ClientSend
  PROVE  \E c \in Command : Issue(c)
<1>1. AnyPx \in Prices
  <2>1. MinPrice \in Prices
    BY PricesAssumption, ClientAssumption DEF Prices
  <2> QED
    BY <2>1 DEF AnyPx
<1>2. \A id \in StrategyIds, side \in Side, qty \in OrderQtys :
        \A c \in New(id, side, qty) : c \in Command /\ [c EXCEPT !.action = "modify"] \in Command
  BY <1>1, ClientAssumption DEF New, Command
<1>3. \A id \in StrategyIds : CancelOf(id) \in Command
  BY <1>1, MaxQtyAssumption DEF CancelOf, Command, Side
<1>4. \A id \in NextId : id \in StrategyIds
  BY DEF NextId
<1> QED
  BY <1>2, <1>3, <1>4 DEF ClientSend

\* A client's step leaves the exchange alone, but for its queue of commands.
LEMMA ClientIsOutside ==
  ASSUME LoopTyped, ClientSend
  PROVE  Outside
<1>1. PICK c \in Command : Issue(c)
  BY SentCommand
<1>2. toExchange' \in Seq(Command) /\ Len(toExchange') <= Capacity
  BY <1>1, DeliveredProperties DEF Issue, LoopTyped
<1> QED
  BY <1>2 DEF ClientSend, Outside, Taken, topVars

\* ... and so does a step in which nothing happens.
LEMMA StutterIsOutside ==
  ASSUME LoopTyped, UNCHANGED vars
  PROVE  Outside
BY DEF vars, exchangeVars, Outside, Taken, topVars, LoopTyped

\* Every step keeps each order within what was asked for under its id.
LEMMA WithinOrderedKept ==
  ASSUME ExchangeInvariant, [Next]_vars
  PROVE  ordered' \in [StrategyIds -> Nat] /\ WithinOrdered'
<1>1. /\ BookStructure /\ LoopTyped /\ ControlHolds /\ Within(ordered)
      /\ ordered \in [StrategyIds -> Nat]
  BY DEF ExchangeInvariant, WithinOrdered
<1>2. WithinAfter(ordered') => WithinOrdered'
  BY DEF WithinAfter, WithinOrdered, Within
<1>3. CASE ExchangeNext /\ ordered' = ordered
  <2>1. WithinAfter(ordered)
    BY <1>1, <1>3, WithinKept
  <2> QED
    BY <1>1, <1>2, <1>3, <2>1
<1>4. CASE ClientSend
  <2>1. PICK c \in Command : Issue(c)
    BY <1>4, SentCommand
  <2>2. /\ ordered' \in [StrategyIds -> Nat]
        /\ \A id \in StrategyIds : ordered'[id] = ordered[id] + If(c.id = id, c.qty)
    BY <1>1, <2>1, MaxQtyAssumption DEF Issue, Command, If
  <2>3. WithinAfter(ordered')
    BY <1>1, <1>4, <2>1, <2>2, ClientIsOutside, SentWithin DEF Issue
  <2> QED
    BY <1>2, <2>2, <2>3
<1>5. CASE UNCHANGED vars
  <2>1. UNCHANGED <<bookVars, xpc, cmd, tally, toExchange>> /\ ordered' = ordered
    BY <1>5 DEF vars, exchangeVars, matchVars, clientVars
  <2>2. WithinAfter(ordered)
    BY <1>1, <2>1, StillWithin
  <2> QED
    BY <1>1, <1>2, <2>1, <2>2
<1> QED
  BY <1>3, <1>4, <1>5 DEF Next, clientVars

----------------------------------------------------------------------------
(* The theorems *)

\* The invariant holds when the exchange starts.
LEMMA InitInvariant == Init => ExchangeInvariant
<1>1. ASSUME Init PROVE Within(ordered)
  <2>1. AbstractOrders = {} /\ \A id \in StrategyIds : Committed(id) = 0
    BY <1>1, InitHolds DEF Init
  <2> QED
    BY <1>1, <2>1 DEF Within, Init
<1> QED
  BY <1>1, InitHolds DEF Init, ExchangeInvariant, WithinOrdered

\* The invariant of the exchange process: the book keeps its structure under the
\* calls the loop makes, the loop knows whose fills it holds and how many of
\* them it has published, and no step of it breaks what the others rely on.
THEOREM ExchangeInvariantHolds == Spec => []ExchangeInvariant
<1>1. ExchangeInvariant /\ [Next]_vars => ExchangeInvariant'
  <2> SUFFICES ASSUME ExchangeInvariant, [Next]_vars
               PROVE  ExchangeInvariant'
    OBVIOUS
  <2>1. Turn
    BY ClientIsOutside, StutterIsOutside DEF ExchangeInvariant, Next, Turn
  <2> QED
    BY <2>1, StructureKept, LoopTypedKept, ControlKept, LiveKept, PrimingKept, TopKept,
       ReportsKept, WithinOrderedKept DEF ExchangeInvariant
<1> QED
  BY <1>1, InitInvariant, PTL DEF Spec

\* Whoever calls into the book, and however its calls follow one another, the
\* book stays uncrossed, its index and its cached sizes exact, and no level of
\* it empty: in the exchange too, not in the book on its own only.
THEOREM BookStaysWhole ==
  Spec => [](BookUncrossed /\ LocateExact /\ NoEmptyLevels /\ CachedSizeExact)
<1>1. ExchangeInvariant => BookUncrossed /\ LocateExact /\ NoEmptyLevels /\ CachedSizeExact
  BY DEF ExchangeInvariant, BookStructure
<1> QED
  BY <1>1, ExchangeInvariantHolds, PTL

\* The variables of the loop keep their types, no queue outgrows its capacity,
\* and a report's status says whether its order has a remainder.
THEOREM ProcessTypeCorrect == Spec => []TypeOK
<1>1. ExchangeInvariant => TypeOK
  BY TypedEnough DEF ExchangeInvariant
<1> QED
  BY <1>1, ExchangeInvariantHolds, PTL

\* Whatever synthetic order rests is in the participants' list, the one being
\* submitted included, and after a round nothing else is.
THEOREM LiveTracksBook == Spec => []LiveExact
<1>1. ExchangeInvariant => LiveExact
  BY DEF ExchangeInvariant, LoopTyped, LiveHolds, LiveExact, At
<1> QED
  BY <1>1, ExchangeInvariantHolds, PTL

\* When a turn of the loop ends, the market data last published is the top of
\* the book, however many ways it was moved.
THEOREM TopPublished == Spec => []TopIsCurrent
<1>1. ExchangeInvariant => TopIsCurrent
  BY DEF ExchangeInvariant, TopHolds, TopIsCurrent, At
<1> QED
  BY <1>1, ExchangeInvariantHolds, PTL

\* Every executed quantity is reported once, but for what an order made for
\* another order of the strategy.
THEOREM AllFillsReported == Spec => []ReportsComplete
<1>1. ExchangeInvariant => ReportsComplete
  <2> SUFFICES ASSUME ExchangeInvariant, NEW id \in StrategyIds
               PROVE  /\ tally[id].reported <= tally[id].executed - tally[id].selfMade
                      /\ At("orders") \/ At("top") =>
                           tally[id].reported = tally[id].executed - tally[id].selfMade
    BY DEF ReportsComplete
  <2>1. fills \in Seq(Fill) /\ sent \in Nat
    BY DEF ExchangeInvariant, BookStructure, BookTypeOK, LoopTyped
  <2>2. Owed(id) \in Nat /\ (At("orders") \/ At("top") => Owed(id) = 0)
    BY <2>1, UnsentType DEF Owed, At, InRound
  <2>3. tally[id].executed \in Nat /\ tally[id].selfMade \in Nat /\ tally[id].reported \in Nat
    <3>1. tally[id] \in Tally
      BY DEF ExchangeInvariant, LoopTyped
    <3> QED
      BY <3>1 DEF Tally
  <2>4. tally[id].executed = tally[id].selfMade + tally[id].reported + Owed(id)
    BY DEF ExchangeInvariant, ReportsHold
  <2> QED
    BY <2>2, <2>3, <2>4
<1> QED
  BY <1>1, ExchangeInvariantHolds, PTL

\* Nothing executes beyond what was ordered under its id, through cancels,
\* modifies that race their fills, and a queue that loses commands.
THEOREM NothingBeyondOrdered == Spec => []ExecutedWithinOrdered
<1>1. ExchangeInvariant => ExecutedWithinOrdered
  <2> SUFFICES ASSUME ExchangeInvariant, NEW id \in StrategyIds
               PROVE  tally[id].executed <= ordered[id]
    BY DEF ExecutedWithinOrdered
  <2>1. /\ tally[id].executed \in Nat /\ Running(id) \in Nat /\ Returning(id) \in Nat
        /\ Asked(id, toExchange) \in Nat /\ ordered[id] \in Nat
    BY CommittedType DEF ExchangeInvariant
  <2>2. Committed(id) <= ordered[id]
    BY DEF ExchangeInvariant, WithinOrdered, Within
  <2> QED
    BY <2>1, <2>2 DEF Committed
<1> QED
  BY <1>1, ExchangeInvariantHolds, PTL

=============================================================================
