--------------------------- MODULE OrderBookProps ---------------------------
(***************************************************************************)
(* What must be true of the order book, and the mapping by which it        *)
(* implements PriceTimePriority.                                           *)
(***************************************************************************)
EXTENDS OrderBook

QueueAt(l) == queue[l.side][l.px]

Ids(q) == {q[i].id : i \in DOMAIN q}

IdsAt(l) == Ids(QueueAt(l))

NoRepeats(q) == \A i, j \in DOMAIN q : q[i].id = q[j].id => i = j

Lefts(q) == [i \in DOMAIN q |-> q[i].left]

SizeOf(q) == SumFunction(Lefts(q))

\* The level the running submit is consuming.
Consuming(l) == phase = "level" /\ l = [side |-> Opp, px |-> level]

\* Every variable has its type: what the fields of Book and the arguments of
\* its calls can hold.  (That the unsigned total_size never wraps follows from
\* CachedSizeExact.)
BookTypeOK ==
  /\ keys \in [Side -> SUBSET Prices]
  /\ queue \in [Side -> [Prices -> Seq(Resting)]]
  /\ total \in [Side -> [Prices -> Int]]
  /\ locate \in [OrderIds -> SUBSET Location]
  /\ phase \in {"idle", "cross", "level"}
  /\ IF Idle THEN taker = None ELSE taker \in Taker
  /\ IF phase = "level" THEN level \in Prices ELSE level = None
  /\ cleared \subseteq OrderIds
  /\ fills \in Seq(Fill)
  /\ outcome \in Outcome

\* The two sides never touch: no bid level is at or above an ask level, in any
\* book a submit goes through, half-consumed levels included.
BookUncrossed == \A b \in keys["buy"], a \in keys["sell"] : b < a

\* The index and the queues agree: an order is where `locate` says and nowhere
\* else, in one place of one queue, except for the makers just popped from the
\* level being consumed, whose entries outlive them until the level is left.
LocateExact ==
  /\ \A id \in OrderIds, l \in Location :
       l \in locate[id] <=> id \in IdsAt(l) \/ (Consuming(l) /\ id \in cleared)
  /\ \A id \in OrderIds : \A l1, l2 \in locate[id] : l1 = l2
  /\ \A l \in Location : NoRepeats(QueueAt(l))
  /\ phase = "level" => \A id \in cleared : id \notin IdsAt([side |-> Opp, px |-> level])

\* A level exists exactly while somebody rests in it (the one being consumed
\* may be empty), so the best price of a side always has an order behind it.
NoEmptyLevels ==
  \A l \in Location : ~Consuming(l) => (l.px \in keys[l.side] <=> QueueAt(l) # <<>>)

\* The cached size of a level is the sum of what its orders have left, in
\* every book a submit goes through.
CachedSizeExact == \A l \in Location : total[l.side][l.px] = SizeOf(QueueAt(l))

\* The fills of the running submit account for its quantity to the unit: each
\* takes its quantity off the remainder the one before left, down to the
\* taker's own.  None is outside the limit, and prices only get worse.
FillsAccount ==
  ~Idle =>
    /\ taker.left = IF fills = <<>> THEN taker.qty ELSE fills[Len(fills)].left
    /\ \A i \in DOMAIN fills :
         /\ fills[i].taker = taker.id
         /\ Acceptable(fills[i].px)
         /\ fills[i].left + fills[i].qty = IF i = 1 THEN taker.qty ELSE fills[i - 1].left
         /\ i > 1 => ~Better(Opp, fills[i].px, fills[i - 1].px)

\* The orders of a queue in front of its i-th.
InFront(q, i) == SubSeq(q, 1, i - 1)

\* The orders in front of an order at its own price, oldest first.
AheadIn(qs, id) ==
  LET at == {l \in Location : id \in Ids(qs[l.side][l.px])}
      q  == LET l == CHOOSE l \in at : TRUE IN qs[l.side][l.px]
  IN  IF at = {} THEN <<>> ELSE InFront(q, CHOOSE i \in Positions(q, id) : TRUE)

Ahead(id) == AheadIn(queue, id)

IdsAhead(id) == Ids(Ahead(id))

PositionTold(id) ==
  ~Idle /\ taker.id = id /\ outcome'.kind = "rested" =>
    outcome'.ahead = SizeOf(Ahead(id))'

PositionClears(id) ==
  IsResting(id) /\ IsResting(id)' =>
    /\ IdsAhead(id)' \subseteq IdsAhead(id)
    /\ SizeOf(Ahead(id))' <= SizeOf(Ahead(id))

\* A resting order's queue position only clears (order_book.rs:13-14): submit
\* returns what rests ahead of it, and while it rests that never grows and
\* nobody new gets in front of it.
QueuePosition == [][\A id \in OrderIds : PositionTold(id) /\ PositionClears(id)]_bookVars

\* What a running submit relies on: the level being consumed is the best one
\* and acceptable, and the taker is not in the book.
LevelInProgress ==
  /\ phase = "level" => level \in BestOf(Opp) /\ Acceptable(level)
  /\ ~Idle => ~IsResting(taker.id) /\ outcome.kind = "none"

\* What is left of the other side is no better than what the taker has had.
NothingBetter ==
  ~Idle /\ fills # <<>> => \A p \in keys[Opp] : ~Better(Opp, p, fills[Len(fills)].px)

\* What an inductive proof of the above needs to know besides.
SubmitInProgress == LevelInProgress /\ NothingBetter

\* What holds of the book whatever the caller's vector held before the call.
BookStructure ==
  /\ BookTypeOK
  /\ LocateExact
  /\ NoEmptyLevels
  /\ BookUncrossed
  /\ CachedSizeExact
  /\ LevelInProgress

\* The inductive invariant of the book.
BookInvariant == BookStructure /\ FillsAccount /\ NothingBetter

\* Every submit returns: the loops end whatever book they meet.
SubmitReturns == ~Idle ~> Idle

----------------------------------------------------------------------------
(* The abstract book this one implements. *)

OrderAt(l, q, i) == [id |-> q[i].id, side |-> l.side, px |-> l.px, left |-> q[i].left]

\* The orders a queue at l holds, and which of them came before which.
OrdersIn(l, q) == {OrderAt(l, q, i) : i \in DOMAIN q}

PairsIn(q) ==
  {<<q[ij[1]].id, q[ij[2]].id>> : ij \in {xy \in (DOMAIN q) \X (DOMAIN q) : xy[1] < xy[2]}}

AbstractOrders == UNION {OrdersIn(l, QueueAt(l)) : l \in Location}

AbstractBefore == UNION {PairsIn(QueueAt(l)) : l \in Location}

AbstractIncoming ==
  IF Idle THEN None
  ELSE [id |-> taker.id, side |-> taker.side, limit |-> taker.limit, left |-> taker.left]

AbstractPrint ==
  IF fills = <<>> THEN None
  ELSE LET f == Last(fills) IN [maker |-> f.maker, px |-> f.px, qty |-> f.qty]

PTP == INSTANCE PriceTimePriority WITH
         orders <- AbstractOrders, before <- AbstractBefore,
         incoming <- AbstractIncoming, print <- AbstractPrint

\* The book is a price-time priority book: every fill takes the order nobody
\* precedes, the remainder rests or leaves only when nothing matches, and a
\* matched order is eventually settled.
ImplementsPriceTimePriority == PTP!Spec
=============================================================================
