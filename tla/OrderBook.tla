----------------------------- MODULE OrderBook -----------------------------
(***************************************************************************)
(* The matching engine: src/src/order_book.rs.                             *)
(*                                                                         *)
(* Book::submit is broken into the steps of its two nested loops, so that  *)
(* every intermediate book is a state: entering a level, each fill of the  *)
(* maker at the front, leaving the level (where `locate` catches up with   *)
(* the queue), and the return.  Book::cancel is one step.                  *)
(*                                                                         *)
(* A BTreeMap side is its key set `keys` and, per price, the `queue` and   *)
(* the cached `total` of the PriceLevel.  A market order is a taker whose  *)
(* limit is None.  Timestamps and the is_synthetic flags are left out: a   *)
(* caller knows an order's owner from its id.                              *)
(***************************************************************************)
EXTENDS Integers, Sequences, FiniteSets, SequencesExt

CONSTANTS
  OrderIds,   \* ids of orders; an id may come back once its order is gone
  MinPrice, MaxPrice,   \* the range of price_ticks, an i64
  MaxQty,     \* largest quantity of an order, fixed-point units
  None        \* Option::None

Prices == MinPrice..MaxPrice

ASSUME PricesAssumption == MinPrice \in Int /\ MaxPrice \in Int
ASSUME MaxQtyAssumption == MaxQty \in Nat \ {0}
ASSUME NoneAssumption   == None \notin Prices

Side == {"buy", "sell"}

Opposite(s) == IF s = "buy" THEN "sell" ELSE "buy"

\* No order being matched is mistaken for the absence of one.
ASSUME NoneIsNoOrder ==
  None \notin [id : OrderIds, side : Side, limit : Prices \cup {None}, left : 0..MaxQty]

Resting == [id : OrderIds, left : 1..MaxQty]

Taker == [id : OrderIds, side : Side, limit : Prices \cup {None},
          qty : 0..MaxQty, left : 0..MaxQty]

Fill == [taker : OrderIds, maker : OrderIds, px : Prices,
         qty : 1..MaxQty, left : 0..MaxQty]

Location == [side : Side, px : Prices]

Outcome ==
  [kind : {"none", "filled", "rested", "no_liquidity", "cancelled", "cancel_rejected"},
   ahead : Int]

VARIABLES
  keys,      \* [Side -> SUBSET Prices]: the prices that have a level
  queue,     \* [Side -> [Prices -> Seq(Resting)]]: PriceLevel.queue
  total,     \* [Side -> [Prices -> Int]]: PriceLevel.total_size
  locate,    \* [OrderIds -> SUBSET Location]: {} for an id with no entry, else one location
  phase,     \* "idle", or where the running submit is: "cross" | "level"
  taker,     \* the arguments of the running submit and its `remaining`
  level,     \* best_px of the level being consumed
  cleared,   \* cleared_makers of that level
  fills,     \* the caller's fills vector
  outcome    \* what the last call returned

book == <<keys, queue, total, locate>>
call == <<phase, taker, level, cleared>>
bookVars == <<book, call, fills, outcome>>

Idle == phase = "idle"

Returned(kind, ahead) == outcome' = [kind |-> kind, ahead |-> ahead]

----------------------------------------------------------------------------
Better(s, p, q) == IF s = "buy" THEN p > q ELSE p < q

\* Variant: the last key of the map on both sides.
LastKey(s) == {p \in keys[s] : \A q \in keys[s] : q <= p}

\* The best price of a side: a singleton, or empty when the side is.
BestOf(s) == {p \in keys[s] : \A q \in keys[s] : ~Better(s, q, p)}

\* Variant: a price equal to the limit is refused.
AcceptableStrictly(p) ==
  taker.limit # None =>
    IF taker.side = "buy" THEN p < taker.limit ELSE p > taker.limit

Acceptable(p) ==
  taker.limit # None =>
    IF taker.side = "buy" THEN p <= taker.limit ELSE p >= taker.limit

Opp == Opposite(taker.side)

IsResting(id) == locate[id] # {}

\* Variant: an empty level stays in the map.
KeptWhenEmpty(ks, p, q) == ks

\* remove_level, called when the level's queue is left empty.
WithoutEmpty(ks, p, q) == IF q = <<>> THEN ks \ {p} ELSE ks

BookInit ==
  /\ keys   = [s \in Side |-> {}]
  /\ queue  = [s \in Side |-> [p \in Prices |-> <<>>]]
  /\ total  = [s \in Side |-> [p \in Prices |-> 0]]
  /\ locate = [id \in OrderIds |-> {}]
  /\ phase = "idle" /\ taker = None /\ level = None /\ cleared = {}
  /\ fills = <<>>
  /\ outcome = [kind |-> "none", ahead |-> 0]

----------------------------------------------------------------------------
(* Book::submit *)

\* The call.  Callers give every order a fresh id, so the id is not resting;
\* `sink` is the vector they pass in: submit pushes after what it holds.
Submit(id, side, limit, qty, sink) ==
  /\ Idle
  /\ ~IsResting(id)
  /\ phase' = "cross"
  /\ taker' = [id |-> id, side |-> side, limit |-> limit, qty |-> qty, left |-> qty]
  /\ fills' = sink
  /\ outcome' = [kind |-> "none", ahead |-> 0]
  /\ UNCHANGED <<book, level, cleared>>

\* The outer loop takes the best opposite level while its price is acceptable.
EnterLevel ==
  /\ phase = "cross"
  /\ taker.left > 0
  /\ \E p \in BestOf(Opp) :
       /\ Acceptable(p)
       /\ level' = p
  /\ phase' = "level"
  /\ cleared' = {}
  /\ UNCHANGED <<book, taker, fills, outcome>>

\* Variant: the fill carries the remainder before it.
FillOfEarlier(maker, qty) ==
  [taker |-> taker.id, maker |-> maker.id, px |-> level, qty |-> qty, left |-> taker.left]

FillOf(maker, qty) ==
  [taker |-> taker.id, maker |-> maker.id, px |-> level, qty |-> qty,
   left |-> taker.left - qty]

\* Variant: an order filled in full is not popped.
NeverPopped(q, qty) == [q EXCEPT ![1] = [id |-> Head(q).id, left |-> Head(q).left - qty]]

\* Variant: an order filled in part goes to the back.
SentToBack(q, qty) ==
  IF qty = Head(q).left THEN Tail(q)
  ELSE Append(Tail(q), [id |-> Head(q).id, left |-> Head(q).left - qty])

\* The queue once the order at its front has been filled by qty.
AfterFill(q, qty) ==
  IF qty = Head(q).left THEN Tail(q)
  ELSE [q EXCEPT ![1] = [id |-> Head(q).id, left |-> Head(q).left - qty]]

\* One turn of the inner loop: fill the maker at the front of the queue and
\* pop it when nothing of it is left.
FillFront ==
  /\ phase = "level"
  /\ taker.left > 0
  /\ queue[Opp][level] # <<>>
  /\ LET maker == Head(queue[Opp][level])
         qty   == IF taker.left < maker.left THEN taker.left ELSE maker.left
     IN  /\ taker' = [taker EXCEPT !.left = @ - qty]
         /\ total' = [total EXCEPT ![Opp][level] = @ - qty]
         /\ fills' = Append(fills, FillOf(maker, qty))
         /\ queue' = [queue EXCEPT ![Opp][level] = AfterFill(@, qty)]
         /\ cleared' = cleared \cup (IF qty = maker.left THEN {maker.id} ELSE {})
  /\ UNCHANGED <<keys, locate, phase, level, outcome>>

\* Variant: the makers cleared stay in the index.
NothingForgotten == locate

\* `locate` without the makers this level's fills cleared.
Forgotten == [id \in OrderIds |-> IF id \in cleared THEN {} ELSE locate[id]]

\* After the inner loop: forget the makers it cleared, and drop an empty level.
LeaveLevel ==
  /\ phase = "level"
  /\ taker.left = 0 \/ queue[Opp][level] = <<>>
  /\ locate' = Forgotten
  /\ keys' = [keys EXCEPT ![Opp] = WithoutEmpty(@, level, queue[Opp][level])]
  /\ total' = [total EXCEPT ![Opp][level] = IF queue[Opp][level] = <<>> THEN 0 ELSE @]
  /\ phase' = "cross" /\ level' = None /\ cleared' = {}
  /\ UNCHANGED <<queue, taker, fills, outcome>>

Return == phase' = "idle" /\ taker' = None /\ UNCHANGED <<level, cleared, fills>>

\* Nothing (more) to hit: the conditions that break the outer loop.
NothingToHit == \A p \in BestOf(Opp) : ~Acceptable(p)

ReturnFilled ==
  /\ phase = "cross"
  /\ taker.left = 0
  /\ Returned("filled", 0)
  /\ Return
  /\ UNCHANGED book

RejectRemainder ==
  /\ phase = "cross"
  /\ taker.left > 0
  /\ NothingToHit
  /\ taker.limit = None
  /\ Returned("no_liquidity", 0)
  /\ Return
  /\ UNCHANGED book

\* Variant: the order rests with the quantity it came with.
RestedWhole == [id |-> taker.id, left |-> taker.qty]

Rested == [id |-> taker.id, left |-> taker.left]

\* The remainder of a limit order joins the back of its own side's level,
\* which level_mut creates when it is not there.
RestRemainder ==
  /\ phase = "cross"
  /\ taker.left > 0
  /\ NothingToHit
  /\ taker.limit # None
  /\ LET s == taker.side
         p == taker.limit
     IN  /\ keys'  = [keys EXCEPT ![s] = @ \cup {p}]
         /\ queue' = [queue EXCEPT ![s][p] = Append(@, Rested)]
         /\ total' = [total EXCEPT ![s][p] = @ + taker.left]
         /\ locate' = [locate EXCEPT ![taker.id] = {[side |-> s, px |-> p]}]
         /\ Returned("rested", total[s][p])
  /\ Return

MatchStep == EnterLevel \/ FillFront \/ LeaveLevel
ReturnStep == ReturnFilled \/ RejectRemainder \/ RestRemainder
SubmitStep == MatchStep \/ ReturnStep

----------------------------------------------------------------------------
(* Book::cancel, which takes no fills vector: what becomes of `fills` is the
   caller's business. *)

Positions(q, id) == {i \in DOMAIN q : q[i].id = id}

\* The order the index points at is found in its level's queue (LocateExact),
\* removed, and the level dropped when that leaves it empty.
CancelResting(id) ==
  /\ Idle
  /\ \E at \in locate[id] : \E i \in Positions(queue[at.side][at.px], id) :
       LET q    == queue[at.side][at.px]
           rest == RemoveAt(q, i)
       IN  /\ queue' = [queue EXCEPT ![at.side][at.px] = rest]
           /\ total' = [total EXCEPT ![at.side][at.px] =
                          IF rest = <<>> THEN 0 ELSE @ - q[i].left]
           /\ keys' = [keys EXCEPT ![at.side] = WithoutEmpty(@, at.px, rest)]
  /\ locate' = [locate EXCEPT ![id] = {}]
  /\ Returned("cancelled", 0)
  /\ UNCHANGED call

CancelUnknown(id) ==
  /\ Idle
  /\ ~IsResting(id)
  /\ Returned("cancel_rejected", 0)
  /\ UNCHANGED <<book, call>>

Cancel(id) == CancelResting(id) \/ CancelUnknown(id)

----------------------------------------------------------------------------
(* The book on its own: any caller, one call at a time. *)

Call ==
  \E id \in OrderIds :
    \/ \E side \in Side, limit \in Prices \cup {None}, qty \in 0..MaxQty :
         Submit(id, side, limit, qty, <<>>)
    \/ Cancel(id) /\ UNCHANGED fills

BookNext == Call \/ SubmitStep

\* A call, once made, runs to its return: the book has one thread.
BookFairness == WF_bookVars(SubmitStep)

BookSpec == BookInit /\ [][BookNext]_bookVars /\ BookFairness
=============================================================================
