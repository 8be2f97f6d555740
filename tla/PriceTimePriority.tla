------------------------- MODULE PriceTimePriority -------------------------
(***************************************************************************)
(* What a limit order book promises, without maps, levels, queues, index   *)
(* or cached sizes: a set of resting orders, which of them came before     *)
(* which, and the one order that is being matched.  OrderBook implements   *)
(* it.                                                                     *)
(***************************************************************************)
EXTENDS Integers

CONSTANTS OrderIds, Prices, MaxQty, None

VARIABLES
  orders,    \* set of [id, side, px, left]: what rests
  before,    \* set of <<id1, id2>>: both rest at one price, id1 came first
  incoming,  \* the order being matched: [id, side, limit, left], or None
  print      \* the last trade of the order being matched: [maker, px, qty], or None

vars == <<orders, before, incoming, print>>

Sides == {"buy", "sell"}

Init == orders = {} /\ before = {} /\ incoming = None /\ print = None

\* Would the incoming order trade with this resting one?
Matches(o) ==
  /\ o.side # incoming.side
  /\ incoming.limit # None =>
       IF o.side = "sell" THEN o.px <= incoming.limit ELSE o.px >= incoming.limit

\* The right to trade first: a better price, or the same price and earlier.
Precedes(o1, o2) ==
  /\ o1.side = o2.side
  /\ \/ o1.side = "buy"  /\ o1.px > o2.px
     \/ o1.side = "sell" /\ o1.px < o2.px
     \/ <<o1.id, o2.id>> \in before

Without(ids) == {pair \in before : pair[1] \notin ids /\ pair[2] \notin ids}

Arrive ==
  /\ incoming = None
  /\ \E id \in OrderIds, side \in Sides, limit \in Prices \cup {None}, qty \in 0..MaxQty :
       /\ \A o \in orders : o.id # id
       /\ incoming' = [id |-> id, side |-> side, limit |-> limit, left |-> qty]
  /\ print' = None
  /\ UNCHANGED <<orders, before>>

\* A trade takes the whole of one of the two orders, at the maker's price,
\* with the maker nobody precedes.
Trade ==
  /\ incoming # None
  /\ incoming.left > 0
  /\ \E m \in orders :
       /\ Matches(m)
       /\ \A o \in orders : ~Precedes(o, m)
       /\ LET qty == IF incoming.left < m.left THEN incoming.left ELSE m.left
          IN  /\ incoming' = [incoming EXCEPT !.left = @ - qty]
              /\ print' = [maker |-> m.id, px |-> m.px, qty |-> qty]
              /\ IF qty = m.left
                 THEN orders' = orders \ {m} /\ before' = Without({m.id})
                 ELSE /\ orders' = (orders \ {m}) \cup {[m EXCEPT !.left = @ - qty]}
                      /\ UNCHANGED before

\* With nothing left, or a market order with nobody to trade with.
Leave ==
  /\ incoming # None
  /\ \/ incoming.left = 0
     \/ incoming.limit = None /\ \A o \in orders : ~Matches(o)
  /\ incoming' = None
  /\ UNCHANGED <<orders, before, print>>

\* What is left of a limit order that trades with nobody rests, behind
\* everyone at its price.
Rest ==
  /\ incoming # None
  /\ incoming.left > 0
  /\ incoming.limit # None
  /\ \A o \in orders : ~Matches(o)
  /\ orders' = orders \cup {[id |-> incoming.id, side |-> incoming.side,
                             px |-> incoming.limit, left |-> incoming.left]}
  /\ before' = before \cup
       {<<o.id, incoming.id>> :
          o \in {r \in orders : r.side = incoming.side /\ r.px = incoming.limit}}
  /\ incoming' = None
  /\ UNCHANGED print

Withdraw ==
  /\ incoming = None
  /\ \E o \in orders : orders' = orders \ {o} /\ before' = Without({o.id})
  /\ UNCHANGED <<incoming, print>>

Settle == Trade \/ Leave \/ Rest

Next == Arrive \/ Settle \/ Withdraw

Spec == Init /\ [][Next]_vars /\ WF_vars(Settle)
=============================================================================
