----------------------------- MODULE MCPipeline -----------------------------
(* A few strategy orders against a market of two rounds. *)
EXTENDS Pipeline

\* The second quote's bid meets the first one's ask.
MCQuotes == {<<1, 2>>, <<2, 3>>}

Started(passive, waitset, n) ==
  [passive |-> passive, waitset |-> waitset, maxOrders |-> n, maxFills |-> 0, timeCap |-> FALSE]

Market(waitset, n)  == Started(FALSE, waitset, n)
AtTouch(waitset, n) == Started(TRUE, waitset, n)

\* Market orders to a strategy that spins; passive ones to one that blocks, with
\* an execution stage that stops early and a time cap.
BothStyles == {Market(FALSE, 2), [AtTouch(TRUE, 2) EXCEPT !.maxFills = 1, !.timeCap = TRUE]}

MarketOnly   == {Market(FALSE, 3)}
PassiveTwo   == {AtTouch(FALSE, 2)}
PassiveThree == {AtTouch(FALSE, 3)}
Blocking     == {[Market(TRUE, 2) EXCEPT !.maxFills = 1]}
=============================================================================
