----------------------------- MODULE MCExchange -----------------------------
(* Two client orders against a market of one or two rounds. *)
EXTENDS ExchangeClient

\* The second quote's bid meets the first one's ask.
MCQuotes == {<<1, 2>>, <<2, 3>>}
=============================================================================
