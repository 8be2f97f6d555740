------------------------------ MODULE Readings ------------------------------
(***************************************************************************)
(* The arithmetic that the composite strategy (src/src/strategy.rs) and    *)
(* the strategy VM (src/src/bytecode.rs) each write out: the reading of an *)
(* indicator, given what it has remembered of past prices.                 *)
(*                                                                         *)
(* A price is a natural number, and every other f64 an integer that counts *)
(* tenths, rounded down: what is kept of the arithmetic is its sign, its   *)
(* order, its saturation at -1 and 1, and its guards against a zero.       *)
(***************************************************************************)
EXTENDS Integers, Sequences, FiniteSetsExt

One == 10   \* 1.0

Clamp(x) == IF x > One THEN One ELSE IF x < -One THEN -One ELSE x

\* An average starts at its first input.
EmaStart == [value |-> 0, init |-> FALSE]

EmaNext(e, period, price) ==
  [value |-> IF e.init THEN e.value + (2 * (One * price - e.value)) \div (period + 1)
             ELSE One * price,
   init  |-> TRUE]

\* Return in basis points, of which 25 are a full-scale reading.
MomentumReading(now, past) ==
  IF past = 0 THEN 0 ELSE Clamp((One * (now - past) * 10000) \div (25 * past))

\* The price's distance from the mean, in halves of the deviation and negated.
\* spread: n*n times the variance.  The root is the last tenth not beyond it.
ReversionReading(price, n, sum, sumSq) ==
  LET spread   == n * sumSq - sum * sum
      distance == n * price - sum
      halves   == {k \in 0..One : 4 * k * k * spread <= One * One * distance * distance}
  IN  IF spread <= 0 THEN 0
      ELSE IF distance > 0 THEN -Max(halves) ELSE Max(halves)

----------------------------------------------------------------------------
(* The same readings as functions of all prices so far, oldest first: what *)
(* every implementation of an indicator must agree with.                   *)

Squares(q) == [i \in DOMAIN q |-> q[i] * q[i]]

LastOf(q, n) == SubSeq(q, Len(q) - n + 1, Len(q))

EmaOf(feed, period) ==
  LET e[i \in 0..Len(feed)] == IF i = 0 THEN EmaStart ELSE EmaNext(e[i - 1], period, feed[i])
  IN  e[Len(feed)].value

MomentumOf(feed, lookback) ==
  IF Len(feed) <= lookback THEN 0
  ELSE MomentumReading(feed[Len(feed)], feed[Len(feed) - lookback])

ReversionOf(feed, window) ==
  IF Len(feed) < window THEN 0
  ELSE LET recent == LastOf(feed, window)
       IN  ReversionReading(feed[Len(feed)], window, SumFunction(recent), SumFunction(Squares(recent)))
=============================================================================
