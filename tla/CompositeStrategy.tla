------------------------- MODULE CompositeStrategy -------------------------
(***************************************************************************)
(* The hand-written strategy: src/src/strategy.rs.  One price in, the      *)
(* rolling state moves on, three readings are blended into a score, and    *)
(* the score becomes a trade or a hold, subject to the cooldown.           *)
(*                                                                         *)
(* See Readings for the arithmetic; tanh, which only saturates more        *)
(* gently, is a clamp here.                                                *)
(***************************************************************************)
EXTENDS Readings

CONSTANTS
  FastPeriod, SlowPeriod,   \* fast_ema_period, slow_ema_period
  Lookback,                 \* momentum_lookback
  Window,                   \* reversion_window
  Weights,                  \* [trend, momentum, reversion], in tenths
  Threshold,                \* threshold, in tenths
  Cooldown                  \* cooldown_ticks

ASSUME CooldownAssumption == Cooldown \in Nat
ASSUME ConfigAssumption ==
  /\ FastPeriod \in Nat /\ SlowPeriod \in Nat /\ Lookback \in Nat /\ Window \in Nat \ {0}
  /\ Threshold \in Int /\ Weights \in [trend : Int, momentum : Int, reversion : Int]

VARIABLES
  fast, slow,             \* the two averages
  momentumBuf,            \* the last Lookback + 1 prices
  window,                 \* the last Window prices ...
  windowSum, windowSumSq, \* ... with their running sums
  ticksSeen,
  lastTradeTick,          \* 0 for none
  lastSide,               \* "none" before the first trade
  past                    \* history, per tick: its price, the side wanted of it,
                          \* and the side traded, or "none" for hold

rollingVars   == <<fast, slow, momentumBuf, window, windowSum, windowSumSq>>
cooldownVars  == <<ticksSeen, lastTradeTick, lastSide>>
compositeVars == <<rollingVars, cooldownVars, past>>

CompositeInit ==
  /\ fast = EmaStart /\ slow = EmaStart
  /\ momentumBuf = <<>>
  /\ window = <<>> /\ windowSum = 0 /\ windowSumSq = 0
  /\ ticksSeen = 0 /\ lastTradeTick = 0 /\ lastSide = "none"
  /\ past = <<>>

\* Variant: what leaves the window stays in its sums.
RollKeepingSums(price) ==
  /\ window' = Append(IF Len(window) < Window THEN window ELSE Tail(window), price)
  /\ windowSum' = windowSum + price
  /\ windowSumSq' = windowSumSq + price * price

\* A price enters the window, and the oldest leaves it when it was full.
Roll(price) ==
  IF Len(window) < Window
  THEN /\ window' = Append(window, price)
       /\ windowSum' = windowSum + price
       /\ windowSumSq' = windowSumSq + price * price
  ELSE /\ window' = Append(Tail(window), price)
       /\ windowSum' = windowSum + price - Head(window)
       /\ windowSumSq' = windowSumSq + price * price - Head(window) * Head(window)

Update(price) ==
  /\ ticksSeen' = ticksSeen + 1
  /\ fast' = EmaNext(fast, FastPeriod, price)
  /\ slow' = EmaNext(slow, SlowPeriod, price)
  /\ momentumBuf' = Append(IF Len(momentumBuf) <= Lookback THEN momentumBuf
                           ELSE Tail(momentumBuf), price)
  /\ Roll(price)

\* A gap of half a percent is a full-scale reading.
TrendSignal ==
  IF ~slow.init \/ slow.value = 0 THEN 0
  ELSE Clamp((One * 200 * (fast.value - slow.value)) \div slow.value)

MomentumSignal ==
  IF Len(momentumBuf) <= Lookback THEN 0
  ELSE MomentumReading(momentumBuf[Len(momentumBuf)], momentumBuf[1])

ReversionSignal ==
  IF Len(window) < Window THEN 0
  ELSE ReversionReading(window[Len(window)], Len(window), windowSum, windowSumSq)

\* The weights need not sum to 1: the score times their sum, against the
\* threshold times their sum.  With no weight there is no score.
Wanted ==
  LET weight == Weights.trend + Weights.momentum + Weights.reversion
      score  == Weights.trend * TrendSignal + Weights.momentum * MomentumSignal
                + Weights.reversion * ReversionSignal
  IN  IF weight <= 0 THEN "none"
      ELSE IF score >= Threshold * weight THEN "buy"
      ELSE IF score <= -(Threshold * weight) THEN "sell"
      ELSE "none"

\* Variant: one tick early.
CooldownShort(side) == lastSide = side => ticksSeen' - lastTradeTick >= Cooldown - 1

\* Variant: one tick late.
CooldownLate(side) == lastSide = side => ticksSeen' - lastTradeTick > Cooldown

\* The first trade, or a flip of direction, may come at once.
CooldownOk(side) == lastSide = side => ticksSeen' - lastTradeTick >= Cooldown

Decide(price, wanted) ==
  LET side == IF CooldownOk(wanted) THEN wanted ELSE "none"
  IN  /\ IF side # "none" THEN lastTradeTick' = ticksSeen' /\ lastSide' = side
         ELSE UNCHANGED <<lastTradeTick, lastSide>>
      /\ past' = Append(past, [price |-> price, want |-> wanted, side |-> side])

\* Strategy::on_price
OnPrice(price) == Update(price) /\ Decide(price, Wanted')

CompositeSpec == CompositeInit /\ [][\E price \in Nat : OnPrice(price)]_compositeVars

----------------------------------------------------------------------------
Sides == {"buy", "sell"}

Prices == [i \in DOMAIN past |-> past[i].price]

\* Momentum and reversion, read off trimmed buffers and running sums that prices
\* enter and leave, are what they are over all prices so far.
SignalsExact ==
  past # <<>> =>
    /\ MomentumSignal = MomentumOf(Prices, Lookback)
    /\ ReversionSignal = ReversionOf(Prices, Window)

\* Between two trades of one side there is a trade of the other, or the cooldown.
CooldownKept ==
  \A i, j \in DOMAIN past :
    /\ i < j /\ past[i].side # "none" /\ past[i].side = past[j].side
    /\ \A k \in (i + 1)..(j - 1) : past[k].side = "none"
    => j - i >= Cooldown

\* The cooldown delays, it does not silence: a side that is wanted for as many
\* ticks in a row is traded at one of them.
WantedIsTraded ==
  \A i \in DOMAIN past, side \in Sides :
    LET stretch == i..(i + Cooldown - 1)
    IN  /\ stretch # {} /\ stretch \subseteq DOMAIN past
        /\ \A k \in stretch : past[k].want = side
        => \E k \in stretch : past[k].side = side
=============================================================================
