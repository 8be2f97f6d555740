--------------------------- MODULE StrategyProofs ---------------------------
(***************************************************************************)
(* Theorems about the strategy process, for any cooldown, configuration of *)
(* the signals, prices and graphs: the cooldown of the composite strategy, *)
(* its rolling buffers and the signals read off them, in the process that  *)
(* runs it as alone; of the compiler, that a program it makes never runs   *)
(* out of operands, and which graphs it accepts; and of the Vm, that a     *)
(* program decides what its graph means for all prices so far.             *)
(***************************************************************************)
EXTENDS StrategyRunner, Sums, SequenceTheorems, TLAPS

Decisions == Sides \cup {"none"}

\* The last trade is the one the strategy remembers.
LastTradeKnown ==
  /\ lastTradeTick \in 0..Len(past)
  /\ lastTradeTick = 0 => lastSide = "none"
  /\ lastTradeTick # 0 => lastSide \in Sides /\ past[lastTradeTick].side = lastSide
  /\ \A k \in DOMAIN past : lastTradeTick < k => past[k].side = "none"

\* A trade is of the side wanted, and a wanted side that is not traded has been
\* traded less than a cooldown before.
DelaysOnly ==
  \A k \in DOMAIN past :
    /\ past[k].side \in {past[k].want, "none"}
    /\ past[k].side # past[k].want =>
         \E j \in 1..(k - 1) : k - j < Cooldown /\ past[j].side = past[k].want

CooldownInv ==
  /\ past \in Seq([price : Nat, want : Decisions, side : Decisions])
  /\ ticksSeen = Len(past)
  /\ LastTradeKnown
  /\ DelaysOnly
  /\ CooldownKept

----------------------------------------------------------------------------
\* What the score asks for is a side or nothing.
LEMMA WantedChoice == Wanted' \in Decisions
BY DEF Wanted, Decisions, Sides

\* The invariant says what is promised: of as many wanted ticks as the cooldown
\* has, the last one is traded or within a cooldown of a trade, itself one of them.
LEMMA InvImpliesWantedIsTraded == CooldownInv => WantedIsTraded
<1> SUFFICES ASSUME CooldownInv,
                    NEW i \in DOMAIN past, NEW side \in Sides,
                    i..(i + Cooldown - 1) # {}, i..(i + Cooldown - 1) \subseteq DOMAIN past,
                    \A k \in i..(i + Cooldown - 1) : past[k].want = side
             PROVE  \E k \in i..(i + Cooldown - 1) : past[k].side = side
  BY DEF WantedIsTraded
<1>0. past \in Seq([price : Nat, want : Decisions, side : Decisions]) /\ DelaysOnly
  BY DEF CooldownInv
<1>1. i \in Nat /\ Cooldown \in Nat /\ Cooldown >= 1 /\ Len(past) \in Nat /\ DOMAIN past = 1..Len(past)
  BY <1>0, CooldownAssumption
<1> DEFINE last == i + Cooldown - 1
<1>2. last \in i..(i + Cooldown - 1) /\ last \in DOMAIN past
  BY <1>1
<1>3. past[last].want = side
  BY <1>2
<1>4. CASE past[last].side = side
  BY <1>2, <1>4
<1>5. CASE past[last].side # side
  <2>1. PICK j \in 1..(last - 1) : last - j < Cooldown /\ past[j].side = side
    BY <1>0, <1>2, <1>3, <1>5 DEF DelaysOnly
  <2>2. j \in i..(i + Cooldown - 1)
    BY <2>1, <1>1
  <2> QED BY <2>1, <2>2
<1> QED BY <1>4, <1>5

\* The invariant holds before the first price.
LEMMA CooldownInitially == CompositeInit => CooldownInv
<1> SUFFICES ASSUME CompositeInit PROVE CooldownInv
  OBVIOUS
<1>1. past = <<>> /\ ticksSeen = 0 /\ lastTradeTick = 0 /\ lastSide = "none"
  BY DEF CompositeInit
<1>2. past \in Seq([price : Nat, want : Decisions, side : Decisions]) /\ Len(past) = 0 /\ DOMAIN past = {}
  BY <1>1
<1> QED BY <1>1, <1>2 DEF CooldownInv, LastTradeKnown, DelaysOnly, CooldownKept

\* One price leaves the invariant true.
LEMMA CooldownStep ==
  ASSUME CooldownInv, NEW price \in Nat, OnPrice(price)
  PROVE  CooldownInv'
<1> DEFINE w    == Wanted'
           side == IF CooldownOk(w) THEN w ELSE "none"
           n    == Len(past) + 1
<1>1. /\ past \in Seq([price : Nat, want : Decisions, side : Decisions])
      /\ ticksSeen = Len(past) /\ LastTradeKnown /\ DelaysOnly /\ CooldownKept
  BY DEF CooldownInv
<1>2. w \in Decisions /\ side \in Decisions
  BY WantedChoice DEF Decisions
<1>3. /\ ticksSeen' = ticksSeen + 1
      /\ past' = Append(past, [price |-> price, want |-> w, side |-> side])
      /\ side # "none" => lastTradeTick' = ticksSeen' /\ lastSide' = side
      /\ side = "none" => lastTradeTick' = lastTradeTick /\ lastSide' = lastSide
  BY DEF OnPrice, Update, Decide
<1> HIDE DEF w, side
<1> DEFINE entry == [price |-> price, want |-> w, side |-> side]
<1>4. /\ n \in Nat /\ n >= 1 /\ DOMAIN past = 1..(n - 1) /\ Len(past) = n - 1
      /\ DOMAIN past' = 1..n /\ Len(past') = n
  <2>1. entry \in [price : Nat, want : Decisions, side : Decisions]
    BY <1>2
  <2> QED BY <1>1, <1>3, <2>1
<1>10. past' \in Seq([price : Nat, want : Decisions, side : Decisions])
  <2>1. entry \in [price : Nat, want : Decisions, side : Decisions]
    BY <1>2
  <2> QED BY <1>1, <1>3, <2>1
<1>11. \A k \in 1..(n - 1) : past'[k] = past[k]
  BY <1>1, <1>3
<1>12. past'[n].want = w /\ past'[n].side = side
  <2>1. past'[n] = entry
    BY <1>1, <1>3
  <2> QED BY <2>1
<1> HIDE DEF n
<1>5. ticksSeen' = Len(past') /\ ticksSeen' = n
  BY <1>1, <1>3, <1>4, <1>11, <1>12
<1>6. Cooldown \in Nat /\ lastTradeTick \in 0..(n - 1)
  BY <1>1, <1>4, <1>11, <1>12, CooldownAssumption DEF LastTradeKnown
<1>7. LastTradeKnown'
  <2>1. CASE side # "none"
    <3>1. lastTradeTick' = n /\ lastSide' = side /\ side \in Sides
      BY <2>1, <1>2, <1>3, <1>5 DEF Decisions
    <3> QED BY <3>1, <1>4, <1>11, <1>12 DEF LastTradeKnown
  <2>2. CASE side = "none"
    <3>1. lastTradeTick' = lastTradeTick /\ lastSide' = lastSide
      BY <2>2, <1>3
    <3>2. ASSUME NEW k \in 1..n, lastTradeTick < k PROVE past'[k].side = "none"
      <4>1. CASE k = n
        BY <2>2, <4>1, <1>12
      <4>2. CASE k # n
        <5>1. k \in DOMAIN past /\ past'[k] = past[k]
          BY <4>2, <1>4, <1>11
        <5> QED BY <3>2, <5>1, <1>1 DEF LastTradeKnown
      <4> QED BY <4>1, <4>2
    <3> QED BY <3>1, <3>2, <1>1, <1>4, <1>11, <1>12, <1>6 DEF LastTradeKnown
  <2> QED BY <2>1, <2>2
<1>8. DelaysOnly'
  <2> SUFFICES ASSUME NEW k \in 1..n
               PROVE  /\ past'[k].side \in {past'[k].want, "none"}
                      /\ past'[k].side # past'[k].want =>
                           \E j \in 1..(k - 1) : k - j < Cooldown /\ past'[j].side = past'[k].want
    BY <1>4, <1>11, <1>12 DEF DelaysOnly
  <2>1. CASE k # n
    <3>1. k \in 1..(n - 1)
      BY <2>1, <1>4, <1>11, <1>12
    <3>2. \A j \in 1..(k - 1) : past'[j] = past[j]
      BY <3>1, <1>4, <1>11, <1>12
    <3> QED BY <3>1, <3>2, <1>1, <1>4, <1>11, <1>12 DEF DelaysOnly
  <2>2. CASE k = n
    <3>1. side \in {w, "none"}
      BY DEF side
    <3>2. ASSUME side # w PROVE \E j \in 1..(n - 1) : n - j < Cooldown /\ past'[j].side = w
      <4>1. ~CooldownOk(w) /\ w # "none"
        BY <3>2 DEF side
      <4>2. lastSide = w /\ n - lastTradeTick < Cooldown
        BY <4>1, <1>4, <1>11, <1>12, <1>5, <1>6 DEF CooldownOk
      <4>3. lastTradeTick \in 1..(n - 1) /\ past[lastTradeTick].side = w
        BY <4>1, <4>2, <1>1, <1>6 DEF LastTradeKnown
      <4> QED BY <4>2, <4>3, <1>4, <1>11, <1>12
    <3> QED BY <2>2, <3>1, <3>2, <1>4, <1>11, <1>12
  <2> QED BY <2>1, <2>2
<1>9. CooldownKept'
  <2> SUFFICES ASSUME NEW i \in 1..n, NEW j \in 1..n, i < j,
                      past'[i].side # "none", past'[i].side = past'[j].side,
                      \A k \in (i + 1)..(j - 1) : past'[k].side = "none"
               PROVE  j - i >= Cooldown
    BY <1>4, <1>11, <1>12 DEF CooldownKept
  <2>1. i \in 1..(n - 1) /\ past[i].side # "none"
    BY <1>4, <1>11, <1>12
  <2>2. CASE j # n
    <3>1. j \in 1..(n - 1)
      BY <2>2, <1>4, <1>11, <1>12
    <3>2. \A k \in (i + 1)..(j - 1) : past[k].side = "none"
      BY <3>1, <2>1, <1>4, <1>11, <1>12
    <3> QED BY <2>1, <3>1, <3>2, <1>1, <1>4, <1>11, <1>12 DEF CooldownKept
  <2>3. CASE j = n
    <3>1. side # "none" /\ side = past[i].side
      BY <2>1, <2>3, <1>4, <1>11, <1>12
    <3>2. CooldownOk(w) /\ side = w
      BY <3>1 DEF side
    <3>3. i = lastTradeTick
      <4>1. i <= lastTradeTick
        <5>1. ~(lastTradeTick < i)
          BY <2>1, <1>1, <1>4 DEF LastTradeKnown
        <5> QED BY <5>1, <2>1, <1>4, <1>6
      <4>2. ASSUME i < lastTradeTick PROVE FALSE
        <5>1. lastTradeTick \in (i + 1)..(j - 1) /\ lastTradeTick # 0
          BY <4>2, <2>1, <2>3, <1>4, <1>11, <1>12, <1>6
        <5>2. past[lastTradeTick].side = lastSide /\ lastSide # "none"
          BY <5>1, <1>1 DEF LastTradeKnown, Sides
        <5>3. lastTradeTick \in 1..(n - 1)
          BY <5>1, <2>3
        <5>4. past'[lastTradeTick] = past[lastTradeTick]
          BY <5>3, <1>11
        <5> QED BY <5>1, <5>2, <5>4
      <4> QED BY <4>1, <4>2, <2>1, <1>4, <1>11, <1>12, <1>6
    <3>4. lastSide = w
      <4>1. lastTradeTick # 0
        BY <3>3, <2>1, <1>4
      <4>2. past[lastTradeTick].side = lastSide
        BY <4>1, <1>1 DEF LastTradeKnown
      <4> QED BY <4>2, <3>1, <3>2, <3>3
    <3> QED BY <3>2, <3>3, <3>4, <2>3, <1>5 DEF CooldownOk
  <2> QED BY <2>2, <2>3
<1> QED BY <1>4, <1>10, <1>5, <1>7, <1>8, <1>9 DEF CooldownInv

\* The invariant is inductive: no behaviour of the strategy leaves it.
THEOREM CooldownInvariant == CompositeSpec => []CooldownInv
<1>1. CompositeInit => CooldownInv
  BY CooldownInitially
<1>2. CooldownInv /\ [\E price \in Nat : OnPrice(price)]_compositeVars => CooldownInv'
  <2> SUFFICES ASSUME CooldownInv, [\E price \in Nat : OnPrice(price)]_compositeVars
               PROVE  CooldownInv'
    OBVIOUS
  <2>1. CASE \E price \in Nat : OnPrice(price)
    BY <2>1, CooldownStep
  <2>2. CASE UNCHANGED compositeVars
    BY <2>2 DEF CooldownInv, LastTradeKnown, DelaysOnly, CooldownKept, compositeVars, cooldownVars
  <2> QED BY <2>1, <2>2
<1> QED BY <1>1, <1>2, PTL DEF CompositeSpec

\* strategy.rs:204-208: two trades of one side, with none of the other between them,
\* are a cooldown apart, whatever the prices and the signals.
THEOREM CooldownHolds == CompositeSpec => []CooldownKept
<1>1. CooldownInv => CooldownKept
  BY DEF CooldownInv
<1> QED BY <1>1, CooldownInvariant, PTL

\* strategy.rs:193-199: a side wanted for a cooldown's length of ticks is traded.
THEOREM WantsAreTraded == CompositeSpec => []WantedIsTraded
BY InvImpliesWantedIsTraded, CooldownInvariant, PTL
----------------------------------------------------------------------------
(* The two buffers, and the momentum that is read off one of them.         *)

\* buf holds the latest prices, oldest first, as many of them as it has room for.
Latest(buf, size, prices) ==
  /\ buf \in Seq(Nat)
  /\ Len(buf) = IF Len(prices) < size THEN Len(prices) ELSE size
  /\ \A k \in 1..Len(buf) : buf[k] = prices[Len(prices) - Len(buf) + k]

BuffersInv ==
  /\ past \in Seq([price : Nat, want : Decisions, side : Decisions])
  /\ Latest(momentumBuf, Lookback + 1, Prices)
  /\ Latest(window, Window, Prices)

\* A buffer that takes a price in, and lets its oldest go when it was full, still
\* holds the latest.
LEMMA LatestNext ==
  ASSUME NEW prices \in Seq(Nat), NEW price \in Nat, NEW size \in Nat, size >= 1,
         NEW buf, Latest(buf, size, prices)
  PROVE  Latest(Append(IF Len(buf) < size THEN buf ELSE Tail(buf), price), size, Append(prices, price))
<1>1. buf \in Seq(Nat) /\ Len(buf) \in Nat /\ Len(prices) \in Nat
  BY DEF Latest
<1> DEFINE kept == IF Len(buf) < size THEN buf ELSE Tail(buf)
<1>4. Append(prices, price) \in Seq(Nat) /\ Len(Append(prices, price)) = Len(prices) + 1
  BY <1>1
<1>5. \A k \in 1..Len(buf) : buf[k] = prices[Len(prices) - Len(buf) + k]
  BY DEF Latest
<1>2. CASE Len(buf) < size
  <2>1. Len(buf) = Len(prices) /\ kept = buf
    BY <1>1, <1>2 DEF Latest
  <2>2. ASSUME NEW k \in 1..Len(buf) PROVE buf[k] = prices[k]
    <3>1. Len(prices) - Len(buf) + k = k
      BY <2>1, <1>1
    <3> QED BY <3>1, <1>5
  <2>3. Append(buf, price) \in Seq(Nat) /\ Len(Append(buf, price)) = Len(prices) + 1
    BY <1>1, <2>1
  <2>4. ASSUME NEW k \in 1..(Len(prices) + 1) PROVE Append(buf, price)[k] = Append(prices, price)[k]
    BY <1>1, <2>1, <2>2
  <2>5. ASSUME NEW k \in 1..(Len(prices) + 1)
        PROVE  Append(buf, price)[k] = Append(prices, price)[(Len(prices) + 1) - (Len(prices) + 1) + k]
    <3>1. (Len(prices) + 1) - (Len(prices) + 1) + k = k
      BY <1>1
    <3> QED BY <3>1, <2>4
  <2>6. Len(prices) + 1 <= size
    BY <1>1, <1>2, <2>1
  <2>7. Latest(Append(buf, price), size, Append(prices, price))
    BY <1>1, <1>4, <2>3, <2>5, <2>6 DEF Latest
  <2> QED BY <2>1, <2>7
<1>3. CASE Len(buf) >= size
  <2>1. Len(buf) = size /\ Len(prices) >= size /\ buf # <<>>
    BY <1>1, <1>3 DEF Latest
  <2>2. kept = Tail(buf) /\ kept \in Seq(Nat) /\ Len(kept) = size - 1
    BY <1>1, <1>3, <2>1
  <2>3. \A k \in 1..(size - 1) : kept[k] = buf[k + 1]
    BY <1>1, <2>1, <2>2
  <2>4. ASSUME NEW k \in 1..(size - 1) PROVE kept[k] = prices[Len(prices) + 1 - size + k]
    <3>1. k + 1 \in 1..Len(buf) /\ Len(prices) - Len(buf) + (k + 1) = Len(prices) + 1 - size + k
      BY <2>1, <1>1
    <3>2. kept[k] = buf[k + 1]
      BY <2>3
    <3> QED BY <3>1, <3>2, <1>5
  <2> HIDE DEF kept
  <2>5. /\ Append(kept, price) \in Seq(Nat) /\ Len(Append(kept, price)) = size
        /\ Len(Append(prices, price)) = Len(prices) + 1
    BY <2>2, <1>1
  <2>6. ASSUME NEW k \in 1..size
        PROVE  Append(kept, price)[k] = Append(prices, price)[Len(prices) + 1 - size + k]
    <3>1. CASE k = size
      BY <3>1, <2>2, <1>1
    <3>2. CASE k # size
      <4>1. k \in 1..(size - 1) /\ Len(prices) + 1 - size + k \in 1..Len(prices)
        BY <3>2, <2>1, <1>1
      <4> QED BY <4>1, <2>2, <2>4, <1>1
    <3> QED BY <3>1, <3>2
  <2>7. ~(Len(prices) + 1 < size)
    BY <2>1, <1>1
  <2>8. Latest(Append(kept, price), size, Append(prices, price))
    <3> DEFINE b == Append(kept, price)
               q == Append(prices, price)
    <3>1. b \in Seq(Nat) /\ Len(b) = size /\ Len(q) = Len(prices) + 1
      BY <2>5
    <3>2. \A k \in 1..size : b[k] = q[Len(prices) + 1 - size + k]
      BY <2>6
    <3> HIDE DEF b, q
    <3>3. Latest(b, size, q)
      BY <3>1, <3>2, <2>7, <1>1 DEF Latest
    <3> QED BY <3>3 DEF b, q
  <2> QED BY <2>8 DEF kept
<1> QED BY <1>1, <1>2, <1>3

\* The prices of a past are a sequence as long as the past.
LEMMA PricesType ==
  ASSUME NEW p \in Seq([price : Nat, want : Decisions, side : Decisions]),
         NEW q, q = [i \in DOMAIN p |-> p[i].price]
  PROVE  q \in Seq(Nat) /\ Len(q) = Len(p) /\ \A k \in 1..Len(p) : q[k] = p[k].price
<1>1. DOMAIN p = 1..Len(p) /\ Len(p) \in Nat
  BY LenProperties
<1>2. ASSUME NEW k \in 1..Len(p) PROVE p[k].price \in Nat
  <2>1. p[k] \in [price : Nat, want : Decisions, side : Decisions]
    BY ElementOfSeq
  <2> QED BY <2>1
<1> QED BY <1>1, <1>2

\* At every price both buffers still hold the latest.
LEMMA BuffersStep ==
  ASSUME BuffersInv, NEW price \in Nat, OnPrice(price)
  PROVE  BuffersInv'
<1>1. past \in Seq([price : Nat, want : Decisions, side : Decisions]) /\ Prices \in Seq(Nat)
  BY PricesType DEF BuffersInv, Prices
<1>2. PICK w \in Decisions, side \in Decisions :
        past' = Append(past, [price |-> price, want |-> w, side |-> side])
  <2>1. Wanted' \in Decisions /\ "none" \in Decisions
    BY WantedChoice DEF Decisions
  <2> QED BY <2>1 DEF OnPrice, Decide
<1>3. /\ past' \in Seq([price : Nat, want : Decisions, side : Decisions])
      /\ Prices' = Append(Prices, price)
  <2>1. [price |-> price, want |-> w, side |-> side] \in [price : Nat, want : Decisions, side : Decisions]
    OBVIOUS
  <2>2. past' \in Seq([price : Nat, want : Decisions, side : Decisions])
    BY <2>1, <1>1, <1>2
  <2>3. Len(past') = Len(past) + 1 /\ Len(past) \in Nat
    BY <2>1, <1>1, <1>2
  <2>4. past'[Len(past) + 1].price = price /\ \A k \in 1..Len(past) : past'[k] = past[k]
    BY <2>1, <1>1, <1>2
  <2>5. /\ Prices' \in Seq(Nat) /\ Len(Prices') = Len(past) + 1
        /\ \A k \in 1..(Len(past) + 1) : Prices'[k] = past'[k].price
    <3>1. Prices' = [i \in DOMAIN past' |-> past'[i].price]
      BY DEF Prices
    <3>2. Prices' \in Seq(Nat) /\ Len(Prices') = Len(past') /\ \A k \in 1..Len(past') : Prices'[k] = past'[k].price
      BY <2>2, <3>1, PricesType
    <3> QED BY <2>3, <3>2
  <2>6. Len(Prices) = Len(past) /\ \A k \in 1..Len(past) : Prices[k] = past[k].price
    BY <1>1, PricesType DEF Prices
  <2>7. Append(Prices, price) \in Seq(Nat) /\ Len(Append(Prices, price)) = Len(past) + 1
    BY <2>6, <1>1
  <2>8. \A k \in 1..(Len(past) + 1) : Prices'[k] = Append(Prices, price)[k]
    <3> TAKE k \in 1..(Len(past) + 1)
    <3>1. CASE k = Len(past) + 1
      <4>1. Append(Prices, price)[k] = price
        BY <3>1, <2>6, <1>1, AppendProperties
      <4> QED BY <3>1, <4>1, <2>4, <2>5
    <3>2. CASE k # Len(past) + 1
      <4>1. k \in 1..Len(past)
        BY <3>2, <2>3
      <4>2. Append(Prices, price)[k] = Prices[k]
        BY <4>1, <2>6, <1>1, AppendProperties
      <4>3. Prices'[k] = past[k].price
        BY <4>1, <2>4, <2>5
      <4> QED BY <4>1, <4>2, <4>3, <2>6
    <3> QED BY <3>1, <3>2
  <2>9. Prices' = Append(Prices, price)
    BY <2>5, <2>7, <2>8, SeqEqual
  <2> QED BY <2>2, <2>9
<1>4. Latest(momentumBuf, Lookback + 1, Prices) /\ Latest(window, Window, Prices)
  BY DEF BuffersInv
<1>5. Lookback \in Nat /\ Window \in Nat /\ Window >= 1
  BY ConfigAssumption
<1>6. Latest(momentumBuf', Lookback + 1, Prices')
  <2>1. Len(momentumBuf) \in Nat
    BY <1>4 DEF Latest
  <2>2. momentumBuf' = Append(IF Len(momentumBuf) < Lookback + 1 THEN momentumBuf ELSE Tail(momentumBuf), price)
    BY <2>1, <1>5 DEF OnPrice, Update
  <2> QED BY <2>2, <1>1, <1>3, <1>4, <1>5, LatestNext
<1>7. Latest(window', Window, Prices')
  <2>1. window' = Append(IF Len(window) < Window THEN window ELSE Tail(window), price)
    BY DEF OnPrice, Update, Roll
  <2> QED BY <2>1, <1>1, <1>3, <1>4, <1>5, LatestNext
<1> QED BY <1>3, <1>6, <1>7 DEF BuffersInv

\* The momentum buffer and the reversion window always hold the latest prices.
THEOREM BuffersHoldLatest == CompositeSpec => []BuffersInv
<1>1. CompositeInit => BuffersInv
  <2> SUFFICES ASSUME CompositeInit PROVE BuffersInv
    OBVIOUS
  <2>1. past = <<>> /\ momentumBuf = <<>> /\ window = <<>> /\ Prices = <<>>
    BY DEF CompositeInit, Prices
  <2>2. Lookback + 1 \in Nat /\ Lookback + 1 > 0 /\ Window \in Nat /\ Window > 0
    BY ConfigAssumption
  <2> QED BY <2>1, <2>2 DEF BuffersInv, Latest
<1>2. BuffersInv /\ [\E price \in Nat : OnPrice(price)]_compositeVars => BuffersInv'
  <2> SUFFICES ASSUME BuffersInv, [\E price \in Nat : OnPrice(price)]_compositeVars
               PROVE  BuffersInv'
    OBVIOUS
  <2>1. CASE \E price \in Nat : OnPrice(price)
    BY <2>1, BuffersStep
  <2>2. CASE UNCHANGED compositeVars
    BY <2>2 DEF BuffersInv, Latest, Prices, compositeVars, rollingVars
  <2> QED BY <2>1, <2>2
<1> QED BY <1>1, <1>2, PTL DEF CompositeSpec

\* The momentum half of SignalsExact: what is read off the buffer is the return
\* over the lookback, of all prices so far.
MomentumExact == past # <<>> => MomentumSignal = MomentumOf(Prices, Lookback)

\* strategy.rs:226-237: the momentum signal is exact at every tick.
THEOREM MomentumIsExact == CompositeSpec => []MomentumExact
<1>1. BuffersInv => MomentumExact
  <2> SUFFICES ASSUME BuffersInv PROVE MomentumSignal = MomentumOf(Prices, Lookback)
    BY DEF MomentumExact
  <2>1. /\ Len(momentumBuf) \in Nat
        /\ Len(momentumBuf) = IF Len(Prices) < Lookback + 1 THEN Len(Prices) ELSE Lookback + 1
        /\ \A k \in 1..Len(momentumBuf) : momentumBuf[k] = Prices[Len(Prices) - Len(momentumBuf) + k]
    <3>1. Latest(momentumBuf, Lookback + 1, Prices)
      BY DEF BuffersInv
    <3>2. momentumBuf \in Seq(Nat)
      BY <3>1 DEF Latest
    <3>3. Len(momentumBuf) \in Nat
      BY <3>2, LenProperties
    <3> QED BY <3>1, <3>3, Zenon DEF Latest
  <2>2. Prices \in Seq(Nat) /\ Len(Prices) \in Nat /\ Lookback \in Nat
    <3>1. past \in Seq([price : Nat, want : Decisions, side : Decisions])
      BY DEF BuffersInv
    <3>2. Prices \in Seq(Nat)
      BY <3>1, PricesType DEF Prices
    <3> QED BY <3>2, ConfigAssumption, LenProperties
  <2>3. CASE Len(Prices) <= Lookback
    <3>1. Len(momentumBuf) <= Lookback
      BY <2>1, <2>2, <2>3
    <3>2. MomentumSignal = 0
      BY <3>1 DEF MomentumSignal
    <3> QED BY <3>2, <2>3 DEF MomentumOf
  <2>4. CASE Len(Prices) > Lookback
    <3>1. Len(momentumBuf) = Lookback + 1
      BY <2>1, <2>2, <2>4
    <3>2. momentumBuf[1] = Prices[Len(Prices) - Lookback]
      BY <3>1, <2>1, <2>2
    <3>3. momentumBuf[Len(momentumBuf)] = Prices[Len(Prices)]
      BY <3>1, <2>1, <2>2
    <3>4. MomentumSignal = MomentumReading(Prices[Len(Prices)], Prices[Len(Prices) - Lookback])
      BY <3>1, <3>2, <3>3, <2>2 DEF MomentumSignal
    <3>5. ~(Len(Prices) <= Lookback)
      BY <2>2, <2>4
    <3> QED BY <3>4, <3>5 DEF MomentumOf
  <2> QED BY <2>2, <2>3, <2>4
<1> QED BY <1>1, BuffersHoldLatest, PTL
----------------------------------------------------------------------------
(* The running sums of the reversion window, and the reversion signal that *)
(* is read off them.                                                       *)

\* The two running sums are the sums over what is in the window.
SumsInv ==
  /\ windowSum = SumFunction(window)
  /\ windowSumSq = SumFunction(Squares(window))

\* The squares of a sequence of naturals.
LEMMA SquaresType ==
  ASSUME NEW q \in Seq(Nat)
  PROVE  /\ Squares(q) \in Seq(Int) /\ Len(Squares(q)) = Len(q)
         /\ \A i \in 1..Len(q) : Squares(q)[i] = q[i] * q[i]
<1>1. DOMAIN q = 1..Len(q) /\ Len(q) \in Nat /\ \A i \in 1..Len(q) : q[i] \in Nat
  BY LenProperties, ElementOfSeq
<1>2. Squares(q) = [i \in 1..Len(q) |-> q[i] * q[i]]
  BY <1>1 DEF Squares
<1>3. \A i \in 1..Len(q) : q[i] * q[i] \in Int
  BY <1>1
<1>4. Squares(q) \in [1..Len(q) -> Int]
  BY <1>2, <1>3
<1>5. Squares(q) \in Seq(Int) /\ Len(Squares(q)) = Len(q)
  BY <1>1, <1>4, FunctionIsSequence
<1> QED
  BY <1>2, <1>5

\* A sequence of naturals is one of integers.
LEMMA NaturalsAreIntegers == \A q \in Seq(Nat) : q \in Seq(Int)
<1> SUFFICES ASSUME NEW q \in Seq(Nat) PROVE q \in Seq(Int)
  OBVIOUS
<1>1. Len(q) \in Nat /\ DOMAIN q = 1..Len(q) /\ q \in [1..Len(q) -> Nat]
  BY LenProperties
<1>2. q \in [1..Len(q) -> Int]
  BY <1>1
<1> QED
  BY <1>1, <1>2, SeqDef

\* What enters a sequence enters the sum of its squares.
LEMMA SquaresAppend ==
  ASSUME NEW q \in Seq(Nat), NEW price \in Nat
  PROVE  SumFunction(Squares(Append(q, price))) = SumFunction(Squares(q)) + price * price
<1> DEFINE w == Append(q, price)
           v == Squares(q)
           u == Squares(w)
<1>1. w \in Seq(Nat) /\ Len(w) = Len(q) + 1 /\ w[Len(q) + 1] = price /\ \A i \in 1..Len(q) : w[i] = q[i]
  BY AppendProperties
<1> HIDE DEF w
<1>2. Len(q) \in Nat
  BY LenProperties
<1>3. /\ v \in Seq(Int) /\ Len(v) = Len(q) /\ \A i \in 1..Len(q) : v[i] = q[i] * q[i]
  BY SquaresType
<1>4. /\ u \in Seq(Int) /\ Len(u) = Len(q) + 1 /\ \A i \in 1..(Len(q) + 1) : u[i] = w[i] * w[i]
  BY <1>1, SquaresType
<1> HIDE DEF v, u
<1>5. u[Len(v) + 1] = price * price
  <2>1. Len(q) + 1 \in 1..(Len(q) + 1)
    BY <1>2
  <2>2. u[Len(q) + 1] = w[Len(q) + 1] * w[Len(q) + 1]
    BY <2>1, <1>4
  <2> QED
    BY <2>2, <1>1, <1>3
<1>6. ASSUME NEW i \in 1..Len(v) PROVE u[i] = v[i]
  <2>1. i \in 1..Len(q) /\ i \in 1..(Len(q) + 1)
    BY <1>2, <1>3
  <2>2. u[i] = w[i] * w[i] /\ v[i] = q[i] * q[i] /\ w[i] = q[i]
    BY <2>1, <1>1, <1>3, <1>4
  <2> QED
    BY <2>2
<1>7. SumFunction(u) = SumFunction(v) + u[Len(v) + 1]
  BY <1>3, <1>4, <1>6, SumOfMore
<1> QED
  BY <1>5, <1>7 DEF v, u, w

\* What leaves a sequence at its head leaves its sum, and that of its squares.
LEMMA HeadLeaves ==
  ASSUME NEW q \in Seq(Nat), q # <<>>
  PROVE  /\ SumFunction(Tail(q)) = SumFunction(q) - Head(q)
         /\ SumFunction(Squares(Tail(q))) = SumFunction(Squares(q)) - Head(q) * Head(q)
<1> DEFINE t == Tail(q)
           h == Head(q)
           n == Len(q)
<1>1. n \in Nat /\ n >= 1 /\ DOMAIN q = 1..n /\ \A i \in 1..n : q[i] \in Nat
  BY LenProperties, EmptySeq, ElementOfSeq
<1>2. t \in Seq(Nat) /\ Len(t) = n - 1 /\ h = q[1] /\ \A i \in 1..(n - 1) : t[i] = q[i + 1]
  BY HeadTailProperties, <1>1
<1>3. q \in Seq(Int) /\ t \in Seq(Int)
  BY <1>2, NaturalsAreIntegers
<1> HIDE DEF t, h
<1>4. SumFunction(t) = SumFunction(q) - q[1]
  <2>1. 1 \in DOMAIN q
    BY <1>1
  <2>2. \A i \in 1..(Len(q) - 1) : t[i] = IF i < 1 THEN q[i] ELSE q[i + 1]
    BY <1>1, <1>2
  <2> QED
    BY <2>1, <2>2, <1>2, <1>3, SumOfRemove
<1>5. SumFunction(Squares(t)) = SumFunction(Squares(q)) - q[1] * q[1]
  <2> DEFINE v == Squares(q)
             w == Squares(t)
  <2>1. v \in Seq(Int) /\ Len(v) = n /\ \A i \in 1..n : v[i] = q[i] * q[i]
    BY SquaresType
  <2>2. w \in Seq(Int) /\ Len(w) = n - 1 /\ \A i \in 1..(n - 1) : w[i] = t[i] * t[i]
    BY <1>2, SquaresType
  <2> HIDE DEF v, w
  <2>3. 1 \in DOMAIN v
    BY <2>1, <1>1, LenProperties
  <2>4. ASSUME NEW i \in 1..(n - 1) PROVE w[i] = v[i + 1]
    <3>1. i + 1 \in 1..n
      BY <1>1
    <3>2. w[i] = t[i] * t[i] /\ v[i + 1] = q[i + 1] * q[i + 1] /\ t[i] = q[i + 1]
      BY <3>1, <2>1, <2>2, <1>2
    <3> QED
      BY <3>2
  <2>5. \A i \in 1..(Len(v) - 1) : w[i] = IF i < 1 THEN v[i] ELSE v[i + 1]
    BY <2>1, <2>4, <1>1
  <2>6. SumFunction(w) = SumFunction(v) - v[1]
    BY <2>1, <2>2, <2>3, <2>5, SumOfRemove
  <2>7. v[1] = q[1] * q[1]
    BY <2>1, <1>1
  <2> QED
    BY <2>6, <2>7 DEF v, w
<1> QED
  BY <1>2, <1>4, <1>5 DEF t, h

\* At every price the running sums still are the sums over the window.
LEMMA SumsStep ==
  ASSUME BuffersInv, SumsInv, NEW price \in Nat, OnPrice(price)
  PROVE  SumsInv'
<1>1. window \in Seq(Nat) /\ window \in Seq(Int) /\ Len(window) \in Nat
  BY NaturalsAreIntegers, LenProperties DEF BuffersInv, Latest
<1>2. Window \in Nat /\ Window >= 1
  BY ConfigAssumption
<1>3. SumFunction(window) \in Int /\ SumFunction(Squares(window)) \in Int
  BY <1>1, SequenceSum, SquaresType
<1>4. price * price \in Int /\ price \in Int
  OBVIOUS
<1>5. CASE Len(window) < Window
  <2>1. /\ window' = Append(window, price) /\ windowSum' = windowSum + price
        /\ windowSumSq' = windowSumSq + price * price
    BY <1>5 DEF OnPrice, Update, Roll
  <2>2. SumFunction(window') = SumFunction(window) + price
    BY <2>1, <1>1, <1>4, SumOfAppend
  <2>3. SumFunction(Squares(window')) = SumFunction(Squares(window)) + price * price
    BY <2>1, <1>1, SquaresAppend
  <2> QED
    BY <2>1, <2>2, <2>3 DEF SumsInv
<1>6. CASE ~(Len(window) < Window)
  <2> DEFINE t == Tail(window)
             h == Head(window)
  <2>1. /\ window' = Append(t, price) /\ windowSum' = windowSum + price - h
        /\ windowSumSq' = windowSumSq + price * price - h * h
    BY <1>6 DEF OnPrice, Update, Roll
  <2>2. window # <<>>
    BY <1>1, <1>2, <1>6, EmptySeq
  <2>3. t \in Seq(Nat) /\ h \in Nat
    BY <1>1, <2>2, HeadTailProperties
  <2>4. t \in Seq(Int) /\ h * h \in Int
    BY <2>3, NaturalsAreIntegers
  <2>5. /\ SumFunction(t) = SumFunction(window) - h
        /\ SumFunction(Squares(t)) = SumFunction(Squares(window)) - h * h
    BY <1>1, <2>2, HeadLeaves
  <2> HIDE DEF t, h
  <2>6. SumFunction(window') = SumFunction(t) + price
    BY <2>1, <2>4, <1>4, SumOfAppend
  <2>7. SumFunction(Squares(window')) = SumFunction(Squares(t)) + price * price
    BY <2>1, <2>3, SquaresAppend
  <2> DEFINE pp == price * price
             hh == h * h
             s  == SumFunction(window)
             ss == SumFunction(Squares(window))
  <2>8. /\ windowSum' = s + price - h /\ windowSumSq' = ss + pp - hh
        /\ SumFunction(window') = s - h + price
        /\ SumFunction(Squares(window')) = ss - hh + pp
    BY <2>1, <2>5, <2>6, <2>7 DEF SumsInv
  <2>9. s \in Int /\ ss \in Int /\ pp \in Int /\ hh \in Int /\ price \in Int /\ h \in Int
    BY <1>3, <1>4, <2>3, <2>4
  <2> HIDE DEF pp, hh, s, ss
  <2> QED
    BY <2>8, <2>9 DEF SumsInv
<1> QED
  BY <1>5, <1>6

\* The running sums of the window never drift from what is in it.
THEOREM SumsFollowWindow == CompositeSpec => []SumsInv
<1>1. CompositeInit => SumsInv
  <2> SUFFICES ASSUME CompositeInit PROVE SumsInv
    OBVIOUS
  <2>1. window = <<>> /\ windowSum = 0 /\ windowSumSq = 0
    BY DEF CompositeInit
  <2>2. Squares(window) = <<>>
    BY <2>1 DEF Squares
  <2> QED
    BY <2>1, <2>2, SumOfEmpty DEF SumsInv
<1>2. BuffersInv /\ SumsInv /\ [\E price \in Nat : OnPrice(price)]_compositeVars => SumsInv'
  <2> SUFFICES ASSUME BuffersInv, SumsInv, [\E price \in Nat : OnPrice(price)]_compositeVars
               PROVE  SumsInv'
    OBVIOUS
  <2>1. CASE \E price \in Nat : OnPrice(price)
    BY <2>1, SumsStep
  <2>2. CASE UNCHANGED compositeVars
    BY <2>2 DEF SumsInv, Squares, compositeVars, rollingVars
  <2> QED BY <2>1, <2>2
<1> QED BY <1>1, <1>2, BuffersHoldLatest, PTL DEF CompositeSpec

\* strategy.rs:226-262: momentum and reversion, read off the trimmed buffers and
\* the running sums, are at every tick what they are over all prices so far.
THEOREM SignalsAreExact == CompositeSpec => []SignalsExact
<1>1. BuffersInv /\ SumsInv /\ MomentumExact => SignalsExact
  <2> SUFFICES ASSUME BuffersInv, SumsInv, past # <<>>
               PROVE  ReversionSignal = ReversionOf(Prices, Window)
    BY DEF SignalsExact, MomentumExact
  <2> DEFINE n == Len(Prices)
             recent == LastOf(Prices, Window)
  <2>1. Prices \in Seq(Nat) /\ n \in Nat /\ Window \in Nat /\ Window >= 1
    <3>1. past \in Seq([price : Nat, want : Decisions, side : Decisions])
      BY DEF BuffersInv
    <3>2. Prices \in Seq(Nat)
      BY <3>1, PricesType DEF Prices
    <3> QED
      BY <3>2, ConfigAssumption, LenProperties
  <2>2. /\ window \in Seq(Nat) /\ Len(window) \in Nat
        /\ Len(window) = IF n < Window THEN n ELSE Window
        /\ \A k \in 1..Len(window) : window[k] = Prices[n - Len(window) + k]
    BY LenProperties, Zenon DEF BuffersInv, Latest
  <2>3. CASE n < Window
    <3>1. Len(window) < Window
      BY <2>2, <2>3
    <3> QED
      BY <3>1, <2>3 DEF ReversionSignal, ReversionOf
  <2>4. CASE ~(n < Window)
    <3>1. Len(window) = Window /\ \A k \in 1..Window : window[k] = Prices[n - Window + k]
      BY <2>2, <2>4
    <3>2. window[Window] = Prices[n]
      BY <3>1, <2>1
    <3>3. recent = window
      <4> DEFINE m == n - Window + 1
      <4>1. recent = [k \in 1..Window |-> Prices[m + k - 1]]
        BY <2>1, <2>4 DEF LastOf
      <4>2. \A k \in 1..Window : recent[k] = window[k]
        BY <4>1, <3>1, <2>1
      <4>3. DOMAIN window = 1..Window /\ window = [k \in 1..Window |-> window[k]]
        BY <3>1, <2>2, LenProperties
      <4> HIDE DEF recent
      <4> QED
        BY <4>1, <4>2, <4>3
    <3>4. ReversionOf(Prices, Window)
            = ReversionReading(Prices[n], Window, SumFunction(recent), SumFunction(Squares(recent)))
      BY <2>4 DEF ReversionOf
    <3>5. ReversionSignal = ReversionReading(window[Window], Window, windowSum, windowSumSq)
      BY <3>1, <2>1 DEF ReversionSignal
    <3> HIDE DEF recent
    <3> QED
      BY <3>2, <3>3, <3>4, <3>5 DEF SumsInv
  <2> QED
    BY <2>3, <2>4
<1> QED BY <1>1, BuffersHoldLatest, SumsFollowWindow, MomentumIsExact, PTL
----------------------------------------------------------------------------
(* The strategy process: the composite strategy inside it, and its types.  *)

\* A step of the process is a price for the composite strategy, or leaves it alone.
LEMMA StepsOfComposite ==
  ASSUME [Next]_runnerVars
  PROVE  (\E price \in Nat : OnPrice(price)) \/ UNCHANGED compositeVars
<1>1. CASE UNCHANGED runnerVars
  BY <1>1 DEF runnerVars
<1>2. ASSUME NEW c, ReadConnection(c) PROVE UNCHANGED compositeVars
  BY <1>2 DEF ReadConnection
<1>3. CASE NoGraph \/ LoadGraph
  BY <1>3 DEF NoGraph, LoadGraph
<1>4. ASSUME NEW price \in TickPrices, RunFixed(price) PROVE \E p \in Nat : OnPrice(p)
  BY <1>4, TicksAssumption DEF RunFixed
<1>5. ASSUME NEW price \in TickPrices, RunVm(price) PROVE UNCHANGED compositeVars
  BY <1>5 DEF RunVm
<1> QED
  BY <1>1, <1>2, <1>3, <1>4, <1>5 DEF Next

\* bin/strategy.rs:297-308: the process runs the composite strategy as it is
\* specified on its own, so that what is proved of that holds inside the process.
THEOREM RunsComposite == Spec => CompositeSpec
<1>1. Init => CompositeInit
  BY DEF Init
<1>2. [Next]_runnerVars => [\E price \in Nat : OnPrice(price)]_compositeVars
  BY StepsOfComposite
<1> QED
  BY <1>1, <1>2, PTL DEF Spec, CompositeSpec

\* strategy.rs:204-208, within the process.
THEOREM CooldownHoldsInProcess == Spec => []CooldownKept
BY RunsComposite, CooldownHolds, PTL

\* strategy.rs:193-199, within the process.
THEOREM WantsAreTradedInProcess == Spec => []WantedIsTraded
BY RunsComposite, WantsAreTraded, PTL

\* strategy.rs:226-262, within the process.
THEOREM SignalsAreExactInProcess == Spec => []SignalsExact
BY RunsComposite, SignalsAreExact, PTL

\* The process's own variables.  A tick that panics is in the feed and not in the log.
ProcessTyped ==
  /\ phase \in {"read", "run", "panicked"}
  /\ source \in Sources \cup {NoSource}
  /\ position \in Int /\ WithinLimit(position)
  /\ feed \in Seq(TickPrices)
  /\ \E S : log \in Seq(S)
  /\ Len(feed) - Len(log) \in {0, IF phase = "panicked" THEN 1 ELSE 0}
  /\ phase # "panicked" => Len(feed) = Len(log)

\* A trade keeps the position an integer within the limit, and logs one tick.
LEMMA TradeTyped ==
  ASSUME position \in Int, WithinLimit(position), \E S : log \in Seq(S), NEW side, Trade(side)
  PROVE  /\ position' \in Int /\ WithinLimit(position')
         /\ \E S : log' \in Seq(S)
         /\ Len(log') = Len(log) + 1 /\ Len(log) \in Nat
<1> DEFINE entry == [side |-> side, sent |-> Sent(side)]
<1>1. PICK S : log \in Seq(S)
  OBVIOUS
<1>2. log' = Append(log, entry)
  BY DEF Trade
<1>3. log \in Seq(S \cup {entry}) /\ Len(log) \in Nat
  <2>1. log \in [1..Len(log) -> S] /\ Len(log) \in Nat
    BY <1>1, LenProperties
  <2>2. log \in [1..Len(log) -> S \cup {entry}]
    BY <2>1
  <2> QED
    BY <2>1, <2>2, SeqDef
<1>4. log' \in Seq(S \cup {entry}) /\ Len(log') = Len(log) + 1
  BY <1>2, <1>3, AppendProperties
<1>5. position' \in Int /\ WithinLimit(position')
  <2>1. Delta(side) \in Int
    BY DeltaAssumption DEF Delta
  <2> QED
    BY <2>1 DEF Trade, Sent
<1> QED
  BY <1>3, <1>4, <1>5

\* A tick that comes is appended to the feed.
LEMMA TickTyped ==
  ASSUME feed \in Seq(TickPrices), NEW price \in TickPrices, TickComes(price)
  PROVE  feed' \in Seq(TickPrices) /\ Len(feed') = Len(feed) + 1 /\ Len(feed) \in Nat
<1>1. feed' = Append(feed, price)
  BY DEF TickComes
<1> QED
  BY <1>1, AppendProperties, LenProperties

\* Every step keeps the types of the process's own variables.
LEMMA ProcessTypedStep == ProcessTyped /\ [Next]_runnerVars => ProcessTyped'
<1> SUFFICES ASSUME ProcessTyped, [Next]_runnerVars PROVE ProcessTyped'
  OBVIOUS
<1>0. Len(feed) \in Nat /\ Len(log) \in Nat
  BY LenProperties DEF ProcessTyped
<1>1. CASE UNCHANGED runnerVars
  BY <1>1 DEF runnerVars, graphVars, runVars, ProcessTyped
<1>2. ASSUME NEW c, ReadConnection(c) PROVE ProcessTyped'
  BY <1>2 DEF ReadConnection, runVars, ProcessTyped
<1>3. CASE NoGraph
  BY <1>3 DEF NoGraph, UseFixedStrategy, ProcessTyped
<1>4. CASE LoadGraph
  <2>1. source' \in Sources \cup {NoSource} /\ phase' = "run" /\ phase = "read"
    <3>1. source' = NoSource \/ source' = source
      BY <1>4 DEF LoadGraph, UseFixedStrategy
    <3> QED
      BY <1>4, <3>1 DEF LoadGraph, ProcessTyped
  <2>2. position' = position /\ feed' = feed /\ log' = log
    BY <1>4 DEF LoadGraph
  <2> QED
    BY <2>1, <2>2 DEF ProcessTyped
<1>5. ASSUME NEW price \in TickPrices, RunFixed(price) PROVE ProcessTyped'
  <2>1. PICK side : Trade(side)
    BY <1>5 DEF RunFixed
  <2>2. /\ position' \in Int /\ WithinLimit(position') /\ \E S : log' \in Seq(S)
        /\ Len(log') = Len(log) + 1
    BY <2>1, TradeTyped DEF ProcessTyped
  <2>3. feed' \in Seq(TickPrices) /\ Len(feed') = Len(feed) + 1
    BY <1>5, TickTyped DEF RunFixed, ProcessTyped
  <2>4. phase = "run" /\ phase' = phase /\ source' = source
    BY <1>5 DEF RunFixed, TickComes, graphVars
  <2> QED
    BY <1>0, <2>2, <2>3, <2>4 DEF ProcessTyped
<1>6. ASSUME NEW price \in TickPrices, RunVm(price) PROVE ProcessTyped'
  <2>1. feed' \in Seq(TickPrices) /\ Len(feed') = Len(feed) + 1
    BY <1>6, TickTyped DEF RunVm, ProcessTyped
  <2>2. phase = "run" /\ source' = source
    BY <1>6 DEF RunVm, TickComes, graphVars
  <2>3. \/ phase' = "panicked" /\ position' = position /\ log' = log
        \/ phase' = phase /\ \E side : Trade(side)
    BY <1>6 DEF RunVm
  <2>4. CASE phase' = "panicked" /\ position' = position /\ log' = log
    BY <1>0, <2>1, <2>2, <2>4 DEF ProcessTyped
  <2>5. CASE phase' = phase /\ \E side : Trade(side)
    <3>1. PICK side : Trade(side)
      BY <2>5
    <3>2. /\ position' \in Int /\ WithinLimit(position') /\ \E S : log' \in Seq(S)
          /\ Len(log') = Len(log) + 1
      BY <3>1, TradeTyped DEF ProcessTyped
    <3> QED
      BY <1>0, <2>1, <2>2, <2>5, <3>2 DEF ProcessTyped
  <2> QED
    BY <2>3, <2>4, <2>5
<1> QED
  BY <1>1, <1>2, <1>3, <1>4, <1>5, <1>6 DEF Next

\* Whatever is read and whatever prices come, the variables keep their types.
LEMMA ProcessIsTyped == Spec => []ProcessTyped
<1>1. Init => ProcessTyped
  <2> SUFFICES ASSUME Init PROVE ProcessTyped
    OBVIOUS
  <2>1. WithinLimit(0)
    BY LimitAssumption DEF WithinLimit
  <2>2. feed = <<>> /\ log = <<>> /\ <<>> \in Seq(TickPrices) /\ <<>> \in Seq({}) /\ Len(<<>>) = 0
    BY EmptySeq DEF Init
  <2> QED
    BY <2>1, <2>2 DEF Init, ProcessTyped
<1> QED
  BY <1>1, ProcessTypedStep, PTL DEF Spec

\* What the strategy process holds has its type, its buffers never outgrow their
\* capacity, the composite strategy traded at a tick it has seen, and the position
\* it intends is within the limit.
THEOREM ProcessTypeCorrect == Spec => []TypeOK
<1>1. ProcessTyped /\ CooldownInv /\ BuffersInv /\ SumsInv => TypeOK
  <2> SUFFICES ASSUME ProcessTyped, CooldownInv, BuffersInv, SumsInv PROVE TypeOK
    OBVIOUS
  <2>1. /\ momentumBuf \in Seq(Nat) /\ window \in Seq(Nat)
        /\ Len(momentumBuf) = IF Len(Prices) < Lookback + 1 THEN Len(Prices) ELSE Lookback + 1
        /\ Len(window) = IF Len(Prices) < Window THEN Len(Prices) ELSE Window
    BY DEF BuffersInv, Latest
  <2>2. Len(momentumBuf) <= Lookback + 1 /\ Len(window) <= Window
    <3>1. Prices \in Seq(Nat)
      BY PricesType DEF BuffersInv, Prices
    <3>2. Len(Prices) \in Nat /\ Lookback \in Nat /\ Window \in Nat
      BY <3>1, ConfigAssumption, LenProperties
    <3> QED
      BY <2>1, <3>2
  <2>3. windowSum \in Nat /\ windowSumSq \in Nat
    <3>1. window \in Seq(Int) /\ DOMAIN window = 1..Len(window)
          /\ \A i \in DOMAIN window : window[i] \in Nat
      BY <2>1, NaturalsAreIntegers, LenProperties, ElementOfSeq
    <3>2. /\ Squares(window) \in Seq(Int) /\ Len(Squares(window)) = Len(window)
          /\ \A i \in 1..Len(window) : Squares(window)[i] = window[i] * window[i]
      BY <2>1, SquaresType
    <3>3. DOMAIN Squares(window) = 1..Len(window)
      BY <3>2, LenProperties
    <3>4. \A i \in DOMAIN Squares(window) : Squares(window)[i] \in Nat
      BY <3>1, <3>2, <3>3
    <3> DEFINE q == Squares(window)
    <3> HIDE DEF q
    <3>5. SumFunction(window) \in Nat /\ SumFunction(q) \in Nat
      BY <3>1, <3>2, <3>4, SequenceSum, SumNatural DEF q
    <3> QED
      BY <3>5 DEF SumsInv, q
  <2>4. /\ lastSide \in Sides \cup {"none"} /\ lastTradeTick \in 0..ticksSeen
        /\ lastTradeTick = 0 <=> lastSide = "none"
    BY DEF CooldownInv, LastTradeKnown, Sides
  <2> QED
    BY <2>1, <2>2, <2>3, <2>4 DEF ProcessTyped, TypeOK
<1>2. Spec => [](CooldownInv /\ BuffersInv /\ SumsInv)
  BY RunsComposite, CooldownInvariant, BuffersHoldLatest, SumsFollowWindow, PTL
<1> QED
  BY <1>1, <1>2, ProcessIsTyped, PTL

----------------------------------------------------------------------------
(* Recursion over 0..n, for which no operator is a parameter: a step is a  *)
(* function on the values.                                                 *)

Recurs(f, n, base, step) == f = [i \in 0..n |-> IF i = 0 THEN base ELSE step[i][f[i - 1]]]

\* There is a function that starts at base and goes on by step.
LEMMA RecursionExists ==
  ASSUME NEW V, NEW n \in Nat, NEW base \in V, NEW step \in [1..n -> [V -> V]]
  PROVE  \E f \in [0..n -> V] : Recurs(f, n, base, step)
<1> DEFINE Rec(f, k) == f[0] = base /\ \A i \in 1..k : f[i] = step[i][f[i - 1]]
           X == {k \in Nat : k <= n => \E f \in [0..k -> V] : Rec(f, k)}
<1>1. 0 \in X
  <2> DEFINE f == [i \in 0..0 |-> base]
  <2>1. f \in [0..0 -> V] /\ Rec(f, 0)
    OBVIOUS
  <2> QED
    BY <2>1
<1>2. ASSUME NEW k \in Nat, k \in X PROVE k + 1 \in X
  <2> SUFFICES ASSUME k + 1 <= n PROVE \E f \in [0..(k + 1) -> V] : Rec(f, k + 1)
    OBVIOUS
  <2>1. PICK f \in [0..k -> V] : Rec(f, k)
    BY <1>2
  <2> DEFINE h == [i \in 0..(k + 1) |-> IF i = k + 1 THEN step[k + 1][f[k]] ELSE f[i]]
  <2>2. step[k + 1][f[k]] \in V
    BY <2>1
  <2>3. h \in [0..(k + 1) -> V]
    BY <2>1, <2>2
  <2>4. h[0] = base
    BY <2>1
  <2>5. ASSUME NEW i \in 1..(k + 1) PROVE h[i] = step[i][h[i - 1]]
    <3>1. CASE i = k + 1
      BY <3>1
    <3>2. CASE i # k + 1
      <4>1. i \in 1..k /\ h[i] = f[i] /\ h[i - 1] = f[i - 1]
        BY <3>2
      <4> QED
        BY <4>1, <2>1
    <3> QED
      BY <3>1, <3>2
  <2> QED
    BY <2>3, <2>4, <2>5
<1> HIDE DEF X
<1>3. n \in X
  BY <1>1, <1>2, NaturalsIn
<1>4. PICK f \in [0..n -> V] : Rec(f, n)
  BY <1>3 DEF X
<1>5. \A i \in 0..n : f[i] = IF i = 0 THEN base ELSE step[i][f[i - 1]]
  BY <1>4
<1>6. f = [i \in 0..n |-> f[i]]
  BY <1>4
<1>7. [i \in 0..n |-> f[i]] = [i \in 0..n |-> IF i = 0 THEN base ELSE step[i][f[i - 1]]]
  BY <1>5
<1> QED
  BY <1>4, <1>6, <1>7 DEF Recurs

\* Two functions start alike and go on by the same steps.
Alike(f, h, n) == f[0] = h[0] /\ \A i \in 1..n : f[i - 1] = h[i - 1] => f[i] = h[i]

\* Two functions agree on 0..n.
Same(f, h, n) == \A i \in 0..n : f[i] = h[i]

\* Two functions that start alike and go on by the same steps are the same.
LEMMA RecursionUnique == \A n \in Nat : \A f, h : Alike(f, h, n) => Same(f, h, n)
<1> SUFFICES ASSUME NEW n \in Nat, NEW f, NEW h, Alike(f, h, n) PROVE Same(f, h, n)
  OBVIOUS
<1> DEFINE X == {i \in Nat : i <= n => f[i] = h[i]}
<1>1. 0 \in X
  BY DEF Alike
<1>2. ASSUME NEW i \in Nat, i \in X PROVE i + 1 \in X
  <2> SUFFICES ASSUME i + 1 <= n PROVE f[i + 1] = h[i + 1]
    OBVIOUS
  <2>1. i + 1 \in 1..n /\ (i + 1) - 1 = i /\ i <= n
    OBVIOUS
  <2> QED
    BY <2>1, <1>2 DEF Alike
<1> HIDE DEF X
<1>3. \A i \in Nat : i \in X
  BY <1>1, <1>2, NaturalsIn
<1> QED
  BY <1>3 DEF X, Same

\* A function that starts in a set and stays in it is of that set.
LEMMA RecursionTyped ==
  ASSUME NEW V, NEW n \in Nat, NEW f, f[0] \in V, \A i \in 1..n : f[i - 1] \in V => f[i] \in V
  PROVE  \A i \in 0..n : f[i] \in V
<1> DEFINE X == {i \in Nat : i <= n => f[i] \in V}
<1>1. 0 \in X
  OBVIOUS
<1>2. ASSUME NEW i \in Nat, i \in X PROVE i + 1 \in X
  <2> SUFFICES ASSUME i + 1 <= n PROVE f[i + 1] \in V
    OBVIOUS
  <2>1. i + 1 \in 1..n /\ (i + 1) - 1 = i /\ i <= n
    OBVIOUS
  <2> QED
    BY <2>1, <1>2
<1> HIDE DEF X
<1>3. \A i \in Nat : i \in X
  BY <1>1, <1>2, NaturalsIn
<1> QED
  BY <1>3 DEF X

----------------------------------------------------------------------------
(* What is kept of a sequence *)

\* kept holds, for every prefix of q, what is kept of it.
Keeps(kept, keep, q) ==
  /\ Filtered(keep, q) = kept[Len(q)]
  /\ kept[0] = <<>>
  /\ \A i \in 1..Len(q) : kept[i] = IF keep[i] THEN Append(kept[i - 1], q[i]) ELSE kept[i - 1]

\* The recursion that Filtered is.
LEMMA FilteredUnfolds ==
  ASSUME NEW S, NEW q \in Seq(S), NEW keep
  PROVE  \E kept \in [0..Len(q) -> Seq(S)] : Keeps(kept, keep, q)
<1> DEFINE n == Len(q)
           V == Seq(S)
           Is(h) == h = [i \in 0..n |->
                           IF i = 0 THEN <<>>
                           ELSE IF keep[i] THEN Append(h[i - 1], q[i]) ELSE h[i - 1]]
           step == [i \in 1..n |-> [v \in V |-> IF keep[i] THEN Append(v, q[i]) ELSE v]]
           g == CHOOSE h : Is(h)
<1>1. n \in Nat /\ <<>> \in V /\ \A i \in 1..n : q[i] \in S
  BY LenProperties, ElementOfSeq, EmptySeq
<1>2. \A i \in 1..n, v \in V : (IF keep[i] THEN Append(v, q[i]) ELSE v) \in V
  BY <1>1, AppendProperties
<1>3. step \in [1..n -> [V -> V]]
  BY <1>2
<1>4. \A i \in 1..n, v \in V : step[i][v] = IF keep[i] THEN Append(v, q[i]) ELSE v
  OBVIOUS
<1>5. Filtered(keep, q) = g[n]
  BY DEF Filtered
<1> HIDE DEF step, n, V
<1>6. PICK f \in [0..n -> V] : Recurs(f, n, <<>>, step)
  BY <1>1, <1>3, RecursionExists
<1>7. Is(f)
  <2>1. \A i \in 1..n : f[i - 1] \in V
    BY <1>1, <1>6
  <2>2. \A i \in 1..n : step[i][f[i - 1]] = IF keep[i] THEN Append(f[i - 1], q[i]) ELSE f[i - 1]
    BY <2>1, <1>4
  <2>3. \A i \in 0..n : i = 0 \/ i \in 1..n
    BY <1>1
  <2> QED
    BY <1>6, <2>2, <2>3 DEF Recurs
<1>8. Is(g)
  BY <1>7
<1> HIDE DEF g
<1>9. g[0] = <<>> /\ \A i \in 1..n : g[i] = IF keep[i] THEN Append(g[i - 1], q[i]) ELSE g[i - 1]
  <2>1. 0 \in 0..n /\ \A i \in 1..n : i \in 0..n /\ i # 0
    BY <1>1
  <2> QED
    BY <1>8, <2>1
<1>10. \A i \in 0..n : g[i] \in V
  BY <1>1, <1>2, <1>9, RecursionTyped
<1>11. g \in [0..n -> V]
  BY <1>8, <1>10
<1> QED
  BY <1>5, <1>9, <1>11 DEF n, V, Keeps

\* Of an empty sequence nothing is kept.
LEMMA FilteredEmpty == \A keep : Filtered(keep, <<>>) = <<>>
<1> SUFFICES ASSUME NEW keep PROVE Filtered(keep, <<>>) = <<>>
  OBVIOUS
<1> DEFINE q == <<>>
           S == {}
<1>1. q \in Seq(S) /\ Len(q) = 0
  BY EmptySeq
<1> HIDE DEF q, S
<1>2. PICK kept \in [0..Len(q) -> Seq(S)] : Keeps(kept, keep, q)
  BY <1>1, FilteredUnfolds
<1> QED
  BY <1>1, <1>2 DEF q, Keeps

\* What is appended to a sequence is kept, or not.
LEMMA FilteredAppend ==
  ASSUME NEW S, NEW q \in Seq(S), NEW x \in S, NEW keep, NEW more,
         \A i \in 1..Len(q) : more[i] = keep[i]
  PROVE  /\ Filtered(keep, q) \in Seq(S)
         /\ more[Len(q) + 1] => Filtered(more, Append(q, x)) = Append(Filtered(keep, q), x)
         /\ ~more[Len(q) + 1] => Filtered(more, Append(q, x)) = Filtered(keep, q)
<1> DEFINE n == Len(q)
           w == Append(q, x)
<1>1. n \in Nat /\ w \in Seq(S) /\ Len(w) = n + 1 /\ w[n + 1] = x /\ \A i \in 1..n : w[i] = q[i]
  BY LenProperties, AppendProperties
<1> HIDE DEF w
<1>2. PICK kept \in [0..n -> Seq(S)] : Keeps(kept, keep, q)
  BY FilteredUnfolds
<1>3. PICK all \in [0..(n + 1) -> Seq(S)] : Keeps(all, more, w)
  <2>1. \E all \in [0..Len(w) -> Seq(S)] : Keeps(all, more, w)
    BY <1>1, FilteredUnfolds
  <2> QED
    BY <1>1, <2>1
<1>4. all[n] = kept[n]
  <2>1. ASSUME NEW i \in 1..n, all[i - 1] = kept[i - 1] PROVE all[i] = kept[i]
    <3>1. i \in 1..(n + 1) /\ more[i] = keep[i] /\ w[i] = q[i]
      BY <1>1
    <3> QED
      BY <1>1, <1>2, <1>3, <2>1, <3>1 DEF Keeps
  <2>2. all[0] = kept[0] /\ n \in Nat /\ \A i \in 1..n : all[i - 1] = kept[i - 1] => all[i] = kept[i]
    BY <1>1, <1>2, <1>3, <2>1 DEF Keeps
  <2> HIDE DEF n
  <2>3. Same(all, kept, n)
    BY <2>2, RecursionUnique DEF Alike
  <2> QED
    BY <2>2, <2>3 DEF Same
<1>5. kept[n] \in Seq(S) /\ all[n + 1] = IF more[n + 1] THEN Append(all[n], x) ELSE all[n]
  <2>1. n \in 0..n /\ n + 1 \in 1..Len(w) /\ (n + 1) - 1 = n
    BY <1>1
  <2>2. kept[n] \in Seq(S)
    BY <1>2, <2>1
  <2>3. all[n + 1] = IF more[n + 1] THEN Append(all[n], w[n + 1]) ELSE all[n]
    BY <1>3, <2>1 DEF Keeps
  <2> QED
    BY <1>1, <2>2, <2>3
<1>6. Filtered(keep, q) = kept[n] /\ Filtered(more, w) = all[n + 1]
  BY <1>1, <1>2, <1>3 DEF Keeps
<1> QED
  BY <1>4, <1>5, <1>6 DEF w

----------------------------------------------------------------------------
(* The depth of the stack, and the indicators of a program *)

\* The recursion that Depths is.
LEMMA DepthsUnfolds ==
  ASSUME NEW code \in Seq(Instructions)
  PROVE  /\ Depths(code) \in [0..Len(code) -> Int]
         /\ Depths(code)[0] = 0
         /\ \A i \in 1..Len(code) :
              Depths(code)[i] = Depths(code)[i - 1] - Operands(code[i]) + Results(code[i])
<1> DEFINE n == Len(code)
           Is(h) == h = [i \in 0..n |->
                           IF i = 0 THEN 0 ELSE h[i - 1] - Operands(code[i]) + Results(code[i])]
           step == [i \in 1..n |-> [v \in Int |-> v - Operands(code[i]) + Results(code[i])]]
           g == CHOOSE h : Is(h)
<1>1. n \in Nat
  BY LenProperties
<1>2. \A op : Operands(op) \in Int /\ Results(op) \in Int
  BY DEF Operands, Results
<1>3. step \in [1..n -> [Int -> Int]]
  BY <1>2
<1>4. \A i \in 1..n, v \in Int : step[i][v] = v - Operands(code[i]) + Results(code[i])
  OBVIOUS
<1>5. Depths(code) = g
  BY DEF Depths
<1> HIDE DEF step, n
<1>6. PICK f \in [0..n -> Int] : Recurs(f, n, 0, step)
  <2> DEFINE V == Int
             base == 0
  <2>1. base \in V /\ step \in [1..n -> [V -> V]]
    BY <1>3
  <2> HIDE DEF V, base
  <2>2. \E f \in [0..n -> V] : Recurs(f, n, base, step)
    BY <1>1, <2>1, RecursionExists
  <2> QED
    BY <2>2 DEF V, base
<1>7. Is(f)
  <2>1. \A i \in 1..n : f[i - 1] \in Int
    BY <1>1, <1>6
  <2>2. \A i \in 1..n : step[i][f[i - 1]] = f[i - 1] - Operands(code[i]) + Results(code[i])
    BY <2>1, <1>4
  <2>3. \A i \in 0..n : i = 0 \/ i \in 1..n
    BY <1>1
  <2> QED
    BY <1>6, <2>2, <2>3 DEF Recurs
<1>8. Is(g)
  BY <1>7
<1> HIDE DEF g
<1>9. g[0] = 0 /\ \A i \in 1..n : g[i] = g[i - 1] - Operands(code[i]) + Results(code[i])
  <2>1. 0 \in 0..n /\ \A i \in 1..n : i \in 0..n /\ i # 0
    BY <1>1
  <2> QED
    BY <1>8, <2>1
<1>10. \A i \in 0..n : g[i] \in Int
  <2>1. ASSUME NEW i \in 1..n, g[i - 1] \in Int PROVE g[i] \in Int
    BY <1>2, <1>9, <2>1
  <2> DEFINE V == Int
  <2>2. g[0] \in V /\ \A i \in 1..n : g[i - 1] \in V => g[i] \in V
    BY <1>9, <2>1
  <2> HIDE DEF V
  <2>3. \A i \in 0..n : g[i] \in V
    BY <1>1, <2>2, RecursionTyped
  <2> QED
    BY <2>3 DEF V
<1>11. g \in [0..n -> Int]
  BY <1>8, <1>10
<1> QED
  BY <1>5, <1>9, <1>11 DEF n

\* The depth after a prefix of a program is the depth after that program.
LEMMA DepthsOfPrefix ==
  ASSUME NEW code \in Seq(Instructions), NEW more \in Seq(Instructions), Len(code) <= Len(more),
         \A i \in 1..Len(code) : more[i] = code[i]
  PROVE  \A i \in 0..Len(code) : Depths(more)[i] = Depths(code)[i]
<1> DEFINE n == Len(code)
           d == Depths(code)
           e == Depths(more)
<1>1. n \in Nat /\ Len(more) \in Nat
  BY LenProperties
<1>2. d[0] = 0 /\ \A i \in 1..n : d[i] = d[i - 1] - Operands(code[i]) + Results(code[i])
  BY DepthsUnfolds
<1>3. e[0] = 0 /\ \A i \in 1..Len(more) : e[i] = e[i - 1] - Operands(more[i]) + Results(more[i])
  BY DepthsUnfolds
<1> HIDE DEF d, e
<1>4. ASSUME NEW i \in 1..n, e[i - 1] = d[i - 1] PROVE e[i] = d[i]
  BY <1>1, <1>2, <1>3, <1>4
<1>5. \A i \in 0..n : e[i] = d[i]
  <2>1. n \in Nat /\ e[0] = d[0] /\ \A i \in 1..n : e[i - 1] = d[i - 1] => e[i] = d[i]
    BY <1>1, <1>2, <1>3, <1>4
  <2> HIDE DEF n
  <2>2. Same(e, d, n)
    BY <2>1, RecursionUnique DEF Alike
  <2> QED
    BY <2>1, <2>2 DEF Same
<1> QED
  BY <1>5 DEF d, e

----------------------------------------------------------------------------
(* Programs that find their operands *)

\* How high the stack is at the end of a program.
Height(code) == Depths(code)[Len(code)]

\* Every instruction finds its operands, and a decision leaves nothing behind.
Found(code) ==
  \A i \in 1..Len(code) :
    /\ Operands(code[i]) <= Depths(code)[i - 1]
    /\ code[i].op \in Sides => Depths(code)[i] = 0

\* The indicator states are numbered in program order.
Numbered(code) == \A i \in 1..Len(Stateful(code)) : Stateful(code)[i].slot = i - 1

\* Each indicator counts prices, finds its state, and has it for itself.
Placed(code) ==
  \A i \in 1..Len(code) : code[i].op \in Indicators =>
    /\ code[i].n \in Nat
    /\ code[i].slot + 1 \in 1..Len(Stateful(code)) /\ Stateful(code)[code[i].slot + 1] = code[i]
    /\ \A j \in 1..Len(code) : code[j].op \in Indicators /\ code[j].slot = code[i].slot => j = i

\* What the compiler keeps of the program it is emitting.
Sound(lo) ==
  /\ Found(lo.prog) /\ Height(lo.prog) >= 0 /\ Placed(lo.prog)
  /\ Numbered(lo.prog) /\ Len(Stateful(lo.prog)) = lo.nextSlot

\* What an instruction does to the depth of the stack.
LEMMA HeightAppend ==
  ASSUME NEW code \in Seq(Instructions), NEW op \in Instructions
  PROVE  /\ Height(Append(code, op)) = Height(code) - Operands(op) + Results(op)
         /\ \A i \in 0..Len(code) : Depths(Append(code, op))[i] = Depths(code)[i]
<1> DEFINE n == Len(code)
           w == Append(code, op)
<1>1. n \in Nat /\ w \in Seq(Instructions) /\ Len(w) = n + 1 /\ w[n + 1] = op
      /\ \A i \in 1..n : w[i] = code[i]
  BY LenProperties, AppendProperties
<1> HIDE DEF w
<1>2. \A i \in 0..n : Depths(w)[i] = Depths(code)[i]
  BY <1>1, DepthsOfPrefix
<1>3. Depths(w)[n + 1] = Depths(w)[n] - Operands(w[n + 1]) + Results(w[n + 1])
  <2>1. \A i \in 1..Len(w) : Depths(w)[i] = Depths(w)[i - 1] - Operands(w[i]) + Results(w[i])
    BY <1>1, DepthsUnfolds
  <2>2. n + 1 \in 1..Len(w) /\ (n + 1) - 1 = n
    BY <1>1
  <2> QED
    BY <2>1, <2>2
<1>4. Height(w) = Height(code) - Operands(op) + Results(op)
  BY <1>1, <1>2, <1>3 DEF Height
<1> QED
  BY <1>2, <1>4 DEF w

\* The depth of the stack is an integer.
LEMMA HeightTyped ==
  ASSUME NEW code \in Seq(Instructions)
  PROVE  Height(code) \in Int
<1>1. Len(code) \in 0..Len(code) /\ Depths(code) \in [0..Len(code) -> Int]
  BY LenProperties, DepthsUnfolds
<1> QED
  BY <1>1 DEF Height

\* An instruction that finds its operands at the end of a program.
LEMMA FoundAppend ==
  ASSUME NEW code \in Seq(Instructions), NEW op \in Instructions, Found(code),
         Operands(op) <= Height(code), op.op \in Sides => Height(code) = 1
  PROVE  Found(Append(code, op))
<1> DEFINE n == Len(code)
           w == Append(code, op)
<1>1. n \in Nat /\ Len(w) = n + 1 /\ w[n + 1] = op /\ \A i \in 1..n : w[i] = code[i]
  BY LenProperties, AppendProperties
<1>2. Height(w) = Height(code) - Operands(op) + Results(op)
      /\ \A i \in 0..n : Depths(w)[i] = Depths(code)[i]
  BY HeightAppend
<1>3. op.op \in Sides => Operands(op) = 1 /\ Results(op) = 0
  BY DEF Sides, Operands, Results, Comparisons, Gates
<1> HIDE DEF w
<1> SUFFICES ASSUME NEW i \in 1..Len(w)
             PROVE  Operands(w[i]) <= Depths(w)[i - 1] /\ (w[i].op \in Sides => Depths(w)[i] = 0)
  BY DEF Found, w
<1>4. CASE i = n + 1
  <2>1. Depths(w)[i - 1] = Height(code) /\ Depths(w)[i] = Height(w)
    <3>1. i - 1 = n /\ n \in 0..n /\ i = Len(w)
      BY <1>1, <1>4
    <3> QED
      BY <1>2, <3>1 DEF Height
  <2> QED
    BY <1>1, <1>2, <1>3, <1>4, <2>1
<1>5. CASE i # n + 1
  <2>1. i \in 1..n /\ i \in 0..n /\ i - 1 \in 0..n
    BY <1>1, <1>5
  <2> QED
    BY <1>1, <1>2, <2>1 DEF Found
<1> QED
  BY <1>4, <1>5

\* The indicators of a program that grows.
LEMMA StatefulAppend ==
  ASSUME NEW code \in Seq(Instructions), NEW op \in Instructions
  PROVE  /\ Stateful(code) \in Seq(Instructions)
         /\ op.op \in Indicators => Stateful(Append(code, op)) = Append(Stateful(code), op)
         /\ op.op \notin Indicators => Stateful(Append(code, op)) = Stateful(code)
<1> DEFINE n == Len(code)
           w == Append(code, op)
           keep == [i \in DOMAIN code |-> code[i].op \in Indicators]
           more == [i \in DOMAIN w |-> w[i].op \in Indicators]
<1>1. n \in Nat /\ DOMAIN code = 1..n /\ DOMAIN w = 1..(n + 1) /\ w[n + 1] = op
      /\ \A i \in 1..n : w[i] = code[i]
  BY LenProperties, AppendProperties
<1>2. (\A i \in 1..n : more[i] = keep[i]) /\ more[n + 1] = (op.op \in Indicators)
  BY <1>1
<1>3. Stateful(code) = Filtered(keep, code) /\ Stateful(w) = Filtered(more, w)
  BY DEF Stateful
<1> HIDE DEF keep, more
<1>4. /\ Filtered(keep, code) \in Seq(Instructions)
      /\ more[n + 1] => Filtered(more, w) = Append(Filtered(keep, code), op)
      /\ ~more[n + 1] => Filtered(more, w) = Filtered(keep, code)
  BY <1>2, FilteredAppend
<1> QED
  BY <1>2, <1>3, <1>4

\* The states of a program that grows.
LEMMA PlacedAppend ==
  ASSUME NEW code \in Seq(Instructions), NEW op \in Instructions, Placed(code),
         op.op \in Indicators => op.n \in Nat /\ op.slot = Len(Stateful(code))
  PROVE  Placed(Append(code, op))
<1> DEFINE n == Len(code)
           w == Append(code, op)
           old == Stateful(code)
           new == Stateful(w)
           L == Len(old)
<1>1. n \in Nat /\ Len(w) = n + 1 /\ w[n + 1] = op /\ \A i \in 1..n : w[i] = code[i]
  BY LenProperties, AppendProperties
<1>2. /\ old \in Seq(Instructions)
      /\ op.op \in Indicators => new = Append(old, op)
      /\ op.op \notin Indicators => new = old
  BY StatefulAppend
<1> HIDE DEF w, old, new
<1>3. L \in Nat /\ op.slot \in Nat /\ \A i \in 1..n : code[i].slot \in Nat
  <2>1. L \in Nat
    BY <1>2, LenProperties
  <2>2. \A i \in 1..n : code[i] \in Instructions
    BY ElementOfSeq
  <2> QED
    BY <2>1, <2>2 DEF Instructions
<1>4. \A k \in 1..L : k \in 1..Len(new) /\ new[k] = old[k]
  <2>1. CASE op.op \in Indicators
    BY <1>2, <1>3, <2>1, AppendProperties
  <2>2. CASE op.op \notin Indicators
    BY <1>2, <2>2
  <2> QED
    BY <2>1, <2>2
<1>5. op.op \in Indicators => op.n \in Nat /\ op.slot = L /\ L + 1 \in 1..Len(new) /\ new[L + 1] = op
  BY <1>2, <1>3, AppendProperties DEF old
<1>6. \A i \in 1..n : code[i].op \in Indicators =>
        /\ code[i].n \in Nat
        /\ code[i].slot + 1 \in 1..L /\ old[code[i].slot + 1] = code[i]
        /\ \A j \in 1..n : code[j].op \in Indicators /\ code[j].slot = code[i].slot => j = i
  BY DEF Placed, old
<1> HIDE DEF L, n
<1>7. \A i \in 1..(n + 1) : i \in 1..n \/ i = n + 1
  BY <1>1
<1> SUFFICES ASSUME NEW i \in 1..(n + 1), w[i].op \in Indicators
             PROVE  /\ w[i].n \in Nat
                    /\ w[i].slot + 1 \in 1..Len(new) /\ new[w[i].slot + 1] = w[i]
                    /\ \A j \in 1..(n + 1) : w[j].op \in Indicators /\ w[j].slot = w[i].slot => j = i
  BY <1>1 DEF Placed, w, new
<1>8. CASE i \in 1..n
  <2>1. w[i] = code[i]
    BY <1>1, <1>8
  <2>2. w[i].n \in Nat /\ w[i].slot + 1 \in 1..Len(new) /\ new[w[i].slot + 1] = w[i]
    BY <1>4, <1>6, <1>8, <2>1
  <2>3. ASSUME NEW j \in 1..(n + 1), w[j].op \in Indicators, w[j].slot = w[i].slot PROVE j = i
    <3>1. CASE j \in 1..n
      BY <1>1, <1>6, <1>8, <2>1, <2>3, <3>1
    <3>2. CASE j = n + 1
      <4>1. code[i].slot + 1 \in 1..L /\ op.slot = L
        BY <1>1, <1>5, <1>6, <1>8, <2>1, <2>3, <3>2
      <4>2. code[i].slot = op.slot /\ code[i].slot \in Nat
        BY <1>1, <1>3, <1>8, <2>1, <2>3, <3>2
      <4> QED
        BY <1>3, <4>1, <4>2
    <3> QED
      BY <1>7, <3>1, <3>2
  <2> QED
    BY <2>2, <2>3
<1>9. CASE i = n + 1
  <2>1. w[i] = op /\ op.op \in Indicators /\ op.slot = L
    BY <1>1, <1>5, <1>9
  <2>2. ASSUME NEW j \in 1..(n + 1), w[j].op \in Indicators, w[j].slot = w[i].slot PROVE j = i
    <3>1. CASE j \in 1..n
      <4>1. code[j].slot + 1 \in 1..L /\ code[j].slot = L /\ code[j].slot \in Nat
        BY <1>1, <1>3, <1>6, <2>1, <2>2, <3>1
      <4> QED
        BY <1>3, <4>1
    <3> QED
      BY <1>7, <1>9, <3>1
  <2> QED
    BY <1>5, <2>1, <2>2
<1> QED
  BY <1>7, <1>8, <1>9

\* An empty program.
LEMMA NothingEmitted ==
  Found(<<>>) /\ Height(<<>>) = 0 /\ Numbered(<<>>) /\ Placed(<<>>) /\ Stateful(<<>>) = <<>>
<1> DEFINE code == <<>>
<1>1. code \in Seq(Instructions) /\ Len(code) = 0 /\ DOMAIN code = {}
  BY EmptySeq
<1>2. Stateful(code) = <<>>
  BY FilteredEmpty DEF Stateful
<1> HIDE DEF code
<1>3. Height(code) = 0
  BY <1>1, DepthsUnfolds DEF Height
<1>4. Found(code)
  BY <1>1 DEF Found
<1>5. Numbered(code) /\ Placed(code)
  BY <1>2, <1>1 DEF Numbered, Placed, code
<1> QED
  BY <1>2, <1>3, <1>4, <1>5 DEF code

----------------------------------------------------------------------------
(* What a step of the compiler makes of a lowerer *)

\* An instruction that is no indicator.
LEMMA EmitSound ==
  ASSUME NEW g, NEW lo \in Lowerers(g), NEW op \in Instructions, op.op \notin Indicators
  PROVE  /\ Emit(lo, op) \in Lowerers(g)
         /\ Emit(lo, op).err = lo.err
         /\ lo.err = NoError /\ Sound(lo) /\ Operands(op) <= Height(lo.prog)
            /\ (op.op \in Sides => Height(lo.prog) = 1)
            => /\ Sound(Emit(lo, op))
               /\ Height(Emit(lo, op).prog) = Height(lo.prog) - Operands(op) + Results(op)
<1>1. lo.prog \in Seq(Instructions) /\ Append(lo.prog, op) \in Seq(Instructions)
  BY AppendProperties DEF Lowerers
<1>2. Emit(lo, op) \in Lowerers(g) /\ Emit(lo, op).err = lo.err
  BY <1>1 DEF Emit, Lowerers
<1>3. ASSUME lo.err = NoError, Sound(lo), Operands(op) <= Height(lo.prog),
             op.op \in Sides => Height(lo.prog) = 1
      PROVE  /\ Sound(Emit(lo, op))
             /\ Height(Emit(lo, op).prog) = Height(lo.prog) - Operands(op) + Results(op)
  <2> DEFINE next == Emit(lo, op)
  <2>1. next.prog = Append(lo.prog, op) /\ next.nextSlot = lo.nextSlot
    BY <1>3 DEF Emit, Lowerers
  <2> HIDE DEF next
  <2>2. Found(next.prog)
    BY <1>1, <1>3, <2>1, FoundAppend DEF Sound
  <2>3. Height(next.prog) = Height(lo.prog) - Operands(op) + Results(op)
    BY <1>1, <2>1, HeightAppend
  <2>4. Height(next.prog) >= 0
    <3>1. Height(lo.prog) \in Int /\ Operands(op) \in Int /\ Results(op) \in Nat
      BY <1>1, HeightTyped DEF Operands, Results
    <3> QED
      BY <1>3, <2>3, <3>1
  <2>5. Stateful(next.prog) = Stateful(lo.prog)
    BY <1>1, <2>1, StatefulAppend
  <2>6. Placed(next.prog)
    BY <1>1, <1>3, <2>1, PlacedAppend DEF Sound
  <2> QED
    BY <1>3, <2>1, <2>2, <2>3, <2>4, <2>5, <2>6 DEF Sound, Numbered, next
<1> QED
  BY <1>2, <1>3

\* From one lowerer to a later one the stack has grown by n, and the code is sound.
Grows(lo, next, n) ==
  next.err = NoError =>
    /\ lo.err = NoError
    /\ Sound(lo) => Sound(next) /\ Height(next.prog) = Height(lo.prog) + n

\* An instruction that pushes a value without operands.
LEMMA PushGrows ==
  ASSUME NEW g, NEW lo \in Lowerers(g), NEW op \in Instructions,
         op.op \notin Indicators, Operands(op) = 0, Results(op) = 1
  PROVE  Emit(lo, op) \in Lowerers(g) /\ Grows(lo, Emit(lo, op), 1)
<1>1. Emit(lo, op) \in Lowerers(g) /\ Emit(lo, op).err = lo.err
  BY EmitSound
<1>2. ASSUME lo.err = NoError, Sound(lo)
      PROVE  Sound(Emit(lo, op)) /\ Height(Emit(lo, op).prog) = Height(lo.prog) + 1
  <2>1. Height(lo.prog) \in Int /\ Height(lo.prog) >= 0
    BY <1>2, HeightTyped DEF Sound, Lowerers
  <2>2. op.op \notin Sides
    BY DEF Operands, Sides
  <2>3. Operands(op) <= Height(lo.prog)
    BY <2>1
  <2>4. Sound(Emit(lo, op)) /\ Height(Emit(lo, op).prog) = Height(lo.prog) - 0 + 1
    BY <1>2, <2>2, <2>3, EmitSound
  <2> QED
    BY <2>1, <2>4
<1> QED
  BY <1>1, <1>2 DEF Grows

\* A test or a fold of the two values above those of an earlier lowerer.
LEMMA FoldGrows ==
  ASSUME NEW g, NEW lo \in Lowerers(g), NEW mid \in Lowerers(g), NEW op \in Instructions,
         op.op \in Comparisons \cup Gates, Grows(lo, mid, 2)
  PROVE  Emit(mid, op) \in Lowerers(g) /\ Grows(lo, Emit(mid, op), 1)
<1>0. op.op \notin Indicators /\ Operands(op) = 2 /\ Results(op) = 1 /\ op.op \notin Sides
  BY DEF Comparisons, Gates, Indicators, Operands, Results, Sides
<1>1. Emit(mid, op) \in Lowerers(g) /\ Emit(mid, op).err = mid.err
  BY <1>0, EmitSound
<1>2. ASSUME mid.err = NoError, Sound(lo)
      PROVE  Sound(Emit(mid, op)) /\ Height(Emit(mid, op).prog) = Height(lo.prog) + 1
  <2>1. Height(lo.prog) \in Int /\ Height(lo.prog) >= 0
    BY <1>2, HeightTyped DEF Sound, Lowerers
  <2>2. Sound(mid) /\ Height(mid.prog) = Height(lo.prog) + 2
    BY <1>2 DEF Grows
  <2>3. Operands(op) <= Height(mid.prog)
    BY <1>0, <2>1, <2>2
  <2>4. Sound(Emit(mid, op)) /\ Height(Emit(mid, op).prog) = Height(mid.prog) - 2 + 1
    BY <1>0, <1>2, <2>2, <2>3, EmitSound
  <2> QED
    BY <2>1, <2>2, <2>4
<1> QED
  BY <1>1, <1>2 DEF Grows

\* An indicator takes the next state.
LEMMA IndicatorGrows ==
  ASSUME NEW g, NEW lo \in Lowerers(g), NEW node \in Nodes, node.type \in Indicators, lo.err = NoError
  PROVE  EmitIndicator(lo, node) \in Lowerers(g) /\ Grows(lo, EmitIndicator(lo, node), 1)
<1> DEFINE op == Op(node.type, node.n, lo.nextSlot)
           next == EmitIndicator(lo, node)
<1>1. op \in Instructions /\ op.op \in Indicators /\ op.slot = lo.nextSlot /\ op.n \in Nat
  BY DEF Op, Instructions, OpNames, Nodes, Lowerers
<1>2. Operands(op) = 0 /\ Results(op) = 1 /\ op.op \notin Sides
  BY <1>1 DEF Operands, Results, Indicators, Comparisons, Gates, Sides
<1> HIDE DEF op
<1>3. lo.prog \in Seq(Instructions) /\ Append(lo.prog, op) \in Seq(Instructions) /\ lo.nextSlot \in Nat
  BY <1>1, AppendProperties DEF Lowerers
<1>4. next.prog = Append(lo.prog, op) /\ next.nextSlot = lo.nextSlot + 1 /\ next \in Lowerers(g)
  <2> DEFINE code == Append(lo.prog, op)
  <2>1. Emit(lo, op) = [lo EXCEPT !.prog = code]
    BY DEF Emit
  <2>2. next = [Emit(lo, op) EXCEPT !.nextSlot = @ + 1]
    BY DEF EmitIndicator, op
  <2> HIDE DEF next
  <2>3. code \in Seq(Instructions) /\ lo.nextSlot + 1 \in Nat
    BY <1>3
  <2> HIDE DEF code
  <2>4. next = [lo EXCEPT !.prog = code, !.nextSlot = @ + 1]
    BY <2>1, <2>2 DEF Lowerers
  <2>5. next.prog = code /\ next.nextSlot = lo.nextSlot + 1 /\ next \in Lowerers(g)
    BY <2>3, <2>4 DEF Lowerers
  <2> QED
    BY <2>5 DEF code
<1> HIDE DEF next
<1>5. ASSUME Sound(lo) PROVE Sound(next) /\ Height(next.prog) = Height(lo.prog) + 1
  <2>1. Height(lo.prog) \in Int /\ Height(lo.prog) >= 0
    BY <1>3, <1>5, HeightTyped DEF Sound
  <2>2. Operands(op) <= Height(lo.prog)
    BY <1>2, <2>1
  <2>3. Found(next.prog)
    BY <1>1, <1>2, <1>3, <1>4, <1>5, <2>2, FoundAppend DEF Sound
  <2>4. Height(next.prog) = Height(lo.prog) - 0 + 1
    BY <1>1, <1>2, <1>3, <1>4, HeightAppend
  <2> DEFINE old == Stateful(lo.prog)
             new == Stateful(next.prog)
  <2>5. old \in Seq(Instructions) /\ new = Append(old, op)
    BY <1>1, <1>3, <1>4, StatefulAppend
  <2>6. Len(old) = lo.nextSlot /\ \A i \in 1..Len(old) : old[i].slot = i - 1
    BY <1>5 DEF Sound, Numbered
  <2> HIDE DEF old, new
  <2>7. Len(new) = Len(old) + 1 /\ new[Len(old) + 1] = op /\ \A i \in 1..Len(old) : new[i] = old[i]
    BY <1>1, <2>5, AppendProperties
  <2>8. \A i \in 1..Len(new) : new[i].slot = i - 1
    <3>1. Len(old) \in Nat /\ op.slot = Len(old)
      BY <1>1, <1>3, <2>6
    <3> SUFFICES ASSUME NEW i \in 1..Len(new) PROVE new[i].slot = i - 1
      OBVIOUS
    <3>2. CASE i = Len(old) + 1
      BY <2>7, <3>1, <3>2
    <3>3. CASE i # Len(old) + 1
      <4>1. i \in 1..Len(old)
        BY <2>7, <3>1, <3>3
      <4> QED
        BY <2>6, <2>7, <4>1
    <3> QED
      BY <3>2, <3>3
  <2>9. Placed(next.prog)
    BY <1>1, <1>3, <1>4, <1>5, PlacedAppend DEF Sound
  <2> QED
    BY <1>4, <2>1, <2>3, <2>4, <2>6, <2>7, <2>8, <2>9 DEF Sound, Numbered, old, new
<1> QED
  BY <1>4, <1>5 DEF Grows, next

\* One after the other.
LEMMA GrowsOn ==
  ASSUME NEW g, NEW lo \in Lowerers(g), NEW mid, NEW next, NEW n \in Nat, NEW k \in Nat,
         Grows(lo, mid, n), Grows(mid, next, k)
  PROVE  Grows(lo, next, n + k)
<1>1. Height(lo.prog) \in Int
  BY HeightTyped DEF Lowerers
<1> QED
  BY <1>1 DEF Grows

----------------------------------------------------------------------------
(* Graphs whose connections join known nodes *)

\* A connection runs between nodes that are there.
Known(g) == \A i \in DOMAIN g.connections : Range(g.connections[i]) \subseteq Ids(g)

\* What is kept of a sequence is a sequence of the same.
LEMMA FilteredTyped ==
  ASSUME NEW S, NEW q \in Seq(S), NEW keep
  PROVE  Filtered(keep, q) \in Seq(S)
<1>1. PICK kept \in [0..Len(q) -> Seq(S)] : Keeps(kept, keep, q)
  BY FilteredUnfolds
<1>2. Len(q) \in 0..Len(q)
  BY LenProperties
<1> QED
  BY <1>1, <1>2 DEF Keeps

\* The inputs of a node are nodes.
LEMMA InputsKnown ==
  ASSUME NEW g \in GraphSpecs, Known(g), NEW id
  PROVE  Inputs(g, id) \in Seq(Ids(g))
<1> DEFINE wires == g.connections
           keep == [i \in DOMAIN wires |-> wires[i][2] = id]
           wired == Filtered(keep, wires)
           I == Ids(g)
<1>1. wires \in Seq(STRING \X STRING)
  BY DEF GraphSpecs
<1>2. \A i \in 1..Len(wires) : wires[i] \in I \X I
  <2> SUFFICES ASSUME NEW i \in 1..Len(wires) PROVE wires[i] \in I \X I
    OBVIOUS
  <2>1. wires[i] \in STRING \X STRING /\ i \in DOMAIN wires
    BY <1>1, ElementOfSeq, LenProperties
  <2>2. Range(wires[i]) \subseteq I
    BY <2>1 DEF Known
  <2>3. wires[i][1] \in Range(wires[i]) /\ wires[i][2] \in Range(wires[i])
    BY <2>1 DEF Range
  <2> QED
    BY <2>1, <2>2, <2>3
<1> HIDE DEF wires, I
<1>3. wires \in Seq(I \X I)
  <2>1. Len(wires) \in Nat /\ wires \in [1..Len(wires) -> STRING \X STRING]
    BY <1>1, LenProperties
  <2>2. wires \in [1..Len(wires) -> I \X I]
    BY <1>2, <2>1
  <2> QED
    BY <2>1, <2>2, SeqDef
<1> HIDE DEF keep
<1>4. wired \in Seq(I \X I)
  BY <1>3, FilteredTyped
<1>5. Inputs(g, id) = [i \in DOMAIN wired |-> wired[i][1]]
  BY DEF Inputs, keep, wires
<1> HIDE DEF wired
<1>6. Len(wired) \in Nat /\ DOMAIN wired = 1..Len(wired) /\ \A i \in 1..Len(wired) : wired[i] \in I \X I
  BY <1>4, LenProperties, ElementOfSeq
<1>7. [i \in DOMAIN wired |-> wired[i][1]] \in [1..Len(wired) -> I]
  BY <1>6
<1>8. [i \in DOMAIN wired |-> wired[i][1]] \in Seq(I)
  BY <1>6, <1>7, SeqDef
<1> QED
  BY <1>5, <1>8 DEF I

\* A set of naturals with a bound and a member has a greatest one.
LEMMA GreatestNatural ==
  ASSUME NEW n \in Nat, NEW S \in SUBSET (0..n), S # {}
  PROVE  Max(S) \in S /\ \A i \in S : i <= Max(S)
<1> DEFINE X == {k \in Nat : k <= n => (S \cap 0..k # {} => \E m \in S \cap 0..k : \A i \in S \cap 0..k : i <= m)}
<1>1. 0 \in X
  OBVIOUS
<1>2. ASSUME NEW k \in Nat, k \in X PROVE k + 1 \in X
  <2> SUFFICES ASSUME k + 1 <= n, S \cap 0..(k + 1) # {}
               PROVE  \E m \in S \cap 0..(k + 1) : \A i \in S \cap 0..(k + 1) : i <= m
    OBVIOUS
  <2>1. CASE k + 1 \in S
    <3>1. k + 1 \in S \cap 0..(k + 1) /\ \A i \in S \cap 0..(k + 1) : i <= k + 1
      BY <2>1
    <3> QED
      BY <3>1
  <2>2. CASE k + 1 \notin S
    <3>1. S \cap 0..(k + 1) = S \cap 0..k
      BY <2>2
    <3> QED
      BY <1>2, <3>1
  <2> QED
    BY <2>1, <2>2
<1> HIDE DEF X
<1>3. n \in X
  BY <1>1, <1>2, NaturalsIn
<1>4. S \cap 0..n = S
  OBVIOUS
<1>5. \E m \in S : \A i \in S : i <= m
  BY <1>3, <1>4 DEF X
<1>6. \E m \in S : \A i \in S : m >= i
  BY <1>5
<1> QED
  BY <1>6 DEF Max

\* by_id finds a node of the graph, with that id.
LEMMA NodeFound ==
  ASSUME NEW g \in GraphSpecs, NEW id \in Ids(g)
  PROVE  /\ NodeOf(g, id) \in Nodes
         /\ NodeOf(g, id).id = id
         /\ \E i \in 1..Len(g.nodes) : NodeOf(g, id) = g.nodes[i]
<1> DEFINE S == {i \in DOMAIN g.nodes : g.nodes[i].id = id}
<1>1. g.nodes \in Seq(Nodes)
  BY DEF GraphSpecs
<1>2. Len(g.nodes) \in Nat /\ DOMAIN g.nodes = 1..Len(g.nodes)
  BY <1>1, LenProperties
<1>3. S \in SUBSET (0..Len(g.nodes)) /\ S # {}
  BY <1>2 DEF Ids
<1>4. NodeOf(g, id) = g.nodes[Max(S)]
  BY DEF NodeOf
<1>5. Max(S) \in S
  <2> HIDE DEF S
  <2> QED
    BY <1>2, <1>3, GreatestNatural
<1>6. Max(S) \in 1..Len(g.nodes) /\ g.nodes[Max(S)].id = id
  BY <1>2, <1>5
<1> QED
  BY <1>1, <1>4, <1>6, ElementOfSeq

----------------------------------------------------------------------------
(* The code of a node leaves one value *)

\* What emit_node may be, for the nodes behind a node: it leaves one value.
Emitters(g) ==
  {F \in [Ids(g) -> [Lowerers(g) -> Lowerers(g)]] :
     \A id \in Ids(g), lo \in Lowerers(g) : Grows(lo, F[id][lo], 1)}

\* An error is not sound, and stays.
LEMMA FailTyped ==
  ASSUME NEW g, NEW lo \in Lowerers(g), NEW err \in Errors
  PROVE  Fail(lo, err) \in Lowerers(g) /\ \A n : Grows(lo, Fail(lo, err), n)
<1>1. Fail(lo, err) \in Lowerers(g) /\ Fail(lo, err).err = err
  BY DEF Fail, Lowerers
<1>2. err # NoError
  BY DEF Errors, NoError
<1> QED
  BY <1>1, <1>2 DEF Grows

\* The one input of a condition or a signal.
LEMMA UnaryInputGrows ==
  ASSUME NEW g \in GraphSpecs, Known(g), NEW emit \in Emitters(g), NEW lo \in Lowerers(g), NEW id
  PROVE  /\ EmitUnaryInput(emit, g, lo, id) \in Lowerers(g)
         /\ Grows(lo, EmitUnaryInput(emit, g, lo, id), 1)
<1> DEFINE inputs == Inputs(g, id)
<1>1. inputs \in Seq(Ids(g)) /\ Len(inputs) \in Nat
  BY InputsKnown, LenProperties
<1> HIDE DEF inputs
<1>2. CASE Len(inputs) > 1
  <2>1. EmitUnaryInput(emit, g, lo, id) = Fail(lo, "too_many_inputs")
    BY <1>2 DEF EmitUnaryInput, inputs
  <2>2. "too_many_inputs" \in Errors
    BY DEF Errors
  <2> QED
    BY <2>1, <2>2, FailTyped
<1>3. CASE ~(Len(inputs) > 1) /\ inputs = <<>>
  <2>1. EmitUnaryInput(emit, g, lo, id) = Emit(lo, Const(0))
    BY <1>3 DEF EmitUnaryInput, inputs
  <2>2. /\ Const(0) \in Instructions /\ Const(0).op \notin Indicators
        /\ Operands(Const(0)) = 0 /\ Results(Const(0)) = 1
    BY DEF Const, Op, Instructions, OpNames, Indicators, Operands, Results, Comparisons, Gates
  <2> HIDE DEF Const
  <2> QED
    BY <2>1, <2>2, PushGrows
<1>4. CASE ~(Len(inputs) > 1) /\ inputs # <<>>
  <2>1. EmitUnaryInput(emit, g, lo, id) = emit[inputs[1]][lo]
    BY <1>4 DEF EmitUnaryInput, inputs
  <2>2. inputs[1] \in Ids(g)
    <3>1. Len(inputs) # 0
      BY <1>1, <1>4, EmptySeq
    <3> QED
      BY <1>1, <3>1, ElementOfSeq
  <2> QED
    BY <2>1, <2>2 DEF Emitters
<1> QED
  BY <1>2, <1>3, <1>4

\* A condition: its input, the threshold, and the comparison of the two.
LEMMA ConditionGrows ==
  ASSUME NEW g \in GraphSpecs, Known(g), NEW emit \in Emitters(g), NEW lo \in Lowerers(g),
         NEW node \in Nodes, node.type = "condition"
  PROVE  /\ EmitCondition(emit, g, lo, node) \in Lowerers(g)
         /\ Grows(lo, EmitCondition(emit, g, lo, node), 1)
<1> DEFINE first == EmitUnaryInput(emit, g, lo, node.id)
           both == Emit(first, Const(node.n))
           test == Plain(node.cmp)
<1>1. first \in Lowerers(g) /\ Grows(lo, first, 1)
  BY UnaryInputGrows
<1> HIDE DEF first
<1>2. node.n \in Int /\ node.cmp \in Comparisons
  BY DEF Nodes
<1>3. /\ Const(node.n) \in Instructions /\ Const(node.n).op \notin Indicators
      /\ Operands(Const(node.n)) = 0 /\ Results(Const(node.n)) = 1
  BY <1>2 DEF Const, Op, Instructions, OpNames, Indicators, Operands, Results, Comparisons, Gates
<1>4. both \in Lowerers(g) /\ Grows(first, both, 1)
  BY <1>1, <1>3, PushGrows
<1> HIDE DEF both
<1>5. Grows(lo, both, 1 + 1)
  BY <1>1, <1>4, GrowsOn
<1>6. Grows(lo, both, 2)
  BY <1>5
<1>7. test \in Instructions /\ test.op \in Comparisons \cup Gates
  BY <1>2 DEF Plain, Op, Instructions, OpNames, Comparisons, Gates
<1> HIDE DEF test
<1>8. Emit(both, test) \in Lowerers(g) /\ Grows(lo, Emit(both, test), 1)
  BY <1>4, <1>6, <1>7, FoldGrows
<1> QED
  BY <1>8 DEF EmitCondition, first, both, test

\* The lowerers between the inputs of a gate.
GateSteps(after, emit, g, lo, node) ==
  /\ after[0] = lo
  /\ \A i \in 1..Len(Inputs(g, node.id)) :
       LET next == emit[Inputs(g, node.id)[i]][after[i - 1]]
       IN  after[i] = IF i = 1 THEN next ELSE Emit(next, FoldOf(node))

\* The recursion that EmitGate is.
LEMMA GateUnfolds ==
  ASSUME NEW g \in GraphSpecs, Known(g), NEW emit \in [Ids(g) -> [Lowerers(g) -> Lowerers(g)]],
         NEW lo \in Lowerers(g), NEW node
  PROVE  LET n == Len(Inputs(g, node.id))
         IN  \E after \in [0..n -> Lowerers(g)] :
               /\ GateSteps(after, emit, g, lo, node)
               /\ EmitGate(emit, g, lo, node) = IF n = 0 THEN Emit(lo, Const(0)) ELSE after[n]
<1> DEFINE inputs == Inputs(g, node.id)
           n == Len(inputs)
           V == Lowerers(g)
           F(i, v) == IF i = 1 THEN emit[inputs[i]][v] ELSE Emit(emit[inputs[i]][v], FoldOf(node))
           Is(h) == h = [i \in 0..n |->
                           IF i = 0 THEN lo
                           ELSE LET next == emit[inputs[i]][h[i - 1]]
                                IN  IF i = 1 THEN next ELSE Emit(next, FoldOf(node))]
           step == [i \in 1..n |-> [v \in V |-> F(i, v)]]
           after == CHOOSE h : Is(h)
<1>1. inputs \in Seq(Ids(g)) /\ n \in Nat
  BY InputsKnown, LenProperties
<1>2. \A i \in 1..n, v \in V : F(i, v) \in V
  <2> SUFFICES ASSUME NEW i \in 1..n, NEW v \in V PROVE F(i, v) \in V
    OBVIOUS
  <2>1. inputs[i] \in Ids(g)
    BY <1>1, ElementOfSeq
  <2>2. emit[inputs[i]][v] \in V
    BY <2>1
  <2>3. FoldOf(node) \in Instructions /\ FoldOf(node).op \notin Indicators
    <3>1. FoldOf(node) \in Instructions /\ FoldOf(node).op \in {"and", "or"}
      <4>1. FoldOf(node) = Plain("and") \/ FoldOf(node) = Plain("or")
        BY DEF FoldOf
      <4>2. \A name \in {"and", "or"} : Plain(name) \in Instructions /\ Plain(name).op \in {"and", "or"}
        BY DEF Plain, Op, Instructions, OpNames, Gates
      <4> QED
        BY <4>1, <4>2
    <3> QED
      BY <3>1 DEF Indicators
  <2>4. Emit(emit[inputs[i]][v], FoldOf(node)) \in V
    <3> DEFINE w == emit[inputs[i]][v]
               op == FoldOf(node)
    <3>1. w \in V /\ op \in Instructions /\ op.op \notin Indicators
      BY <2>2, <2>3
    <3> HIDE DEF w, op
    <3>2. Emit(w, op) \in V
      BY <3>1, EmitSound
    <3> QED
      BY <3>2 DEF w, op
  <2> QED
    BY <2>2, <2>4
<1>3. step \in [1..n -> [V -> V]]
  BY <1>2
<1>4. \A i \in 1..n, v \in V : step[i][v] = F(i, v)
  OBVIOUS
<1>5. inputs = <<>> <=> n = 0
  BY <1>1, EmptySeq
<1>6. EmitGate(emit, g, lo, node) = IF inputs = <<>> THEN Emit(lo, Const(0)) ELSE after[n]
  BY DEF EmitGate
<1> HIDE DEF step, n, V
<1>7. PICK f \in [0..n -> V] : Recurs(f, n, lo, step)
  <2>1. lo \in V
    BY DEF V
  <2> QED
    BY <1>1, <1>3, <2>1, RecursionExists
<1>8. Is(f)
  <2>1. \A i \in 1..n : f[i - 1] \in V
    BY <1>1, <1>7
  <2>2. \A i \in 1..n : step[i][f[i - 1]] = F(i, f[i - 1])
    BY <2>1, <1>4
  <2>3. \A i \in 0..n : i = 0 \/ i \in 1..n
    BY <1>1
  <2> QED
    BY <1>7, <2>2, <2>3 DEF Recurs
<1>9. Is(after)
  BY <1>8
<1> HIDE DEF after
<1>10. after[0] = lo /\ \A i \in 1..n : after[i] = F(i, after[i - 1])
  <2>1. 0 \in 0..n /\ \A i \in 1..n : i \in 0..n /\ i # 0
    BY <1>1
  <2> QED
    BY <1>9, <2>1
<1>11. \A i \in 0..n : after[i] \in V
  <2>1. after[0] \in V
    BY <1>10 DEF V
  <2>2. \A i \in 1..n : after[i - 1] \in V => after[i] \in V
    BY <1>2, <1>10
  <2> QED
    BY <1>1, <2>1, <2>2, RecursionTyped
<1>12. after \in [0..n -> V]
  BY <1>9, <1>11
<1>13. GateSteps(after, emit, g, lo, node)
  BY <1>10 DEF GateSteps, n
<1> QED
  BY <1>5, <1>6, <1>12, <1>13 DEF n, V

\* A gate: its inputs, folded two at a time.
LEMMA GateGrows ==
  ASSUME NEW g \in GraphSpecs, Known(g), NEW emit \in Emitters(g), NEW lo \in Lowerers(g), NEW node
  PROVE  /\ EmitGate(emit, g, lo, node) \in Lowerers(g)
         /\ Grows(lo, EmitGate(emit, g, lo, node), 1)
<1> DEFINE inputs == Inputs(g, node.id)
           n == Len(inputs)
           op == FoldOf(node)
<1>1. inputs \in Seq(Ids(g)) /\ n \in Nat
  BY InputsKnown, LenProperties
<1>2. PICK after \in [0..n -> Lowerers(g)] :
        /\ GateSteps(after, emit, g, lo, node)
        /\ EmitGate(emit, g, lo, node) = IF n = 0 THEN Emit(lo, Const(0)) ELSE after[n]
  BY GateUnfolds DEF Emitters
<1>3. op \in Instructions /\ op.op \in Comparisons \cup Gates
  BY DEF FoldOf, Plain, Op, Instructions, OpNames, Comparisons, Gates
<1>4. /\ Const(0) \in Instructions /\ Const(0).op \notin Indicators
      /\ Operands(Const(0)) = 0 /\ Results(Const(0)) = 1
  BY DEF Const, Op, Instructions, OpNames, Indicators, Operands, Results, Comparisons, Gates
<1> HIDE DEF op
<1> DEFINE X == {i \in Nat : i \in 1..n => Grows(lo, after[i], 1)}
<1>5. 0 \in X
  OBVIOUS
<1>6. ASSUME NEW i \in Nat, i \in X PROVE i + 1 \in X
  <2> SUFFICES ASSUME i + 1 \in 1..n PROVE Grows(lo, after[i + 1], 1)
    OBVIOUS
  <2> DEFINE next == emit[inputs[i + 1]][after[i]]
  <2>1. i \in 0..n /\ (i + 1) - 1 = i /\ after[i] \in Lowerers(g) /\ inputs[i + 1] \in Ids(g)
    BY <1>1, ElementOfSeq
  <2>2. next \in Lowerers(g) /\ Grows(after[i], next, 1)
    BY <2>1 DEF Emitters
  <2>3. after[i + 1] = IF i + 1 = 1 THEN next ELSE Emit(next, op)
    BY <1>2, <2>1 DEF GateSteps, op
  <2> HIDE DEF next
  <2>4. CASE i = 0
    BY <1>2, <2>2, <2>3, <2>4 DEF GateSteps
  <2>5. CASE i # 0
    <3>1. Grows(lo, after[i], 1)
      BY <1>6, <2>1, <2>5
    <3>2. Grows(lo, next, 1 + 1)
      BY <2>1, <2>2, <3>1, GrowsOn
    <3>3. Grows(lo, next, 2)
      BY <3>2
    <3>4. Grows(lo, Emit(next, op), 1)
      BY <1>3, <2>2, <3>3, FoldGrows
    <3> QED
      BY <2>3, <2>5, <3>4
  <2> QED
    BY <2>4, <2>5
<1> HIDE DEF X
<1>7. n \in X
  BY <1>1, <1>5, <1>6, NaturalsIn
<1>8. CASE n = 0
  <2>1. EmitGate(emit, g, lo, node) = Emit(lo, Const(0))
    BY <1>2, <1>8
  <2> HIDE DEF Const
  <2> QED
    BY <1>4, <2>1, PushGrows
<1>9. CASE n # 0
  <2>1. n \in 1..n /\ n \in 0..n
    BY <1>1, <1>9
  <2> QED
    BY <1>2, <1>7, <1>9, <2>1 DEF X
<1> QED
  BY <1>8, <1>9

\* A node and what is behind it.
LEMMA BodyGrows ==
  ASSUME NEW g \in GraphSpecs, Known(g), NEW emit \in Emitters(g), NEW lo \in Lowerers(g),
         lo.err = NoError, NEW id \in Ids(g)
  PROVE  EmitBody(emit, g, lo, id) \in Lowerers(g) /\ Grows(lo, EmitBody(emit, g, lo, id), 1)
<1> DEFINE node == NodeOf(g, id)
           body == EmitBody(emit, g, lo, id)
<1>1. node \in Nodes
  BY NodeFound
<1> HIDE DEF node
<1>2. CASE node.type = "data_source"
  <2> DEFINE op == Plain("price")
  <2>1. body = Emit(lo, op)
    BY <1>2 DEF EmitBody, node, Indicators, GateTypes, Signals, KnownTypes
  <2>2. op \in Instructions /\ op.op \notin Indicators /\ Operands(op) = 0 /\ Results(op) = 1
    BY DEF Plain, Op, Instructions, OpNames, Indicators, Operands, Results, Comparisons, Gates
  <2> HIDE DEF op, body
  <2>3. Emit(lo, op) \in Lowerers(g) /\ Grows(lo, Emit(lo, op), 1)
    BY <2>2, PushGrows
  <2> QED
    BY <2>1, <2>3 DEF body
<1>3. CASE node.type \in Indicators
  <2>1. body = EmitIndicator(lo, node)
    BY <1>3 DEF EmitBody, node, Indicators, GateTypes, Signals, KnownTypes
  <2> QED
    BY <1>1, <1>3, <2>1, IndicatorGrows
<1>4. CASE node.type = "condition"
  <2>1. body = EmitCondition(emit, g, lo, node)
    BY <1>4 DEF EmitBody, node, Indicators, GateTypes, Signals, KnownTypes
  <2> QED
    BY <1>1, <1>4, <2>1, ConditionGrows
<1>5. CASE node.type \in GateTypes
  <2>1. body = EmitGate(emit, g, lo, node)
    BY <1>5 DEF EmitBody, node, Indicators, GateTypes, Signals, KnownTypes
  <2> QED
    BY <2>1, GateGrows
<1>6. CASE node.type \in Signals
  <2>1. body = EmitUnaryInput(emit, g, lo, id)
    BY <1>6 DEF EmitBody, node, Indicators, GateTypes, Signals, KnownTypes
  <2> QED
    BY <2>1, UnaryInputGrows
<1>7. CASE node.type \notin KnownTypes
  <2>1. body = Fail(lo, "unknown_type")
    BY <1>7 DEF EmitBody, node, Indicators, GateTypes, Signals, KnownTypes
  <2>2. "unknown_type" \in Errors
    BY DEF Errors
  <2> QED
    BY <2>1, <2>2, FailTyped
<1> QED
  BY <1>2, <1>3, <1>4, <1>5, <1>6, <1>7 DEF KnownTypes, Indicators

\* What emit_node makes of a lowerer, the calls it makes being emit.
EmitOne(emit, g, id, lo) ==
  IF lo.err # NoError THEN lo
  ELSE IF id \in lo.onStack THEN Fail(lo, "cycle")
  ELSE LeaveNode(EmitBody(emit, g, [lo EXCEPT !.onStack = @ \cup {id}], id), lo)

\* A call of emit_node for a known node leaves one value, if the calls below it do.
LEMMA EmitOneGrows ==
  ASSUME NEW g \in GraphSpecs, Known(g), NEW emit \in Emitters(g), NEW lo \in Lowerers(g), NEW id \in Ids(g)
  PROVE  EmitOne(emit, g, id, lo) \in Lowerers(g) /\ Grows(lo, EmitOne(emit, g, id, lo), 1)
<1>1. CASE lo.err # NoError
  BY <1>1 DEF EmitOne, Grows
<1>2. CASE lo.err = NoError /\ id \in lo.onStack
  <2>1. EmitOne(emit, g, id, lo) = Fail(lo, "cycle") /\ "cycle" \in Errors
    BY <1>2 DEF EmitOne, Errors
  <2> QED
    BY <2>1, FailTyped
<1>3. CASE lo.err = NoError /\ id \notin lo.onStack
  <2> DEFINE entered == [lo EXCEPT !.onStack = @ \cup {id}]
             body == EmitBody(emit, g, entered, id)
             left == LeaveNode(body, lo)
  <2>1. EmitOne(emit, g, id, lo) = left
    BY <1>3 DEF EmitOne
  <2>2. /\ entered \in Lowerers(g) /\ entered.err = NoError
        /\ entered.prog = lo.prog /\ entered.nextSlot = lo.nextSlot
    BY <1>3 DEF Lowerers
  <2> HIDE DEF entered
  <2>3. body \in Lowerers(g) /\ Grows(entered, body, 1)
    BY <2>2, BodyGrows
  <2> HIDE DEF body
  <2>4. /\ left \in Lowerers(g) /\ left.err = body.err
        /\ left.prog = body.prog /\ left.nextSlot = body.nextSlot
    BY <2>3 DEF LeaveNode, Lowerers
  <2> HIDE DEF left
  <2>5. (Sound(entered) <=> Sound(lo)) /\ (Sound(left) <=> Sound(body))
    BY <2>2, <2>4 DEF Sound
  <2>6. Grows(lo, left, 1)
    BY <1>3, <2>2, <2>3, <2>4, <2>5 DEF Grows
  <2> QED
    BY <2>1, <2>4, <2>6
<1> QED
  BY <1>1, <1>2, <1>3

\* A call with no depth left: whatever it is asked for is an error.
NoDepth(g) ==
  [id \in Ids(g) |-> [lo \in Lowerers(g) |-> IF lo.err # NoError THEN lo ELSE Fail(lo, "cycle")]]

\* The calls that may nest one level deeper than emit.
Deeper(emit, g) == [id \in Ids(g) |-> [lo \in Lowerers(g) |-> EmitOne(emit, g, id, lo)]]

\* The calls of emit_node, by what they may still nest.
EmitSteps(f, g) ==
  /\ f[0] = NoDepth(g)
  /\ \A depth \in 1..Len(g.nodes) : f[depth] = Deeper(f[depth - 1], g)

\* Where the recursion ends the compilation fails, so nothing is promised.
LEMMA NoDepthGrows == ASSUME NEW g PROVE NoDepth(g) \in Emitters(g)
<1> DEFINE F == NoDepth(g)
<1>1. ASSUME NEW id \in Ids(g), NEW lo \in Lowerers(g)
      PROVE  F[id][lo] \in Lowerers(g) /\ Grows(lo, F[id][lo], 1)
  <2>1. F[id][lo] = IF lo.err # NoError THEN lo ELSE Fail(lo, "cycle")
    BY DEF NoDepth
  <2>2. "cycle" \in Errors
    BY DEF Errors
  <2> HIDE DEF F
  <2>3. CASE lo.err # NoError
    BY <2>1, <2>3 DEF Grows
  <2>4. CASE lo.err = NoError
    BY <2>1, <2>2, <2>4, FailTyped
  <2> QED
    BY <2>3, <2>4
<1>2. \A id \in Ids(g), lo \in Lowerers(g) :
        (IF lo.err # NoError THEN lo ELSE Fail(lo, "cycle")) \in Lowerers(g)
  BY <1>1 DEF NoDepth
<1>3. F \in [Ids(g) -> [Lowerers(g) -> Lowerers(g)]]
  BY <1>2 DEF NoDepth
<1> QED
  BY <1>1, <1>3 DEF Emitters

\* One more level of calls leaves one value as the levels below it do.
LEMMA DeeperGrows ==
  ASSUME NEW g \in GraphSpecs, Known(g), NEW emit \in Emitters(g)
  PROVE  Deeper(emit, g) \in Emitters(g)
<1>1. \A id \in Ids(g), lo \in Lowerers(g) :
        EmitOne(emit, g, id, lo) \in Lowerers(g) /\ Grows(lo, EmitOne(emit, g, id, lo), 1)
  BY EmitOneGrows
<1>2. Deeper(emit, g) \in [Ids(g) -> [Lowerers(g) -> Lowerers(g)]]
  BY <1>1 DEF Deeper
<1>3. \A id \in Ids(g), lo \in Lowerers(g) : Deeper(emit, g)[id][lo] = EmitOne(emit, g, id, lo)
  BY DEF Deeper
<1> QED
  BY <1>1, <1>2, <1>3 DEF Emitters

\* The recursion that EmitNode is.
LEMMA EmitNodeUnfolds ==
  ASSUME NEW g \in GraphSpecs, Known(g)
  PROVE  \E f \in [0..Len(g.nodes) -> Emitters(g)] : EmitSteps(f, g) /\ EmitNode(g) = f[Len(g.nodes)]
<1> DEFINE n == Len(g.nodes)
           V == Emitters(g)
           I == Ids(g)
           L == Lowerers(g)
           Is(h) == h = [depth \in 0..n |-> [id \in I |-> [lo \in L |->
                      IF lo.err # NoError THEN lo
                      ELSE IF id \in lo.onStack \/ depth = 0 THEN Fail(lo, "cycle")
                      ELSE LeaveNode(EmitBody(h[depth - 1], g, [lo EXCEPT !.onStack = @ \cup {id}], id), lo)]]]
           step == [i \in 1..n |-> [v \in V |-> Deeper(v, g)]]
           emit == CHOOSE h : Is(h)
<1>1. n \in Nat
  BY LenProperties DEF GraphSpecs
<1>2. \A v \in V : Deeper(v, g) \in V
  BY DeeperGrows
<1>3. step \in [1..n -> [V -> V]]
  BY <1>2
<1>4. \A i \in 1..n, v \in V : step[i][v] = Deeper(v, g)
  OBVIOUS
<1>5. EmitNode(g) = emit[n]
  BY DEF EmitNode
<1>6. ASSUME NEW h, NEW i \in 0..n
      PROVE  [id \in I |-> [lo \in L |->
                IF lo.err # NoError THEN lo
                ELSE IF id \in lo.onStack \/ i = 0 THEN Fail(lo, "cycle")
                ELSE LeaveNode(EmitBody(h[i - 1], g, [lo EXCEPT !.onStack = @ \cup {id}], id), lo)]]
             = IF i = 0 THEN NoDepth(g) ELSE Deeper(h[i - 1], g)
  BY DEF NoDepth, Deeper, EmitOne
<1> HIDE DEF step, n, V
<1>7. PICK f \in [0..n -> V] : Recurs(f, n, NoDepth(g), step)
  <2>1. NoDepth(g) \in V
    BY NoDepthGrows DEF V
  <2> QED
    BY <1>1, <1>3, <2>1, RecursionExists
<1>8. f[0] = NoDepth(g) /\ \A i \in 1..n : f[i] = Deeper(f[i - 1], g)
  <2>1. \A i \in 1..n : f[i - 1] \in V
    BY <1>1, <1>7
  <2>2. 0 \in 0..n /\ \A i \in 1..n : i \in 0..n /\ i # 0
    BY <1>1
  <2> QED
    BY <1>4, <1>7, <2>1, <2>2 DEF Recurs
<1>9. Is(f)
  <2>1. \A i \in 0..n : f[i] = IF i = 0 THEN NoDepth(g) ELSE Deeper(f[i - 1], g)
    BY <1>1, <1>8
  <2>2. f = [i \in 0..n |-> IF i = 0 THEN NoDepth(g) ELSE Deeper(f[i - 1], g)]
    BY <1>7, <2>1
  <2> QED
    BY <1>6, <2>2
<1>10. Is(emit)
  BY <1>9
<1> HIDE DEF emit
<1>11. emit[0] = NoDepth(g) /\ \A i \in 1..n : emit[i] = Deeper(emit[i - 1], g)
  <2>1. \A i \in 0..n : emit[i] = IF i = 0 THEN NoDepth(g) ELSE Deeper(emit[i - 1], g)
    BY <1>6, <1>10
  <2>2. 0 \in 0..n /\ \A i \in 1..n : i \in 0..n /\ i # 0
    BY <1>1
  <2> QED
    BY <2>1, <2>2
<1>12. \A i \in 0..n : emit[i] \in V
  <2>1. emit[0] \in V
    BY <1>11, NoDepthGrows DEF V
  <2>2. \A i \in 1..n : emit[i - 1] \in V => emit[i] \in V
    BY <1>2, <1>11
  <2> QED
    BY <1>1, <2>1, <2>2, RecursionTyped
<1>13. emit \in [0..n -> V]
  BY <1>10, <1>12
<1>14. EmitSteps(emit, g)
  BY <1>11 DEF EmitSteps, n
<1> QED
  BY <1>5, <1>13, <1>14 DEF n, V

\* emit_node leaves one value, whichever node it is called for.
LEMMA EmitNodeGrows == ASSUME NEW g \in GraphSpecs, Known(g) PROVE EmitNode(g) \in Emitters(g)
<1>1. PICK f \in [0..Len(g.nodes) -> Emitters(g)] : EmitNode(g) = f[Len(g.nodes)]
  BY EmitNodeUnfolds
<1>2. Len(g.nodes) \in 0..Len(g.nodes)
  BY LenProperties DEF GraphSpecs
<1> QED
  BY <1>1, <1>2

\* Between two terminals the stack is empty.
AtEnd(lo) == lo.err = NoError => Sound(lo) /\ Height(lo.prog) = 0

\* A terminal takes the one value that its input has left.
LEMMA TerminalBalanced ==
  ASSUME NEW g \in GraphSpecs, Known(g), NEW lo \in Lowerers(g), AtEnd(lo), NEW node
  PROVE  EmitTerminal(g, lo, node) \in Lowerers(g) /\ AtEnd(EmitTerminal(g, lo, node))
<1>1. CASE lo.err # NoError \/ node.type \notin Signals
  BY <1>1 DEF EmitTerminal
<1>2. CASE ~(lo.err # NoError \/ node.type \notin Signals)
  <2> DEFINE input == EmitUnaryInput(EmitNode(g), g, lo, node.id)
             op == Plain(IF node.type = "buy_signal" THEN "buy" ELSE "sell")
             next == Emit(input, op)
  <2>1. EmitTerminal(g, lo, node) = next
    BY <1>2 DEF EmitTerminal
  <2>2. input \in Lowerers(g) /\ Grows(lo, input, 1)
    BY EmitNodeGrows, UnaryInputGrows
  <2>3. op \in Instructions /\ op.op \in Sides
    <3>1. op = Plain("buy") \/ op = Plain("sell")
      OBVIOUS
    <3>2. \A name \in {"buy", "sell"} : Plain(name) \in Instructions /\ Plain(name).op \in Sides
      BY DEF Plain, Op, Instructions, OpNames, Sides
    <3> QED
      BY <3>1, <3>2
  <2>4. op.op \notin Indicators /\ Operands(op) = 1 /\ Results(op) = 0
    BY <2>3 DEF Sides, Indicators, Operands, Results, Comparisons, Gates
  <2> HIDE DEF input, op
  <2>5. next \in Lowerers(g) /\ next.err = input.err
    BY <2>2, <2>3, <2>4, EmitSound
  <2>6. ASSUME input.err = NoError PROVE Sound(next) /\ Height(next.prog) = 0
    <3>1. Sound(input) /\ Height(input.prog) = 1
      BY <1>2, <2>2, <2>6 DEF Grows, AtEnd
    <3>2. Sound(next) /\ Height(next.prog) = Height(input.prog) - 1 + 0
      BY <2>2, <2>3, <2>4, <2>6, <3>1, EmitSound
    <3> QED
      BY <3>1, <3>2
  <2> HIDE DEF next
  <2> QED
    BY <2>1, <2>5, <2>6 DEF AtEnd
<1> QED
  BY <1>1, <1>2

\* The lowerers between the nodes of a graph.
CompileSteps(after, g) ==
  /\ after[0] = Start
  /\ \A i \in 1..Len(g.nodes) : after[i] = EmitTerminal(g, after[i - 1], g.nodes[i])

\* The recursion that Compile is.
LEMMA CompileUnfolds ==
  ASSUME NEW g \in GraphSpecs, Known(g)
  PROVE  \E after \in [0..Len(g.nodes) -> {lo \in Lowerers(g) : AtEnd(lo)}] :
           CompileSteps(after, g) /\ Compile(g) = after[Len(g.nodes)]
<1> DEFINE n == Len(g.nodes)
           V == {lo \in Lowerers(g) : AtEnd(lo)}
           Is(h) == h = [i \in 0..n |-> IF i = 0 THEN Start ELSE EmitTerminal(g, h[i - 1], g.nodes[i])]
           step == [i \in 1..n |-> [v \in V |-> EmitTerminal(g, v, g.nodes[i])]]
           after == CHOOSE h : Is(h)
<1>1. n \in Nat
  BY LenProperties DEF GraphSpecs
<1>2. \A i \in 1..n, v \in V : EmitTerminal(g, v, g.nodes[i]) \in V
  BY TerminalBalanced
<1>3. step \in [1..n -> [V -> V]]
  BY <1>2
<1>4. \A i \in 1..n, v \in V : step[i][v] = EmitTerminal(g, v, g.nodes[i])
  OBVIOUS
<1>5. Compile(g) = after[n]
  BY DEF Compile, Known
<1>6. Start \in V
  <2>1. Start \in Lowerers(g)
    BY EmptySeq DEF Start, Lowerers
  <2>2. Len(<<>>) = 0
    OBVIOUS
  <2>3. Sound(Start) /\ Height(Start.prog) = 0
    BY <2>2, NothingEmitted DEF Sound, Start
  <2> QED
    BY <2>1, <2>3 DEF AtEnd
<1> HIDE DEF step, n, V
<1>7. PICK f \in [0..n -> V] : Recurs(f, n, Start, step)
  BY <1>1, <1>3, <1>6, RecursionExists
<1>8. Is(f)
  <2>1. \A i \in 1..n : f[i - 1] \in V
    BY <1>1, <1>7
  <2>2. \A i \in 1..n : step[i][f[i - 1]] = EmitTerminal(g, f[i - 1], g.nodes[i])
    BY <2>1, <1>4
  <2>3. \A i \in 0..n : i = 0 \/ i \in 1..n
    BY <1>1
  <2> QED
    BY <1>7, <2>2, <2>3 DEF Recurs
<1>9. Is(after)
  BY <1>8
<1> HIDE DEF after
<1>10. after[0] = Start /\ \A i \in 1..n : after[i] = EmitTerminal(g, after[i - 1], g.nodes[i])
  <2>1. 0 \in 0..n /\ \A i \in 1..n : i \in 0..n /\ i # 0
    BY <1>1
  <2> QED
    BY <1>9, <2>1
<1>11. \A i \in 0..n : after[i] \in V
  <2>1. after[0] \in V /\ \A i \in 1..n : after[i - 1] \in V => after[i] \in V
    BY <1>2, <1>6, <1>10
  <2> QED
    BY <1>1, <2>1, RecursionTyped
<1>12. after \in [0..n -> V]
  BY <1>9, <1>11
<1>13. CompileSteps(after, g)
  BY <1>10 DEF CompileSteps, n
<1> QED
  BY <1>5, <1>12, <1>13 DEF n, V

\* Whatever is compiled, without an error, is sound and leaves nothing behind.
LEMMA CompiledBalanced ==
  ASSUME NEW g \in GraphSpecs
  PROVE  Compile(g).err = NoError => Known(g) /\ Compile(g) \in Lowerers(g) /\ AtEnd(Compile(g))
<1>1. CASE Known(g)
  <2>1. PICK after \in [0..Len(g.nodes) -> {lo \in Lowerers(g) : AtEnd(lo)}] :
          Compile(g) = after[Len(g.nodes)]
    BY <1>1, CompileUnfolds
  <2>2. Len(g.nodes) \in 0..Len(g.nodes)
    BY LenProperties DEF GraphSpecs
  <2> QED
    BY <1>1, <2>1, <2>2
<1>2. CASE ~Known(g)
  <2>1. Compile(g) = Fail(Start, "unknown_node")
    BY <1>2 DEF Compile, Known
  <2> QED
    BY <2>1 DEF Fail, Start, NoError
<1> QED
  BY <1>1, <1>2

\* The graph that is read is one.
GraphTyped == source \in Sources \cup {NoSource} /\ graph \in GraphSpecs

\* No step lets in a graph of another form: a graph is one of those offered.
LEMMA GraphTypedStep == GraphTyped /\ [Next]_runnerVars => GraphTyped'
<1> SUFFICES ASSUME GraphTyped, [Next]_runnerVars PROVE GraphTyped'
  OBVIOUS
<1>1. GraphOf(NoSource) \in GraphSpecs
  BY EmptySeq DEF GraphOf, NoSource, GraphSpecs
<1>2. ASSUME NEW c \in source.wires, ReadConnection(c) PROVE GraphTyped'
  <2>1. c \in STRING \X STRING
    BY <1>2, SourcesAssumption DEF GraphTyped, NoSource
  <2>2. Append(graph.connections, c) \in Seq(STRING \X STRING)
    BY <2>1, AppendProperties DEF GraphTyped, GraphSpecs
  <2>3. graph' = [graph EXCEPT !.connections = Append(@, c)] /\ source' = source
    BY <1>2 DEF ReadConnection
  <2> QED
    BY <2>2, <2>3 DEF GraphTyped, GraphSpecs
<1>3. CASE NoGraph
  BY <1>1, <1>3 DEF NoGraph, UseFixedStrategy, GraphTyped
<1>4. CASE LoadGraph
  BY <1>1, <1>4 DEF LoadGraph, UseFixedStrategy, GraphTyped
<1>5. ASSUME NEW price, RunFixed(price) \/ RunVm(price) PROVE GraphTyped'
  BY <1>5 DEF RunFixed, RunVm, TickComes, graphVars, GraphTyped
<1>6. CASE UNCHANGED runnerVars
  BY <1>6 DEF runnerVars, graphVars, GraphTyped
<1> QED
  BY <1>2, <1>3, <1>4, <1>5, <1>6 DEF Next

\* What is asked of the compiler is always a graph of the form it is given.
LEMMA GraphsTyped == Spec => []GraphTyped
<1>1. Init => GraphTyped
  BY SourcesAssumption DEF Init, GraphTyped, GraphOf, GraphSpecs
<1> QED
  BY <1>1, GraphTypedStep, PTL DEF Spec

\* src/compiler.rs:109-240: in the code of any graph that compiles, every
\* instruction finds its operands, a terminal leaves the stack empty, and the
\* indicators are numbered in program order, as Vm::new numbers their states.
THEOREM CompilesBalanced == Spec => []ProgramBalanced
<1>1. GraphTyped => ProgramBalanced
  <2> SUFFICES ASSUME graph \in GraphSpecs, Compile(graph).err = NoError
               PROVE  LET lo    == Compile(graph)
                          depth == Depths(lo.prog)
                          slots == Stateful(lo.prog)
                      IN  /\ \A i \in DOMAIN lo.prog :
                               /\ Operands(lo.prog[i]) <= depth[i - 1]
                               /\ lo.prog[i].op \in Sides => depth[i] = 0
                          /\ depth[Len(lo.prog)] = 0
                          /\ \A i \in DOMAIN slots : slots[i].slot = i - 1
    BY DEF GraphTyped, ProgramBalanced
  <2> DEFINE lo == Compile(graph)
  <2>1. lo \in Lowerers(graph) /\ Sound(lo) /\ Height(lo.prog) = 0
    BY CompiledBalanced DEF AtEnd
  <2> HIDE DEF lo
  <2>2. lo.prog \in Seq(Instructions)
    BY <2>1 DEF Lowerers
  <2>3. DOMAIN lo.prog = 1..Len(lo.prog)
    BY <2>2, LenProperties
  <2>4. DOMAIN Stateful(lo.prog) = 1..Len(Stateful(lo.prog))
    <3>1. Op("price", 0, 0) \in Instructions
      BY DEF Op, Instructions, OpNames
    <3>2. Stateful(lo.prog) \in Seq(Instructions)
      BY <2>2, <3>1, StatefulAppend
    <3> QED
      BY <3>2, LenProperties
  <2> QED
    BY <2>1, <2>3, <2>4 DEF Sound, Found, Numbered, Height, lo
<1> QED
  BY <1>1, GraphsTyped, PTL

----------------------------------------------------------------------------
(* Which graphs the compiler accepts *)

\* What is asked of a node behind a signal, apart from what is behind it.
OneInput(g, id) == Len(Inputs(g, id)) <= 1
Allowed(g, id) ==
  /\ NodeOf(g, id).type \in KnownTypes
  /\ NodeOf(g, id).type \in {"condition"} \cup Signals => OneInput(g, id)

\* A holds the pairs of nodes being emitted, and node, for which emit succeeds.
Admits(emit, g, A) ==
  \A id \in Ids(g), lo \in Lowerers(g) :
    lo.err = NoError =>
      /\ emit[id][lo].err = NoError <=> <<lo.onStack, id>> \in A
      /\ emit[id][lo].err = NoError => emit[id][lo].onStack = lo.onStack

\* One step succeeds: from lo to next, or there is an error.
Admitted(lo, next, good) ==
  /\ next.err = NoError <=> good
  /\ next.err = NoError => next.onStack = lo.onStack

\* An instruction that is emitted does not fail.
LEMMA EmitAdmitted ==
  ASSUME NEW g, NEW lo \in Lowerers(g), NEW op
  PROVE  Emit(lo, op).err = lo.err /\ Emit(lo, op).onStack = lo.onStack
BY DEF Emit, Lowerers

\* The inputs of a node, as a set.
LEMMA InputRange ==
  ASSUME NEW g \in GraphSpecs, Known(g), NEW id
  PROVE  /\ Range(Inputs(g, id)) = {Inputs(g, id)[i] : i \in 1..Len(Inputs(g, id))}
         /\ Range(Inputs(g, id)) \subseteq Ids(g)
         /\ Len(Inputs(g, id)) \in Nat
         /\ Inputs(g, id) = <<>> <=> Len(Inputs(g, id)) = 0
<1>1. Inputs(g, id) \in Seq(Ids(g))
  BY InputsKnown
<1> DEFINE inputs == Inputs(g, id)
<1> HIDE DEF inputs
<1>2. DOMAIN inputs = 1..Len(inputs) /\ Len(inputs) \in Nat /\ \A i \in 1..Len(inputs) : inputs[i] \in Ids(g)
  BY <1>1, LenProperties, ElementOfSeq DEF inputs
<1>3. inputs = <<>> <=> Len(inputs) = 0
  BY <1>1, EmptySeq DEF inputs
<1> QED
  BY <1>2, <1>3 DEF Range, inputs

\* The one input of a condition or a signal.
LEMMA UnaryInputAdmitted ==
  ASSUME NEW g \in GraphSpecs, Known(g), NEW emit \in Emitters(g), NEW A, Admits(emit, g, A),
         NEW lo \in Lowerers(g), lo.err = NoError, NEW id
  PROVE  Admitted(lo, EmitUnaryInput(emit, g, lo, id),
                  OneInput(g, id) /\ \A r \in Range(Inputs(g, id)) : <<lo.onStack, r>> \in A)
<1> DEFINE inputs == Inputs(g, id)
           next == EmitUnaryInput(emit, g, lo, id)
<1>1. /\ Range(inputs) = {inputs[i] : i \in 1..Len(inputs)}
      /\ Range(inputs) \subseteq Ids(g)
      /\ Len(inputs) \in Nat
      /\ inputs = <<>> <=> Len(inputs) = 0
  BY InputRange
<1> HIDE DEF inputs
<1>2. CASE Len(inputs) > 1
  <2>1. next = Fail(lo, "too_many_inputs")
    BY <1>2 DEF EmitUnaryInput, inputs
  <2>2. next.err # NoError
    BY <2>1 DEF Fail, Lowerers, NoError
  <2>3. ~OneInput(g, id)
    BY <1>1, <1>2 DEF OneInput, inputs
  <2> QED
    BY <2>2, <2>3 DEF Admitted
<1>3. CASE Len(inputs) = 0
  <2>1. next = Emit(lo, Const(0))
    BY <1>1, <1>3 DEF EmitUnaryInput, inputs
  <2>2. next.err = NoError /\ next.onStack = lo.onStack
    BY <2>1, EmitAdmitted
  <2>3. OneInput(g, id) /\ Range(inputs) = {}
    BY <1>1, <1>3 DEF OneInput, inputs
  <2> QED
    BY <2>2, <2>3 DEF Admitted, inputs
<1>4. CASE Len(inputs) = 1
  <2>1. next = emit[inputs[1]][lo]
    BY <1>1, <1>4 DEF EmitUnaryInput, inputs
  <2>2. Range(inputs) = {inputs[1]} /\ inputs[1] \in Ids(g) /\ OneInput(g, id)
    BY <1>1, <1>4 DEF OneInput, inputs
  <2>3. /\ next.err = NoError <=> <<lo.onStack, inputs[1]>> \in A
        /\ next.err = NoError => next.onStack = lo.onStack
    BY <2>1, <2>2 DEF Admits
  <2> QED
    BY <2>2, <2>3 DEF Admitted, inputs
<1>5. Len(inputs) > 1 \/ Len(inputs) = 0 \/ Len(inputs) = 1
  <2>1. Len(inputs) \in Nat
    BY <1>1
  <2> DEFINE n == Len(inputs)
  <2> HIDE DEF n
  <2>2. n \in Nat => n > 1 \/ n = 0 \/ n = 1
    OBVIOUS
  <2> QED
    BY <2>1, <2>2 DEF n
<1> QED
  BY <1>2, <1>3, <1>4, <1>5, Zenon

\* A gate and all of its inputs.
LEMMA GateAdmitted ==
  ASSUME NEW g \in GraphSpecs, Known(g), NEW emit \in Emitters(g), NEW A, Admits(emit, g, A),
         NEW lo \in Lowerers(g), lo.err = NoError, NEW node
  PROVE  Admitted(lo, EmitGate(emit, g, lo, node),
                  \A r \in Range(Inputs(g, node.id)) : <<lo.onStack, r>> \in A)
<1> DEFINE inputs == Inputs(g, node.id)
           n == Len(inputs)
           op == FoldOf(node)
           Good(k) == \A i \in 1..k : <<lo.onStack, inputs[i]>> \in A
<1>1. /\ Range(inputs) = {inputs[i] : i \in 1..n}
      /\ n \in Nat
      /\ inputs \in Seq(Ids(g))
  BY InputRange, InputsKnown
<1>2. PICK after \in [0..n -> Lowerers(g)] :
        /\ GateSteps(after, emit, g, lo, node)
        /\ EmitGate(emit, g, lo, node) = IF n = 0 THEN Emit(lo, Const(0)) ELSE after[n]
  BY GateUnfolds DEF Emitters
<1> DEFINE X == {i \in Nat : i <= n => Admitted(lo, after[i], Good(i))}
<1>3. 0 \in X
  BY <1>2 DEF GateSteps, Admitted
<1>4. ASSUME NEW i \in Nat, i \in X PROVE i + 1 \in X
  <2> SUFFICES ASSUME i + 1 <= n PROVE Admitted(lo, after[i + 1], Good(i + 1))
    OBVIOUS
  <2> DEFINE id == inputs[i + 1]
             next == emit[id][after[i]]
  <2>1. i \in 0..n /\ i + 1 \in 1..n /\ (i + 1) - 1 = i /\ after[i] \in Lowerers(g) /\ id \in Ids(g)
    BY <1>1, ElementOfSeq
  <2>2. Admitted(lo, after[i], Good(i))
    BY <1>4, <2>1 DEF Admitted
  <2>3. after[i + 1] = IF i + 1 = 1 THEN next ELSE Emit(next, op)
    BY <1>2, <2>1 DEF GateSteps
  <2>4. next \in Lowerers(g) /\ Grows(after[i], next, 1)
    BY <2>1 DEF Emitters
  <2>5. Good(i + 1) <=> Good(i) /\ <<lo.onStack, id>> \in A
    <3>1. \A k \in 1..(i + 1) : k \in 1..i \/ k = i + 1
      BY <2>1
    <3>2. i + 1 \in 1..(i + 1) /\ \A k \in 1..i : k \in 1..(i + 1)
      BY <2>1
    <3> QED
      BY <3>1, <3>2
  <2> HIDE DEF Good
  <2>6. Admitted(lo, next, Good(i + 1))
    <3>1. CASE after[i].err = NoError
      <4>1. /\ next.err = NoError <=> <<after[i].onStack, id>> \in A
            /\ next.err = NoError => next.onStack = after[i].onStack
        BY <2>1, <3>1 DEF Admits
      <4>2. after[i].onStack = lo.onStack /\ Good(i)
        BY <2>2, <3>1 DEF Admitted
      <4> HIDE DEF next, id
      <4> QED
        BY <2>5, <4>1, <4>2 DEF Admitted
    <3>2. CASE after[i].err # NoError
      <4>1. next.err # NoError
        BY <2>4, <3>2 DEF Grows
      <4>2. ~Good(i)
        BY <2>2, <3>2 DEF Admitted
      <4> HIDE DEF next, id
      <4> QED
        BY <2>5, <4>1, <4>2 DEF Admitted
    <3> QED
      BY <3>1, <3>2
  <2>7. after[i + 1].err = next.err /\ after[i + 1].onStack = next.onStack
    <3> HIDE DEF next, op
    <3>1. Emit(next, op).err = next.err /\ Emit(next, op).onStack = next.onStack
      BY <2>4, EmitAdmitted
    <3> QED
      BY <2>3, <3>1
  <2> HIDE DEF next
  <2> QED
    BY <2>6, <2>7 DEF Admitted
<1> HIDE DEF X
<1>5. n \in X
  BY <1>1, <1>3, <1>4, NaturalsIn
<1>6. Admitted(lo, after[n], Good(n))
  BY <1>1, <1>5 DEF X
<1>7. Good(n) <=> \A r \in Range(inputs) : <<lo.onStack, r>> \in A
  BY <1>1
<1>8. CASE n = 0
  <2>1. Emit(lo, Const(0)).err = NoError /\ Emit(lo, Const(0)).onStack = lo.onStack
    BY EmitAdmitted
  <2>2. Good(n)
    BY <1>8
  <2> HIDE DEF Good
  <2> QED
    BY <1>2, <1>7, <1>8, <2>1, <2>2 DEF Admitted
<1>9. CASE n # 0
  <2> HIDE DEF Good
  <2> QED
    BY <1>2, <1>6, <1>7, <1>9 DEF Admitted
<1> QED
  BY <1>8, <1>9

\* A node is let through if it is allowed and what it reads is let through.
LEMMA BodyAdmitted ==
  ASSUME NEW g \in GraphSpecs, Known(g), NEW emit \in Emitters(g), NEW A, Admits(emit, g, A),
         NEW lo \in Lowerers(g), lo.err = NoError, NEW id \in Ids(g)
  PROVE  Admitted(lo, EmitBody(emit, g, lo, id),
                  Allowed(g, id) /\ \A r \in Reads(g, id) : <<lo.onStack, r>> \in A)
<1> DEFINE node == NodeOf(g, id)
           body == EmitBody(emit, g, lo, id)
           In == Range(Inputs(g, id))
           Passed == \A r \in In : <<lo.onStack, r>> \in A
           Good == Allowed(g, id) /\ \A r \in Reads(g, id) : <<lo.onStack, r>> \in A
<1>1. node \in Nodes /\ node.id = id
  BY NodeFound
<1>2. Reads(g, id) = IF node.type \in {"condition"} \cup GateTypes \cup Signals THEN In ELSE {}
  BY DEF Reads
<1>3. Allowed(g, id) <=> /\ node.type \in KnownTypes
                         /\ node.type \in {"condition"} \cup Signals => OneInput(g, id)
  BY DEF Allowed
<1> SUFFICES Admitted(lo, body, Good)
  OBVIOUS
<1> HIDE DEF node, In
<1>4. CASE node.type = "data_source"
  <2>1. body = Emit(lo, Plain("price"))
    BY <1>4 DEF EmitBody, node, Indicators, GateTypes, Signals, KnownTypes
  <2>2. body.err = NoError /\ body.onStack = lo.onStack
    BY <2>1, EmitAdmitted
  <2>3. Good
    BY <1>2, <1>3, <1>4 DEF KnownTypes, GateTypes, Signals
  <2> QED
    BY <2>2, <2>3 DEF Admitted
<1>5. CASE node.type \in Indicators
  <2>1. body = EmitIndicator(lo, node)
    BY <1>5 DEF EmitBody, node, Indicators, GateTypes, Signals, KnownTypes
  <2>2. body.err = NoError /\ body.onStack = lo.onStack
    <3> DEFINE op == Op(node.type, node.n, lo.nextSlot)
               mid == Emit(lo, op)
    <3>1. body = [mid EXCEPT !.nextSlot = @ + 1]
      BY <2>1 DEF EmitIndicator
    <3>2. mid.err = NoError /\ mid.onStack = lo.onStack
      BY EmitAdmitted
    <3>3. op \in Instructions
      BY <1>1, <1>5 DEF Op, Instructions, OpNames, Nodes, Lowerers, Indicators
    <3> HIDE DEF op, body
    <3>4. mid \in Lowerers(g)
      BY <3>3, AppendProperties DEF Emit, Lowerers
    <3> HIDE DEF mid
    <3> QED
      BY <3>1, <3>2, <3>4 DEF Lowerers
  <2>3. Good
    BY <1>2, <1>3, <1>5 DEF KnownTypes, GateTypes, Signals, Indicators
  <2> QED
    BY <2>2, <2>3 DEF Admitted
<1>6. CASE node.type = "condition"
  <2> DEFINE first == EmitUnaryInput(emit, g, lo, id)
             both == Emit(first, Const(node.n))
             last == Emit(both, Plain(node.cmp))
  <2>1. body = last
    BY <1>1, <1>6 DEF EmitBody, EmitCondition, node, Indicators, GateTypes, Signals, KnownTypes
  <2>2. first \in Lowerers(g)
    BY UnaryInputGrows
  <2>3. Admitted(lo, first, OneInput(g, id) /\ Passed)
    BY UnaryInputAdmitted DEF In
  <2>4. Good <=> OneInput(g, id) /\ Passed
    BY <1>2, <1>3, <1>6 DEF KnownTypes
  <2> HIDE DEF first, body
  <2>5. both \in Lowerers(g) /\ both.err = first.err /\ both.onStack = first.onStack
    <3>1. Const(node.n) \in Instructions /\ Const(node.n).op \notin Indicators
      BY <1>1 DEF Const, Op, Instructions, OpNames, Indicators, Nodes
    <3> QED
      BY <2>2, <3>1, EmitSound, EmitAdmitted
  <2> HIDE DEF both
  <2>6. last.err = both.err /\ last.onStack = both.onStack
    BY <2>5, EmitAdmitted
  <2> HIDE DEF last, Good, Passed
  <2> QED
    BY <2>1, <2>3, <2>4, <2>5, <2>6 DEF Admitted
<1>7. CASE node.type \in GateTypes
  <2>1. body = EmitGate(emit, g, lo, node)
    BY <1>7 DEF EmitBody, node, Indicators, GateTypes, Signals, KnownTypes
  <2>2. Admitted(lo, EmitGate(emit, g, lo, node), \A r \in Range(Inputs(g, node.id)) : <<lo.onStack, r>> \in A)
    BY GateAdmitted
  <2>3. Admitted(lo, body, Passed)
    BY <1>1, <2>1, <2>2 DEF In
  <2>4. Good <=> Passed
    BY <1>2, <1>3, <1>7 DEF KnownTypes, GateTypes, Signals
  <2> HIDE DEF body, Good, Passed
  <2> QED
    BY <2>3, <2>4 DEF Admitted
<1>8. CASE node.type \in Signals
  <2>1. body = EmitUnaryInput(emit, g, lo, id)
    BY <1>8 DEF EmitBody, node, Indicators, GateTypes, Signals, KnownTypes
  <2>2. Admitted(lo, EmitUnaryInput(emit, g, lo, id), OneInput(g, id) /\ Passed)
    BY UnaryInputAdmitted DEF In
  <2>3. Good <=> OneInput(g, id) /\ Passed
    BY <1>2, <1>3, <1>8 DEF KnownTypes, Signals
  <2> HIDE DEF body, Good, Passed
  <2> QED
    BY <2>1, <2>2, <2>3 DEF Admitted
<1>9. CASE node.type \notin KnownTypes
  <2>1. body = Fail(lo, "unknown_type")
    BY <1>9 DEF EmitBody, node, Indicators, GateTypes, Signals, KnownTypes
  <2>2. body.err # NoError
    BY <2>1 DEF Fail, Lowerers, NoError
  <2>3. ~Good
    BY <1>3, <1>9
  <2> QED
    BY <2>2, <2>3 DEF Admitted
<1>10. \/ node.type = "data_source" \/ node.type \in Indicators \/ node.type = "condition"
       \/ node.type \in GateTypes \/ node.type \in Signals \/ node.type \notin KnownTypes
  BY DEF KnownTypes, Indicators
<1> QED
  BY <1>4, <1>5, <1>6, <1>7, <1>8, <1>9, <1>10, Zenon

\* What is let through one call deeper.
Behind(A, g) ==
  {p \in (SUBSET Ids(g)) \X Ids(g) :
     /\ p[2] \notin p[1] /\ Allowed(g, p[2])
     /\ \A r \in Reads(g, p[2]) : <<p[1] \cup {p[2]}, r>> \in A}

\* One more level of calls lets through the nodes that are allowed and read what
\* the levels below let through.
LEMMA DeeperAdmits ==
  ASSUME NEW g \in GraphSpecs, Known(g), NEW emit \in Emitters(g), NEW A, Admits(emit, g, A)
  PROVE  Admits(Deeper(emit, g), g, Behind(A, g))
<1> SUFFICES ASSUME NEW id \in Ids(g), NEW lo \in Lowerers(g), lo.err = NoError
             PROVE  /\ Deeper(emit, g)[id][lo].err = NoError <=> <<lo.onStack, id>> \in Behind(A, g)
                    /\ Deeper(emit, g)[id][lo].err = NoError => Deeper(emit, g)[id][lo].onStack = lo.onStack
  BY DEF Admits
<1> DEFINE next == EmitOne(emit, g, id, lo)
           entered == [lo EXCEPT !.onStack = @ \cup {id}]
           body == EmitBody(emit, g, entered, id)
           S == lo.onStack
<1>1. Deeper(emit, g)[id][lo] = next
  BY DEF Deeper
<1>2. S \in SUBSET Ids(g)
  BY DEF Lowerers
<1>3. <<S, id>> \in Behind(A, g)
      <=> id \notin S /\ Allowed(g, id) /\ \A r \in Reads(g, id) : <<S \cup {id}, r>> \in A
  BY <1>2 DEF Behind
<1>4. CASE id \in S
  <2>1. next = Fail(lo, "cycle")
    BY <1>4 DEF EmitOne
  <2>2. next.err # NoError
    BY <2>1 DEF Fail, Lowerers, NoError
  <2> QED
    BY <1>1, <1>3, <1>4, <2>2
<1>5. CASE id \notin S
  <2>1. next = LeaveNode(body, lo)
    BY <1>5 DEF EmitOne
  <2>2. entered \in Lowerers(g) /\ entered.err = NoError /\ entered.onStack = S \cup {id}
    BY DEF Lowerers
  <2> HIDE DEF entered
  <2>3. Admitted(entered, body, Allowed(g, id) /\ \A r \in Reads(g, id) : <<entered.onStack, r>> \in A)
    BY <2>2, BodyAdmitted
  <2>4. body \in Lowerers(g)
    BY <2>2, BodyGrows
  <2> HIDE DEF body
  <2>5. next.err = body.err /\ next.onStack = S
    BY <2>1, <2>4 DEF LeaveNode, Lowerers
  <2>6. next.err = NoError <=> <<S, id>> \in Behind(A, g)
    BY <1>3, <1>5, <2>2, <2>3, <2>5 DEF Admitted
  <2> HIDE DEF next
  <2> QED
    BY <1>1, <2>5, <2>6
<1> QED
  BY <1>4, <1>5

\* Where the recursion ends nothing is let through.
LEMMA NoDepthAdmits == ASSUME NEW g PROVE Admits(NoDepth(g), g, {})
<1> SUFFICES ASSUME NEW id \in Ids(g), NEW lo \in Lowerers(g), lo.err = NoError
             PROVE  NoDepth(g)[id][lo].err # NoError
  BY DEF Admits
<1>1. NoDepth(g)[id][lo] = Fail(lo, "cycle")
  BY DEF NoDepth
<1> QED
  BY <1>1 DEF Fail, Lowerers, NoError

\* through[d]: what is let through by calls that may nest d deep.
Layers(through, g) ==
  /\ through[0] = {}
  /\ \A d \in 1..Len(g.nodes) : through[d] = Behind(through[d - 1], g)

\* What emit_node lets through.
LEMMA EmitNodeAdmits ==
  ASSUME NEW g \in GraphSpecs, Known(g)
  PROVE  \E through \in [0..Len(g.nodes) -> SUBSET ((SUBSET Ids(g)) \X Ids(g))] :
           Layers(through, g) /\ Admits(EmitNode(g), g, through[Len(g.nodes)])
<1> DEFINE n == Len(g.nodes)
           V == SUBSET ((SUBSET Ids(g)) \X Ids(g))
           step == [i \in 1..n |-> [v \in V |-> Behind(v, g)]]
           none == {}
<1>1. n \in Nat
  BY LenProperties DEF GraphSpecs
<1>2. step \in [1..n -> [V -> V]] /\ none \in V
  BY DEF Behind
<1>3. \A i \in 1..n, v \in V : step[i][v] = Behind(v, g)
  OBVIOUS
<1> HIDE DEF step, V, n, none
<1>4. PICK through \in [0..n -> V] : Recurs(through, n, none, step)
  BY <1>1, <1>2, RecursionExists
<1>5. through[0] = none /\ \A i \in 1..n : through[i] = Behind(through[i - 1], g)
  <2>1. \A i \in 1..n : through[i - 1] \in V
    BY <1>1, <1>4
  <2>2. 0 \in 0..n /\ \A i \in 1..n : i \in 0..n /\ i # 0
    BY <1>1
  <2> QED
    BY <1>3, <1>4, <2>1, <2>2 DEF Recurs
<1>6. PICK f \in [0..n -> Emitters(g)] : EmitSteps(f, g) /\ EmitNode(g) = f[n]
  BY EmitNodeUnfolds DEF n
<1> DEFINE X == {i \in Nat : i <= n => Admits(f[i], g, through[i])}
<1>7. 0 \in X
  BY <1>5, <1>6, NoDepthAdmits DEF EmitSteps, none
<1>8. ASSUME NEW i \in Nat, i \in X PROVE i + 1 \in X
  <2> SUFFICES ASSUME i + 1 <= n PROVE Admits(f[i + 1], g, through[i + 1])
    OBVIOUS
  <2>1. i \in 0..n /\ i + 1 \in 1..n /\ (i + 1) - 1 = i
    BY <1>1
  <2>2. f[i] \in Emitters(g) /\ Admits(f[i], g, through[i])
    BY <1>6, <1>8, <2>1
  <2>3. f[i + 1] = Deeper(f[i], g) /\ through[i + 1] = Behind(through[i], g)
    BY <1>5, <1>6, <2>1 DEF EmitSteps, n
  <2> QED
    BY <2>2, <2>3, DeeperAdmits
<1> HIDE DEF X
<1>9. n \in X
  BY <1>1, <1>7, <1>8, NaturalsIn
<1>10. Admits(EmitNode(g), g, through[n])
  BY <1>1, <1>6, <1>9 DEF X
<1>11. Layers(through, g)
  BY <1>5 DEF Layers, none, n
<1> QED
  BY <1>4, <1>10, <1>11 DEF n, V

\* The graph is accepted exactly when every signal node's input is let through.
LEMMA CompileAdmits ==
  ASSUME NEW g \in GraphSpecs, Known(g), NEW A, Admits(EmitNode(g), g, A)
  PROVE  Compile(g).err = NoError
         <=> \A i \in 1..Len(g.nodes) :
               g.nodes[i].type \in Signals =>
                 /\ OneInput(g, g.nodes[i].id)
                 /\ \A r \in Range(Inputs(g, g.nodes[i].id)) : <<{}, r>> \in A
<1> DEFINE n == Len(g.nodes)
           Ok(i) == g.nodes[i].type \in Signals =>
                      /\ OneInput(g, g.nodes[i].id)
                      /\ \A r \in Range(Inputs(g, g.nodes[i].id)) : <<{}, r>> \in A
           Good(k) == \A i \in 1..k : Ok(i)
<1>1. n \in Nat
  BY LenProperties DEF GraphSpecs
<1>2. PICK after \in [0..n -> {lo \in Lowerers(g) : AtEnd(lo)}] :
        CompileSteps(after, g) /\ Compile(g) = after[n]
  BY CompileUnfolds
<1> DEFINE X == {i \in Nat : i <= n => Admitted(Start, after[i], Good(i))}
<1>3. 0 \in X
  BY <1>2 DEF CompileSteps, Admitted, Start
<1>4. ASSUME NEW i \in Nat, i \in X PROVE i + 1 \in X
  <2> SUFFICES ASSUME i + 1 <= n PROVE Admitted(Start, after[i + 1], Good(i + 1))
    OBVIOUS
  <2> DEFINE lo == after[i]
             node == g.nodes[i + 1]
             next == EmitTerminal(g, lo, node)
  <2>1. i \in 0..n /\ i + 1 \in 1..n /\ (i + 1) - 1 = i /\ i <= n
    BY <1>1
  <2>2. lo \in Lowerers(g) /\ after[i + 1] = next
    BY <1>2, <2>1 DEF CompileSteps
  <2>3. Admitted(Start, lo, Good(i))
    BY <1>4, <2>1 DEF Admitted
  <2>4. Good(i + 1) <=> Good(i) /\ Ok(i + 1)
    <3>1. \A k \in 1..(i + 1) : k \in 1..i \/ k = i + 1
      BY <2>1
    <3>2. i + 1 \in 1..(i + 1) /\ \A k \in 1..i : k \in 1..(i + 1)
      BY <2>1
    <3> HIDE DEF Ok
    <3> QED
      BY <3>1, <3>2
  <2>5. Ok(i + 1) <=> (node.type \in Signals =>
                         /\ OneInput(g, node.id)
                         /\ \A r \in Range(Inputs(g, node.id)) : <<{}, r>> \in A)
    OBVIOUS
  <2>6. Start.onStack = {}
    BY DEF Start
  <2> HIDE DEF Good, Ok, lo, node
  <2>7. CASE lo.err # NoError
    <3>1. next = lo
      BY <2>7 DEF EmitTerminal
    <3> QED
      BY <2>2, <2>3, <2>4, <2>7, <3>1 DEF Admitted
  <2>8. CASE lo.err = NoError /\ node.type \notin Signals
    <3>1. next = lo
      BY <2>8 DEF EmitTerminal
    <3> QED
      BY <2>2, <2>3, <2>4, <2>5, <2>8, <3>1 DEF Admitted
  <2>9. CASE lo.err = NoError /\ node.type \in Signals
    <3> DEFINE input == EmitUnaryInput(EmitNode(g), g, lo, node.id)
               op == Plain(IF node.type = "buy_signal" THEN "buy" ELSE "sell")
               Passed == OneInput(g, node.id) /\ \A r \in Range(Inputs(g, node.id)) : <<lo.onStack, r>> \in A
    <3>1. next = Emit(input, op)
      BY <2>9 DEF EmitTerminal
    <3>2. input \in Lowerers(g)
      BY <2>2, EmitNodeGrows, UnaryInputGrows
    <3>3. Admitted(lo, input, Passed)
      BY <2>2, <2>9, EmitNodeGrows, UnaryInputAdmitted
    <3> HIDE DEF input, op
    <3>4. Emit(input, op).err = input.err /\ Emit(input, op).onStack = input.onStack
      BY <3>2, EmitAdmitted
    <3>5. lo.onStack = {} /\ Good(i)
      BY <2>3, <2>6, <2>9 DEF Admitted
    <3>6. Passed <=> Ok(i + 1)
      BY <2>5, <2>9, <3>5
    <3> HIDE DEF Passed, next
    <3> QED
      BY <2>2, <2>4, <2>6, <3>1, <3>3, <3>4, <3>5, <3>6 DEF Admitted
  <2> QED
    BY <2>7, <2>8, <2>9
<1> HIDE DEF X
<1>5. n \in X
  BY <1>1, <1>3, <1>4, NaturalsIn
<1>6. Admitted(Start, after[n], Good(n))
  BY <1>1, <1>5 DEF X
<1> HIDE DEF Ok
<1>7. Compile(g).err = NoError <=> Good(n)
  BY <1>2, <1>6 DEF Admitted
<1> QED
  BY <1>7 DEF Ok

----------------------------------------------------------------------------
(* What a value is made of *)

\* A set of nodes that has, with a node, what that reads.
Closed(g, T) == T \in SUBSET Ids(g) /\ \A t \in T : Reads(g, t) \subseteq T

\* What a value is made of is in every closed set that it starts in.
LEMMA MadeWithin ==
  ASSUME NEW g, NEW S, NEW T, Closed(g, T), S \subseteq T
  PROVE  MadeOf(g, S) \subseteq T
BY DEF MadeOf, Closed

\* It has what it starts with, and what its nodes read.
LEMMA MadeClosed ==
  ASSUME NEW g \in GraphSpecs, Known(g), NEW S, S \subseteq Ids(g)
  PROVE  S \subseteq MadeOf(g, S) /\ Closed(g, MadeOf(g, S))
<1>1. \A id : Reads(g, id) \subseteq Ids(g)
  BY InputRange DEF Reads
<1>2. S \subseteq MadeOf(g, S)
  BY DEF MadeOf
<1>3. MadeOf(g, S) \in SUBSET Ids(g)
  BY DEF MadeOf
<1>4. ASSUME NEW t \in MadeOf(g, S), NEW r \in Reads(g, t) PROVE r \in MadeOf(g, S)
  <2>1. r \in Ids(g) /\ t \in Ids(g)
    BY <1>1, <1>3
  <2>2. ASSUME NEW T \in SUBSET Ids(g), S \subseteq T /\ \A u \in T : Reads(g, u) \subseteq T
        PROVE  r \in T
    <3>1. t \in T
      BY <2>2 DEF MadeOf
    <3> QED
      BY <2>2, <3>1
  <2> QED
    BY <2>1, <2>2 DEF MadeOf
<1> QED
  BY <1>2, <1>3, <1>4 DEF Closed

\* A graph has as many ids as nodes, or fewer.
LEMMA IdsFinite ==
  ASSUME NEW g \in GraphSpecs
  PROVE  IsFiniteSet(Ids(g)) /\ Cardinality(Ids(g)) <= Len(g.nodes)
         /\ Cardinality(Ids(g)) \in Nat /\ Len(g.nodes) \in Nat
<1> DEFINE n == Len(g.nodes)
           f == [i \in 1..n |-> g.nodes[i].id]
<1>1. n \in Nat /\ DOMAIN g.nodes = 1..n
  BY LenProperties DEF GraphSpecs
<1>2. f \in Surjection(1..n, Ids(g))
  BY <1>1 DEF Ids, Surjection
<1>3. IsFiniteSet(1..n) /\ Cardinality(1..n) = n
  <2> HIDE DEF n
  <2>1. IsFiniteSet(1..n) /\ Cardinality(1..n) = IF 1 > n THEN 0 ELSE n - 1 + 1
    BY <1>1, FS_Interval
  <2> QED
    BY <1>1, <2>1
<1> HIDE DEF f, n
<1>4. IsFiniteSet(Ids(g)) /\ Cardinality(Ids(g)) <= Cardinality(1..n)
  BY <1>2, <1>3, FS_Surjection
<1>5. Cardinality(Ids(g)) \in Nat
  BY <1>4, FS_CardinalityType
<1> QED
  BY <1>1, <1>3, <1>4, <1>5 DEF n

\* Nodes behind a signal are allowed, and no value is made of itself.
Proper(g, used) == \A id \in used : Allowed(g, id) /\ id \notin MadeOf(g, Reads(g, id))

\* What is let through is proper, with all that it is made of.
LEMMA LetThroughIsProper ==
  ASSUME NEW g \in GraphSpecs, Known(g), NEW through, Layers(through, g),
         NEW S, \A r \in S : <<{}, r>> \in through[Len(g.nodes)], S \subseteq Ids(g)
  PROVE  Proper(g, MadeOf(g, S))
<1> DEFINE n == Len(g.nodes)
           Holds(d, B, id) == d \in 0..n /\ B \in SUBSET Ids(g) /\ id \in Ids(g) /\ <<B, id>> \in through[d]
<1>1. n \in Nat
  BY LenProperties DEF GraphSpecs
<1>2. ASSUME NEW d, NEW B, NEW id, Holds(d, B, id)
      PROVE  /\ id \notin B /\ Allowed(g, id)
             /\ \A r \in Reads(g, id) : Holds(d - 1, B \cup {id}, r)
  <2>1. d # 0
    BY <1>2 DEF Layers
  <2>2. d \in 1..n /\ d - 1 \in 0..n
    BY <1>1, <1>2, <2>1
  <2>3. <<B, id>> \in Behind(through[d - 1], g)
    BY <1>2, <2>2 DEF Layers
  <2>4. /\ id \notin B /\ Allowed(g, id)
        /\ \A r \in Reads(g, id) : <<B \cup {id}, r>> \in through[d - 1]
    BY <2>3 DEF Behind
  <2>5. Reads(g, id) \subseteq Ids(g)
    BY InputRange DEF Reads
  <2> QED
    BY <1>2, <2>2, <2>4, <2>5
<1> DEFINE T == {id \in Ids(g) : \E d, B : Holds(d, B, id)}
<1>3. Closed(g, T)
  <2>1. ASSUME NEW t \in T, NEW r \in Reads(g, t) PROVE r \in T
    <3>1. PICK d, B : Holds(d, B, t)
      BY <2>1
    <3>2. Holds(d - 1, B \cup {t}, r)
      BY <1>2, <2>1, <3>1
    <3> QED
      BY <3>2
  <2> HIDE DEF Holds
  <2> QED
    BY <2>1 DEF Closed
<1>4. S \subseteq T
  <2>1. ASSUME NEW r \in S PROVE Holds(n, {}, r)
    <3>1. n \in 0..n /\ {} \in SUBSET Ids(g)
      BY <1>1
    <3>2. r \in Ids(g) /\ <<{}, r>> \in through[n]
      OBVIOUS
    <3> QED
      BY <3>1, <3>2
  <2> HIDE DEF Holds
  <2> QED
    BY <2>1
<1> HIDE DEF T
<1>5. MadeOf(g, S) \subseteq T
  BY <1>3, <1>4, MadeWithin
<1>6. ASSUME NEW id \in T PROVE Allowed(g, id) /\ id \notin MadeOf(g, Reads(g, id))
  <2>1. PICK d, B : Holds(d, B, id)
    BY <1>6 DEF T
  <2>2. Allowed(g, id) /\ \A r \in Reads(g, id) : Holds(d - 1, B \cup {id}, r)
    BY <1>2, <2>1
  <2> DEFINE U == {t \in Ids(g) : \E e, C : id \in C /\ Holds(e, C, t)}
  <2>3. Closed(g, U)
    <3>1. ASSUME NEW t \in U, NEW r \in Reads(g, t) PROVE r \in U
      <4>1. PICK e, C : id \in C /\ Holds(e, C, t)
        BY <3>1
      <4>2. Holds(e - 1, C \cup {t}, r)
        BY <1>2, <3>1, <4>1
      <4> QED
        BY <4>1, <4>2
    <3> HIDE DEF Holds
    <3> QED
      BY <3>1 DEF Closed
  <2>4. Reads(g, id) \subseteq U
    <3>1. \A r \in Reads(g, id) : r \in Ids(g) /\ id \in B \cup {id}
      BY <2>2
    <3> HIDE DEF Holds
    <3> QED
      BY <2>2, <3>1
  <2>5. id \notin U
    BY <1>2
  <2> HIDE DEF U
  <2>6. MadeOf(g, Reads(g, id)) \subseteq U
    BY <2>3, <2>4, MadeWithin
  <2> QED
    BY <2>2, <2>5, <2>6
<1> QED
  BY <1>5, <1>6 DEF Proper

\* What is proper is let through, if the calls may nest as deep as there are nodes.
LEMMA ProperIsLetThrough ==
  ASSUME NEW g \in GraphSpecs, Known(g), NEW through, Layers(through, g),
         NEW S, S \subseteq Ids(g), Proper(g, MadeOf(g, S))
  PROVE  \A r \in S : <<{}, r>> \in through[Len(g.nodes)]
<1> DEFINE n == Len(g.nodes)
           I == Ids(g)
           used == MadeOf(g, S)
           \* The nodes of B lead to id, and with them there is room for the rest.
           Path(d, B, id) ==
             /\ B \in SUBSET I /\ id \in used /\ Cardinality(B) + d >= Cardinality(I)
             /\ \A b \in B : id \in MadeOf(g, Reads(g, b))
           X == {d \in Nat : d <= n => \A B, id : Path(d, B, id) => <<B, id>> \in through[d]}
<1>1. /\ IsFiniteSet(I) /\ Cardinality(I) <= n
      /\ Cardinality(I) \in Nat /\ n \in Nat
  BY IdsFinite
<1>2. \A id : Reads(g, id) \in SUBSET I
  BY InputRange DEF Reads
<1>3. S \subseteq used /\ Closed(g, used)
  BY MadeClosed
<1>4. \A b : Reads(g, b) \subseteq MadeOf(g, Reads(g, b)) /\ Closed(g, MadeOf(g, Reads(g, b)))
  <2> SUFFICES ASSUME NEW b
               PROVE  Reads(g, b) \subseteq MadeOf(g, Reads(g, b)) /\ Closed(g, MadeOf(g, Reads(g, b)))
    OBVIOUS
  <2> DEFINE R == Reads(g, b)
  <2>1. R \subseteq Ids(g)
    BY <1>2
  <2> HIDE DEF R
  <2>2. R \subseteq MadeOf(g, R) /\ Closed(g, MadeOf(g, R))
    BY <2>1, MadeClosed
  <2> QED
    BY <2>2 DEF R
<1> HIDE DEF n, I, used
<1>5. ASSUME NEW d, NEW B, NEW id, Path(d, B, id) PROVE id \notin B /\ id \in I
  <2>1. id \notin MadeOf(g, Reads(g, id))
    BY <1>5 DEF Proper, used
  <2> QED
    BY <1>3, <1>5, <2>1 DEF Closed, I
<1>6. 0 \in X
  <2> SUFFICES ASSUME NEW B, NEW id, Path(0, B, id) PROVE FALSE
    OBVIOUS
  <2>1. B \in SUBSET I /\ Cardinality(B) + 0 >= Cardinality(I)
    OBVIOUS
  <2>2. IsFiniteSet(B) /\ Cardinality(B) <= Cardinality(I) /\ (Cardinality(I) = Cardinality(B) => I = B)
    BY <1>1, <2>1, FS_Subset
  <2>3. Cardinality(B) \in Nat
    BY <2>2, FS_CardinalityType
  <2>4. I = B
    BY <1>1, <2>1, <2>2, <2>3
  <2> QED
    BY <1>5, <2>4
<1>7. ASSUME NEW d \in Nat, d \in X PROVE d + 1 \in X
  <2> SUFFICES ASSUME d + 1 <= n, NEW B, NEW id, Path(d + 1, B, id) PROVE <<B, id>> \in through[d + 1]
    OBVIOUS
  <2>1. through[d + 1] = Behind(through[d], g)
    <3>1. d + 1 \in 1..n /\ (d + 1) - 1 = d
      BY <1>1
    <3> QED
      BY <3>1 DEF Layers, n
  <2>2. id \notin B /\ id \in I /\ B \in SUBSET I
    BY <1>5
  <2>3. Allowed(g, id)
    BY DEF Proper, used
  <2>4. ASSUME NEW r \in Reads(g, id) PROVE <<B \cup {id}, r>> \in through[d]
    <3> DEFINE C == B \cup {id}
    <3>1. C \in SUBSET I
      BY <2>2
    <3>2. r \in used
      BY <1>3, <2>4 DEF Closed
    <3>3. Cardinality(C) + d >= Cardinality(I)
      <4>1. IsFiniteSet(B) /\ Cardinality(B) \in Nat
        BY <1>1, <2>2, FS_Subset, FS_CardinalityType
      <4>2. Cardinality(C) = Cardinality(B) + 1
        BY <2>2, <4>1, FS_AddElement
      <4>3. Cardinality(B) + (d + 1) >= Cardinality(I)
        OBVIOUS
      <4> HIDE DEF C
      <4> QED
        BY <1>1, <4>1, <4>2, <4>3
    <3>4. ASSUME NEW b \in C PROVE r \in MadeOf(g, Reads(g, b))
      <4>1. CASE b \in B
        <5>1. id \in MadeOf(g, Reads(g, b))
          BY <4>1
        <5> QED
          BY <1>4, <2>4, <5>1 DEF Closed
      <4>2. CASE b = id
        BY <1>4, <2>4, <4>2
      <4> QED
        BY <4>1, <4>2
    <3>5. Path(d, C, r)
      BY <3>1, <3>2, <3>3, <3>4
    <3>6. d <= n
      BY <1>1
    <3> HIDE DEF C, Path
    <3>7. <<C, r>> \in through[d]
      BY <1>7, <3>5, <3>6
    <3> QED
      BY <3>7 DEF C
  <2> QED
    BY <2>1, <2>2, <2>3, <2>4 DEF Behind, I
<1> HIDE DEF X
<1>8. n \in X
  BY <1>1, <1>6, <1>7, NaturalsIn
<1> SUFFICES ASSUME NEW r \in S PROVE <<{}, r>> \in through[n]
  BY DEF n
<1>9. Path(n, {}, r)
  <2>1. r \in used /\ {} \in SUBSET I /\ Cardinality({}) = 0
    BY <1>3, FS_EmptySet
  <2>2. Cardinality({}) + n >= Cardinality(I)
    BY <1>1, <2>1
  <2> QED
    BY <2>1, <2>2
<1> HIDE DEF Path
<1> QED
  BY <1>1, <1>8, <1>9 DEF X

\* compile accepts what is well formed but for unread inputs, and nothing else.
LEMMA CompileAccepts ==
  ASSUME NEW g \in GraphSpecs
  PROVE  Compile(g).err = NoError <=> WellFormedBut(g, Unread)
<1>1. CASE ~Known(g)
  <2>1. Compile(g).err # NoError
    BY <1>1, CompiledBalanced
  <2> QED
    BY <1>1, <2>1 DEF WellFormedBut, Known
<1>2. CASE Known(g)
  <2> DEFINE n == Len(g.nodes)
             roots == {g.nodes[i].id : i \in {j \in DOMAIN g.nodes : g.nodes[j].type \in Signals}}
             S == UNION {Range(Inputs(g, r)) : r \in roots}
             used == MadeOf(g, S)
  <2>1. DOMAIN g.nodes = 1..n /\ n \in Nat
    BY LenProperties DEF GraphSpecs
  <2>2. PICK through : Layers(through, g) /\ Admits(EmitNode(g), g, through[n])
    BY <1>2, EmitNodeAdmits
  <2> DEFINE A == through[n]
  <2>3. Compile(g).err = NoError
        <=> \A i \in 1..n : g.nodes[i].type \in Signals =>
              /\ OneInput(g, g.nodes[i].id)
              /\ \A r \in Range(Inputs(g, g.nodes[i].id)) : <<{}, r>> \in A
    <3> HIDE DEF A
    <3>1. Admits(EmitNode(g), g, A)
      BY <2>2 DEF A
    <3> QED
      BY <1>2, <3>1, CompileAdmits
  <2>4. Compile(g).err = NoError
        <=> /\ \A id \in roots : OneInput(g, id)
            /\ \A r \in S : <<{}, r>> \in A
    <3> HIDE DEF A
    <3>1. \A id : id \in roots <=> \E i \in 1..n : g.nodes[i].type \in Signals /\ g.nodes[i].id = id
      BY <2>1
    <3>2. \A r : r \in S <=> \E id \in roots : r \in Range(Inputs(g, id))
      OBVIOUS
    <3> HIDE DEF roots, S
    <3> QED
      BY <2>3, <3>1, <3>2
  <2>5. S \subseteq Ids(g)
    BY <1>2, InputRange
  <2>6. WellFormedBut(g, Unread) <=> (\A id \in roots : OneInput(g, id)) /\ Proper(g, used)
    <3>1. \A type \in KnownTypes :
            type \notin GateTypes \cup Unread <=> type \in {"condition"} \cup Signals
      BY DEF KnownTypes, GateTypes, Signals, Unread, Indicators
    <3>2. \A id : Allowed(g, id) <=>
            /\ NodeOf(g, id).type \in KnownTypes
            /\ NodeOf(g, id).type \notin GateTypes \cup Unread => Len(Inputs(g, id)) <= 1
      BY <3>1 DEF Allowed, OneInput
    <3> QED
      BY <1>2, <3>2 DEF WellFormedBut, Known, OneInput, Proper
  <2> HIDE DEF S, roots
  <2>7. (\A r \in S : <<{}, r>> \in A) <=> Proper(g, used)
    BY <1>2, <2>2, <2>5, LetThroughIsProper, ProperIsLetThrough
  <2> QED
    BY <2>4, <2>6, <2>7
<1> QED
  BY <1>1, <1>2

\* Exempting types only weakens the demand.
LEMMA WellFormedIsExempt ==
  ASSUME NEW g, NEW exempt, WellFormed(g)
  PROVE  WellFormedBut(g, exempt)
<1> DEFINE roots == {g.nodes[i].id : i \in {j \in DOMAIN g.nodes : g.nodes[j].type \in Signals}}
           used == MadeOf(g, UNION {Range(Inputs(g, r)) : r \in roots})
<1>1. /\ \A i \in DOMAIN g.connections : Range(g.connections[i]) \subseteq Ids(g)
      /\ \A id \in roots : Len(Inputs(g, id)) <= 1
      /\ \A id \in used :
           /\ NodeOf(g, id).type \in KnownTypes
           /\ NodeOf(g, id).type \notin GateTypes \cup {} => Len(Inputs(g, id)) <= 1
           /\ id \notin MadeOf(g, Reads(g, id))
  BY DEF WellFormed, WellFormedBut
<1>2. WellFormedBut(g, exempt) <=>
        /\ \A i \in DOMAIN g.connections : Range(g.connections[i]) \subseteq Ids(g)
        /\ \A id \in roots : Len(Inputs(g, id)) <= 1
        /\ \A id \in used :
             /\ NodeOf(g, id).type \in KnownTypes
             /\ NodeOf(g, id).type \notin GateTypes \cup exempt => Len(Inputs(g, id)) <= 1
             /\ id \notin MadeOf(g, Reads(g, id))
  BY DEF WellFormedBut
<1> HIDE DEF roots, used
<1> QED
  BY <1>1, <1>2

\* src/compiler.rs:133-236: for every graph, compile fails exactly on an unknown
\* end or type, a second input of a condition or a signal, or a value behind a
\* signal that is made of itself; a node that is used twice is not taken for a
\* cycle, and surplus inputs of an indicator or a data source are let pass.
THEOREM AcceptsExactly == Spec => []AcceptsWellFormed
<1>1. GraphTyped => AcceptsWellFormed
  BY CompileAccepts, WellFormedIsExempt DEF GraphTyped, AcceptsWellFormed
<1> QED
  BY <1>1, GraphsTyped, PTL


----------------------------------------------------------------------------
(* A run of a program, instruction by instruction *)

\* The machine before the first instruction.
Fresh(kept) == [stack |-> <<>>, states |-> kept, decision |-> "none", panicked |-> FALSE]

\* A machine that has panicked executes nothing more.
Stepped(m, op, price) == IF m.panicked THEN m ELSE Execute(m, op, price)

\* M[i] is the machine after i instructions.
RunSteps(M, code, kept, price) ==
  /\ M[0] = Fresh(kept)
  /\ \A i \in 1..Len(code) : M[i] = Stepped(M[i - 1], code[i], price)

\* The recursion that Run is.
LEMMA RunUnfolds ==
  ASSUME NEW code \in Seq(Instructions), NEW kept, NEW price
  PROVE  \E M : RunSteps(M, code, kept, price) /\ Run(code, kept, price) = M[Len(code)]
<1> DEFINE n == Len(code)
           Is(M) == M = [i \in 0..n |-> IF i = 0 THEN Fresh(kept)
                                        ELSE Stepped(M[i - 1], code[i], price)]
           Rec(M, k) == /\ M[0] = Fresh(kept)
                        /\ \A i \in 1..k : M[i] = Stepped(M[i - 1], code[i], price)
           X == {k \in Nat : \E M : Rec(M, k)}
           after == CHOOSE M : Is(M)
<1>1. n \in Nat
  BY LenProperties
<1>2. Run(code, kept, price) = after[n]
  BY DEF Run, Stepped, Fresh
<1>3. 0 \in X
  <2> DEFINE M == [i \in 0..0 |-> Fresh(kept)]
  <2>1. Rec(M, 0)
    OBVIOUS
  <2> QED
    BY <2>1
<1>4. ASSUME NEW k \in Nat, k \in X PROVE k + 1 \in X
  <2>1. PICK M : Rec(M, k)
    BY <1>4
  <2> DEFINE one == Stepped(M[k], code[k + 1], price)
             W == [i \in 0..(k + 1) |-> IF i = k + 1 THEN one ELSE M[i]]
  <2>2. W[0] = Fresh(kept)
    BY <2>1
  <2>3. ASSUME NEW i \in 1..(k + 1) PROVE W[i] = Stepped(W[i - 1], code[i], price)
    <3>1. CASE i = k + 1
      <4>1. W[i - 1] = M[k] /\ W[i] = one
        BY <3>1
      <4> QED
        BY <3>1, <4>1
    <3>2. CASE i # k + 1
      <4>1. i \in 1..k /\ W[i] = M[i] /\ W[i - 1] = M[i - 1]
        BY <3>2
      <4> QED
        BY <2>1, <4>1
    <3> QED
      BY <3>1, <3>2
  <2> HIDE DEF W
  <2>4. Rec(W, k + 1)
    BY <2>2, <2>3
  <2> QED
    BY <2>4
<1> HIDE DEF X
<1>5. n \in X
  BY <1>1, <1>3, <1>4, NaturalsIn
<1>6. PICK M : Rec(M, n)
  BY <1>5 DEF X
<1> DEFINE whole == [i \in 0..n |-> M[i]]
<1>7. Is(whole)
  <2>1. \A i \in 1..n : whole[i - 1] = M[i - 1]
    BY <1>1
  <2>2. \A i \in 0..n : M[i] = IF i = 0 THEN Fresh(kept)
                                 ELSE Stepped(whole[i - 1], code[i], price)
    BY <1>1, <1>6, <2>1
  <2> QED
    BY <2>2
<1> HIDE DEF whole
<1>8. Is(after)
  BY <1>7
<1> HIDE DEF after
<1>9. after[0] = Fresh(kept) /\ \A i \in 1..n : after[i] = Stepped(after[i - 1], code[i], price)
  <2>1. 0 \in 0..n /\ \A i \in 1..n : i \in 0..n /\ i # 0
    BY <1>1
  <2> QED
    BY <1>8, <2>1
<1> QED
  BY <1>2, <1>9 DEF RunSteps

----------------------------------------------------------------------------
(* The values of a graph, pass by pass *)

\* Before the first pass no node has a value.
FirstPass(g) == [id \in Ids(g) |-> 0]

\* The values a pass makes of those before it.
PassAfter(g, q, values) == [id \in Ids(g) |-> ValueFrom(g, id, q, values)]

\* pass[i]: the values after i passes.
ValueSteps(pass, g, q) ==
  /\ pass[0] = FirstPass(g)
  /\ \A i \in 1..Len(g.nodes) : pass[i] = PassAfter(g, q, pass[i - 1])

\* The recursion that Values is.
LEMMA ValuesUnfold ==
  ASSUME NEW g \in GraphSpecs, NEW q
  PROVE  \E pass : ValueSteps(pass, g, q) /\ Values(g, q) = pass[Len(g.nodes)]
<1> DEFINE n == Len(g.nodes)
           Is(pass) == pass = [i \in 0..n |->
                           [id \in Ids(g) |-> IF i = 0 THEN 0 ELSE ValueFrom(g, id, q, pass[i - 1])]]
           Rec(pass, k) == /\ pass[0] = FirstPass(g)
                        /\ \A i \in 1..k : pass[i] = PassAfter(g, q, pass[i - 1])
           X == {k \in Nat : \E pass : Rec(pass, k)}
           after == CHOOSE pass : Is(pass)
<1>1. n \in Nat
  BY LenProperties DEF GraphSpecs
<1>2. Values(g, q) = after[n]
  BY DEF Values
<1>0. ASSUME NEW pass, NEW i \in 0..n
      PROVE  [id \in Ids(g) |-> IF i = 0 THEN 0 ELSE ValueFrom(g, id, q, pass[i - 1])]
             = IF i = 0 THEN FirstPass(g) ELSE PassAfter(g, q, pass[i - 1])
  BY DEF FirstPass, PassAfter
<1>3. 0 \in X
  <2> DEFINE pass == [i \in 0..0 |-> FirstPass(g)]
  <2>1. Rec(pass, 0)
    OBVIOUS
  <2> QED
    BY <2>1
<1>4. ASSUME NEW k \in Nat, k \in X PROVE k + 1 \in X
  <2>1. PICK pass : Rec(pass, k)
    BY <1>4
  <2> DEFINE one == PassAfter(g, q, pass[k])
             W == [i \in 0..(k + 1) |-> IF i = k + 1 THEN one ELSE pass[i]]
  <2>2. W[0] = FirstPass(g)
    BY <2>1
  <2>3. ASSUME NEW i \in 1..(k + 1) PROVE W[i] = PassAfter(g, q, W[i - 1])
    <3>1. CASE i = k + 1
      <4>1. W[i - 1] = pass[k] /\ W[i] = one
        BY <3>1
      <4> QED
        BY <3>1, <4>1
    <3>2. CASE i # k + 1
      <4>1. i \in 1..k /\ W[i] = pass[i] /\ W[i - 1] = pass[i - 1]
        BY <3>2
      <4> QED
        BY <2>1, <4>1
    <3> QED
      BY <3>1, <3>2
  <2> HIDE DEF W
  <2>4. Rec(W, k + 1)
    BY <2>2, <2>3
  <2> QED
    BY <2>4
<1> HIDE DEF X
<1>5. n \in X
  BY <1>1, <1>3, <1>4, NaturalsIn
<1>6. PICK pass : Rec(pass, n)
  BY <1>5 DEF X
<1> DEFINE whole == [i \in 0..n |-> pass[i]]
<1>7. Is(whole)
  <2>1. \A i \in 1..n : whole[i - 1] = pass[i - 1]
    BY <1>1
  <2>2. \A i \in 0..n : pass[i] = IF i = 0 THEN FirstPass(g)
                                 ELSE PassAfter(g, q, whole[i - 1])
    BY <1>1, <1>6, <2>1
  <2>3. whole = [i \in 0..n |-> IF i = 0 THEN FirstPass(g) ELSE PassAfter(g, q, whole[i - 1])]
    BY <2>2
  <2> HIDE DEF whole
  <2> QED
    BY <2>3, <1>0
<1> HIDE DEF whole
<1>8. Is(after)
  BY <1>7
<1> HIDE DEF after
<1>9. after[0] = FirstPass(g) /\ \A i \in 1..n : after[i] = PassAfter(g, q, after[i - 1])
  <2>1. 0 \in 0..n /\ \A i \in 1..n : i \in 0..n /\ i # 0
    BY <1>1
  <2>2. \A i \in 0..n : after[i] = IF i = 0 THEN FirstPass(g) ELSE PassAfter(g, q, after[i - 1])
    BY <1>0, <1>8
  <2> QED
    BY <2>1, <2>2
<1> QED
  BY <1>2, <1>9 DEF ValueSteps

----------------------------------------------------------------------------
(* What one instruction does to a machine *)

\* A machine has its four fields.
Machine(m) ==
  m = [stack |-> m.stack, states |-> m.states, decision |-> m.decision, panicked |-> m.panicked]

\* An instruction that no machine survives.
Fatal(op) == op.op = "reversion" /\ op.n = 0

\* An instruction that takes nothing from the stack and pushes one value.
Pushes(op) == op.op = "price" \/ op.op = "const" \/ op.op \in Indicators

\* The stack and the decision after an instruction; v is what it pushes, if it
\* takes nothing from the stack.
StackAfter(s, op, v) ==
  IF Pushes(op) THEN Push(s, v)
  ELSE IF op.op \in Comparisons \cup Gates
       THEN Push(Popped(Popped(s)), Combine(op.op, Top(Popped(s)), Top(s)))
  ELSE IF op.op = "not" THEN Push(Popped(s), Bool(Top(s) <= 0))
  ELSE Popped(s)

\* A signal decides if the top of the stack is positive.
DecisionAfter(s, decision, op) == IF op.op \in Sides /\ Top(s) > 0 THEN op.op ELSE decision

\* What an instruction pushes that takes nothing from the stack.
ValueOf(op, kept, price) ==
  IF op.op = "price" THEN One * price
  ELSE IF op.op = "const" THEN op.n
  ELSE StateValue(op, StateNext(op, kept[op.slot + 1], price), price)

\* The indicator states after an instruction.
KeptAfter(op, kept, price) ==
  IF op.op \in Indicators
  THEN [kept EXCEPT ![op.slot + 1] = StateNext(op, kept[op.slot + 1], price)]
  ELSE kept

\* The machine after an instruction that it survives.
Survived(m, op, price) ==
  [stack |-> StackAfter(m.stack, op, ValueOf(op, m.states, price)),
   states |-> KeptAfter(op, m.states, price),
   decision |-> DecisionAfter(m.stack, m.decision, op),
   panicked |-> m.panicked]

\* An instruction is fatal, or does to each field what is said above.
LEMMA ExecuteDoes ==
  ASSUME NEW m, Machine(m), NEW op \in Instructions, NEW price
  PROVE  /\ Fatal(op) => Execute(m, op, price) = [m EXCEPT !.panicked = TRUE]
         /\ ~Fatal(op) => Execute(m, op, price) = Survived(m, op, price)
<1> DEFINE name == op.op
           next == Execute(m, op, price)
<1>1. name \in OpNames
  BY DEF Instructions
<1>2. CASE name = "price"
  <2>1. next = [m EXCEPT !.stack = Push(@, One * price)]
    BY <1>2 DEF Execute, Indicators, Comparisons, Gates
  <2>2. Pushes(op) /\ name \notin Indicators /\ name \notin Sides /\ ~Fatal(op)
    BY <1>2 DEF Pushes, Indicators, Sides, Fatal
  <2>3. next = [stack |-> Push(m.stack, One * price), states |-> m.states,
                decision |-> m.decision, panicked |-> m.panicked]
    BY <2>1 DEF Machine
  <2> QED
    BY <1>2, <2>2, <2>3 DEF Survived, StackAfter, ValueOf, KeptAfter, DecisionAfter
<1>3. CASE name = "const"
  <2>1. next = [m EXCEPT !.stack = Push(@, op.n)]
    BY <1>3 DEF Execute, Indicators, Comparisons, Gates
  <2>2. Pushes(op) /\ name \notin Indicators /\ name \notin Sides /\ ~Fatal(op)
    BY <1>3 DEF Pushes, Indicators, Sides, Fatal
  <2>3. next = [stack |-> Push(m.stack, op.n), states |-> m.states,
                decision |-> m.decision, panicked |-> m.panicked]
    BY <2>1 DEF Machine
  <2> QED
    BY <1>3, <2>2, <2>3 DEF Survived, StackAfter, ValueOf, KeptAfter, DecisionAfter
<1>4. CASE name \in Indicators
  <2>1. next = Indicator(m, op, price)
    BY <1>4 DEF Execute, Indicators, Comparisons, Gates
  <2>2. Pushes(op) /\ name \notin Sides /\ name # "price" /\ name # "const"
    BY <1>4 DEF Pushes, Indicators, Sides
  <2>3. CASE Fatal(op)
    BY <2>1, <2>3 DEF Indicator, Fatal
  <2>4. CASE ~Fatal(op)
    <3> DEFINE state == StateNext(op, m.states[op.slot + 1], price)
               v == StateValue(op, state, price)
    <3>1. next = [m EXCEPT !.states[op.slot + 1] = state, !.stack = Push(@, v)]
      BY <2>1, <2>4 DEF Indicator, Fatal
    <3>2. v = ValueOf(op, m.states, price)
      BY <2>2 DEF ValueOf
    <3>3. KeptAfter(op, m.states, price) = [m.states EXCEPT ![op.slot + 1] = state]
      BY <1>4 DEF KeptAfter
    <3> HIDE DEF state, v
    <3>4. next = [stack |-> Push(m.stack, v), states |-> [m.states EXCEPT ![op.slot + 1] = state],
                  decision |-> m.decision, panicked |-> m.panicked]
      BY <3>1 DEF Machine
    <3> QED
      BY <2>2, <2>4, <3>2, <3>3, <3>4 DEF Survived, StackAfter, DecisionAfter
  <2> QED
    BY <2>3, <2>4
<1>5. CASE name \in Comparisons \cup Gates
  <2> DEFINE v == Combine(name, Top(Popped(m.stack)), Top(m.stack))
  <2>1. next = Binary(m, name)
    BY <1>5 DEF Execute, Indicators, Comparisons, Gates
  <2>2. ~Pushes(op) /\ name \notin Indicators /\ name \notin Sides /\ ~Fatal(op)
    BY <1>5 DEF Pushes, Indicators, Sides, Fatal, Comparisons, Gates
  <2>3. next = [m EXCEPT !.stack = Push(Popped(Popped(m.stack)), v)]
    BY <2>1 DEF Binary
  <2> HIDE DEF v
  <2>4. next = [stack |-> Push(Popped(Popped(m.stack)), v), states |-> m.states,
                decision |-> m.decision, panicked |-> m.panicked]
    BY <2>3 DEF Machine
  <2> QED
    BY <1>5, <2>2, <2>4 DEF Survived, StackAfter, KeptAfter, DecisionAfter, v
<1>6. CASE name = "not"
  <2>1. next = [m EXCEPT !.stack = Push(Popped(@), Bool(Top(m.stack) <= 0))]
    BY <1>6 DEF Execute, Indicators, Comparisons, Gates
  <2>2. ~Pushes(op) /\ name \notin Indicators /\ name \notin Sides /\ ~Fatal(op)
        /\ name \notin Comparisons \cup Gates
    BY <1>6 DEF Pushes, Indicators, Sides, Fatal, Comparisons, Gates
  <2>3. next = [stack |-> Push(Popped(m.stack), Bool(Top(m.stack) <= 0)), states |-> m.states,
                decision |-> m.decision, panicked |-> m.panicked]
    BY <2>1 DEF Machine
  <2> QED
    BY <1>6, <2>2, <2>3 DEF Survived, StackAfter, KeptAfter, DecisionAfter
<1>7. CASE name \in Sides
  <2>1. next = Terminal(m, name)
    BY <1>7 DEF Execute, Indicators, Comparisons, Gates, Sides
  <2>2. /\ ~Pushes(op) /\ name \notin Indicators /\ ~Fatal(op)
        /\ name \notin Comparisons \cup Gates /\ name # "not"
    BY <1>7 DEF Pushes, Indicators, Sides, Fatal, Comparisons, Gates
  <2> DEFINE decision == IF Top(m.stack) > 0 THEN name ELSE m.decision
  <2>3. next = [m EXCEPT !.stack = Popped(@), !.decision = decision]
    BY <2>1 DEF Terminal
  <2>4. decision = DecisionAfter(m.stack, m.decision, op)
    BY <1>7 DEF DecisionAfter
  <2> HIDE DEF decision
  <2>5. next = [stack |-> Popped(m.stack), states |-> m.states,
                decision |-> decision, panicked |-> m.panicked]
    BY <2>3 DEF Machine
  <2> QED
    BY <2>2, <2>4, <2>5 DEF Survived, StackAfter, KeptAfter
<1> QED
  BY <1>1, <1>2, <1>3, <1>4, <1>5, <1>6, <1>7 DEF OpNames, Sides

----------------------------------------------------------------------------
(* What a run does *)

\* Every machine of a run has its fields.
LEMMA RunMachines ==
  ASSUME NEW code \in Seq(Instructions), NEW kept, NEW price, NEW M, RunSteps(M, code, kept, price)
  PROVE  \A i \in 0..Len(code) : Machine(M[i])
<1> DEFINE n == Len(code)
           X == {i \in Nat : i <= n => Machine(M[i])}
<1>0. n \in Nat
  BY LenProperties
<1>1. 0 \in X
  BY DEF RunSteps, Fresh, Machine
<1>2. ASSUME NEW i \in Nat, i \in X PROVE i + 1 \in X
  <2> SUFFICES ASSUME i + 1 <= n PROVE Machine(M[i + 1])
    OBVIOUS
  <2>1. i + 1 \in 1..n /\ (i + 1) - 1 = i /\ i <= n
    BY <1>0
  <2> DEFINE m == M[i]
             op == code[i + 1]
  <2>2. M[i + 1] = Stepped(m, op, price) /\ Machine(m) /\ op \in Instructions
    BY <2>1, <1>2, ElementOfSeq DEF RunSteps
  <2> HIDE DEF m, op
  <2>3. CASE m.panicked
    BY <2>2, <2>3 DEF Stepped
  <2>4. CASE ~m.panicked /\ Fatal(op)
    <3>1. M[i + 1] = [m EXCEPT !.panicked = TRUE]
      BY <2>2, <2>4, ExecuteDoes DEF Stepped
    <3> QED
      BY <2>2, <3>1 DEF Machine
  <2>5. CASE ~m.panicked /\ ~Fatal(op)
    <3>1. M[i + 1] = Survived(m, op, price)
      BY <2>2, <2>5, ExecuteDoes DEF Stepped
    <3> QED
      BY <3>1 DEF Machine, Survived
  <2> QED
    BY <2>3, <2>4, <2>5
<1> HIDE DEF X
<1>3. \A i \in Nat : i \in X
  BY <1>1, <1>2, NaturalsIn
<1> QED
  BY <1>0, <1>3 DEF X

\* Who runs a fatal instruction panics.
LEMMA FatalPanics ==
  ASSUME NEW code \in Seq(Instructions), NEW kept, NEW price, NEW M, RunSteps(M, code, kept, price),
         NEW j \in 1..Len(code), Fatal(code[j])
  PROVE  M[Len(code)].panicked
<1> DEFINE n == Len(code)
           X == {i \in Nat : j <= i /\ i <= n => M[i].panicked}
<1>0. n \in Nat /\ j \in Nat /\ 1 <= j /\ j <= n
  BY LenProperties
<1>1. 0 \in X
  BY <1>0
<1>2. ASSUME NEW i \in Nat, i \in X PROVE i + 1 \in X
  <2> SUFFICES ASSUME j <= i + 1, i + 1 <= n PROVE M[i + 1].panicked
    OBVIOUS
  <2>1. i + 1 \in 1..n /\ (i + 1) - 1 = i /\ i \in 0..n
    BY <1>0
  <2>2. /\ M[i + 1] = Stepped(M[i], code[i + 1], price)
        /\ Machine(M[i]) /\ code[i + 1] \in Instructions
    BY <2>1, RunMachines, ElementOfSeq DEF RunSteps
  <2>3. CASE M[i].panicked
    BY <2>2, <2>3 DEF Stepped
  <2>4. CASE ~M[i].panicked
    <3>1. j = i + 1
      BY <1>0, <1>2, <2>1, <2>4
    <3>2. M[i + 1] = [M[i] EXCEPT !.panicked = TRUE]
      BY <2>2, <2>4, <3>1, ExecuteDoes DEF Stepped
    <3> QED
      BY <2>2, <3>2 DEF Machine
  <2> QED
    BY <2>3, <2>4
<1> HIDE DEF X
<1>3. n \in X
  BY <1>0, <1>1, <1>2, NaturalsIn
<1> QED
  BY <1>0, <1>3 DEF X

\* Nobody else panics.
LEMMA OthersSurvive ==
  ASSUME NEW code \in Seq(Instructions), NEW kept, NEW price, NEW M, RunSteps(M, code, kept, price),
         \A i \in 1..Len(code) : ~Fatal(code[i])
  PROVE  /\ \A i \in 0..Len(code) : ~M[i].panicked
         /\ \A i \in 1..Len(code) : M[i] = Survived(M[i - 1], code[i], price)
<1> DEFINE n == Len(code)
           X == {i \in Nat : i <= n => ~M[i].panicked}
<1>0. n \in Nat
  BY LenProperties
<1>1. 0 \in X
  BY DEF RunSteps, Fresh
<1>2. ASSUME NEW i \in 1..n, ~M[i - 1].panicked PROVE M[i] = Survived(M[i - 1], code[i], price)
  <2>1. i - 1 \in 0..n /\ M[i] = Stepped(M[i - 1], code[i], price) /\ code[i] \in Instructions
    BY <1>0, ElementOfSeq DEF RunSteps
  <2>2. Machine(M[i - 1])
    BY <2>1, RunMachines
  <2> QED
    BY <1>2, <2>1, <2>2, ExecuteDoes DEF Stepped
<1>3. ASSUME NEW i \in Nat, i \in X PROVE i + 1 \in X
  <2> SUFFICES ASSUME i + 1 <= n PROVE ~M[i + 1].panicked
    OBVIOUS
  <2>1. i + 1 \in 1..n /\ (i + 1) - 1 = i /\ ~M[i].panicked
    BY <1>0, <1>3
  <2>2. M[i + 1] = Survived(M[i], code[i + 1], price)
    BY <1>2, <2>1
  <2> QED
    BY <2>1, <2>2 DEF Survived
<1> HIDE DEF X
<1>4. \A i \in Nat : i \in X
  BY <1>1, <1>3, NaturalsIn
<1>5. \A i \in 0..n : ~M[i].panicked
  BY <1>0, <1>4 DEF X
<1> QED
  BY <1>0, <1>2, <1>5

\* One state per indicator of a program.
Kept(kept, code) == \E S : kept \in [1..Len(Stateful(code)) -> S]

\* A run that is survived: every indicator's state goes on by one price, and every
\* instruction does what it does, the indicators reading the states of before.
LEMMA RunDoes ==
  ASSUME NEW code \in Seq(Instructions), Placed(code), \A i \in 1..Len(code) : ~Fatal(code[i]),
         NEW kept, Kept(kept, code), NEW price, NEW M, RunSteps(M, code, kept, price)
  PROVE  /\ Kept(M[Len(code)].states, code)
         /\ \A i \in 1..Len(code) : code[i].op \in Indicators =>
              M[Len(code)].states[code[i].slot + 1] = StateNext(code[i], kept[code[i].slot + 1], price)
         /\ \A i \in 1..Len(code) :
              /\ M[i].stack = StackAfter(M[i - 1].stack, code[i], ValueOf(code[i], kept, price))
              /\ M[i].decision = DecisionAfter(M[i - 1].stack, M[i - 1].decision, code[i])
<1> DEFINE n == Len(code)
           At(i) == code[i].slot + 1
           Next1(i) == StateNext(code[i], kept[At(i)], price)
           Done(k, i) == IF i <= k THEN Next1(i) ELSE kept[At(i)]
           Good(k) == /\ Kept(M[k].states, code)
                      /\ \A i \in 1..n : code[i].op \in Indicators => M[k].states[At(i)] = Done(k, i)
           X == {k \in Nat : k <= n => Good(k)}
<1>0. n \in Nat
  BY LenProperties
<1>1. \A i \in 1..n : M[i] = Survived(M[i - 1], code[i], price)
  BY OthersSurvive
<1>2. ASSUME NEW i \in 1..n, code[i].op \in Indicators
      PROVE  /\ At(i) \in 1..Len(Stateful(code)) /\ code[i].slot \in Nat
             /\ \A j \in 1..n : code[j].op \in Indicators /\ At(j) = At(i) => j = i
  <2>1. \A j \in 1..n : code[j].slot \in Nat
    <3>1. \A j \in 1..n : code[j] \in Instructions
      BY ElementOfSeq
    <3> QED
      BY <3>1 DEF Instructions
  <2>2. \A j \in 1..n : At(j) = At(i) => code[j].slot = code[i].slot
    BY <2>1
  <2> QED
    BY <1>2, <2>1, <2>2 DEF Placed
<1>3. 0 \in X
  <2>1. M[0].states = kept
    BY DEF RunSteps, Fresh
  <2>2. \A i \in 1..n : Done(0, i) = kept[At(i)]
    OBVIOUS
  <2> QED
    BY <2>1, <2>2
<1>4. ASSUME NEW k \in Nat, k \in X PROVE k + 1 \in X
  <2> SUFFICES ASSUME k + 1 <= n PROVE Good(k + 1)
    OBVIOUS
  <2> DEFINE op == code[k + 1]
             old == M[k].states
             new == M[k + 1].states
  <2>1. k + 1 \in 1..n /\ (k + 1) - 1 = k /\ Good(k)
    BY <1>0, <1>4
  <2>2. new = KeptAfter(op, old, price)
    <3>1. M[k + 1] = Survived(M[k], op, price)
      BY <1>1, <2>1
    <3> HIDE DEF op
    <3> QED
      BY <3>1 DEF Survived
  <2>3. \A i \in 1..n : i # k + 1 => Done(k + 1, i) = Done(k, i)
    BY <2>1
  <2>4. Done(k + 1, k + 1) = Next1(k + 1) /\ Done(k, k + 1) = kept[At(k + 1)]
    BY <2>1
  <2> HIDE DEF Done
  <2>5. CASE op.op \notin Indicators
    <3>1. new = old
      BY <2>2, <2>5 DEF KeptAfter
    <3> HIDE DEF old, new
    <3>2. \A i \in 1..n : code[i].op \in Indicators => i # k + 1
      BY <2>5
    <3> QED
      BY <2>1, <2>3, <3>1, <3>2 DEF old, new
  <2>6. CASE op.op \in Indicators
    <3> DEFINE state == Next1(k + 1)
    <3>1. new = [old EXCEPT ![At(k + 1)] = state]
      <4>1. old[At(k + 1)] = kept[At(k + 1)]
        BY <2>1, <2>4, <2>6
      <4> QED
        BY <2>2, <2>6, <4>1 DEF KeptAfter
    <3> HIDE DEF state, old, new
    <3>2. PICK S : old \in [1..Len(Stateful(code)) -> S]
      BY <2>1 DEF Kept, old
    <3>3. new \in [1..Len(Stateful(code)) -> S \cup {state}]
      BY <3>1, <3>2
    <3>4. new[At(k + 1)] = state
      BY <1>2, <2>1, <2>6, <3>1, <3>2
    <3>5. ASSUME NEW i \in 1..n, code[i].op \in Indicators, i # k + 1 PROVE new[At(i)] = Done(k + 1, i)
      <4>1. At(i) \in 1..Len(Stateful(code)) /\ At(i) # At(k + 1)
        BY <1>2, <2>1, <2>6, <3>5
      <4>2. new[At(i)] = old[At(i)]
        BY <3>1, <3>2, <4>1
      <4> QED
        BY <2>1, <2>3, <3>5, <4>2 DEF old
    <3>6. \A i \in 1..n : code[i].op \in Indicators => new[At(i)] = Done(k + 1, i)
      BY <2>4, <3>4, <3>5 DEF state
    <3> QED
      BY <3>3, <3>6 DEF Kept, new
  <2> QED
    BY <2>5, <2>6
<1> HIDE DEF X
<1>5. \A k \in 0..n : Good(k)
  <2>1. \A k \in Nat : k \in X
    BY <1>3, <1>4, NaturalsIn
  <2> QED
    BY <1>0, <2>1 DEF X
<1>6. ASSUME NEW i \in 1..n
      PROVE  /\ M[i].stack = StackAfter(M[i - 1].stack, code[i], ValueOf(code[i], kept, price))
             /\ M[i].decision = DecisionAfter(M[i - 1].stack, M[i - 1].decision, code[i])
  <2> DEFINE m == M[i - 1]
             op == code[i]
  <2>1. Pushes(op) => ValueOf(op, m.states, price) = ValueOf(op, kept, price)
    <3>1. CASE op.op \in Indicators
      <4>1. i - 1 \in 0..n /\ ~(i <= i - 1)
        BY <1>0
      <4>2. m.states[At(i)] = kept[At(i)]
        BY <1>5, <3>1, <4>1
      <4> QED
        BY <4>2 DEF ValueOf
    <3>2. CASE op.op \notin Indicators
      BY <3>2 DEF ValueOf, Pushes
    <3> QED
      BY <3>1, <3>2
  <2>2. M[i] = Survived(m, op, price)
    BY <1>1
  <2> HIDE DEF m, op
  <2>3. M[i].stack = StackAfter(m.stack, op, ValueOf(op, m.states, price))
        /\ M[i].decision = DecisionAfter(m.stack, m.decision, op)
    BY <2>2 DEF Survived
  <2>4. StackAfter(m.stack, op, ValueOf(op, m.states, price)) = StackAfter(m.stack, op, ValueOf(op, kept, price))
    BY <2>1 DEF StackAfter
  <2> QED
    BY <2>3, <2>4 DEF m, op
<1>7. n \in 0..n /\ \A i \in 1..n : Done(n, i) = Next1(i)
  BY <1>0
<1> QED
  BY <1>5, <1>6, <1>7

----------------------------------------------------------------------------
(* What an indicator remembers of the prices *)

\* e[i]: the average after i prices.
EmaSteps(e, n, q) ==
  /\ e[0] = EmaStart
  /\ \A i \in 1..Len(q) : e[i] = EmaNext(e[i - 1], n, q[i])

\* Where the k-th latest price is.
Back(head, k, size) == IF head >= k THEN head - k ELSE head - k + size

\* The states of the indicators that have a ring of prices.
Rings(size) == [buf : [0..(size - 1) -> Nat], filled : Nat, head : 0..(size - 1), sum : Int, sumSq : Int]

\* The ring holds the prices w, the latest of them before its head.
RingHolds(ring, size, w) ==
  /\ ring \in Rings(size)
  /\ ring.filled = Len(w)
  /\ \A k \in 1..Len(w) : ring.buf[Back(ring.head, k, size)] = w[Len(w) + 1 - k]

\* The average is the one after all prices.
TracksEma(state, n, q) == \E e : EmaSteps(e, n, q) /\ state = e[Len(q)]

\* The ring of a momentum has its latest n + 1 prices.
TracksMomentum(state, n, q) == \E w : Latest(w, n + 1, q) /\ RingHolds(state, n + 1, w)

\* The ring of a reversion has its latest n prices, and its sums are theirs.
TracksReversion(state, n, q) ==
  \E w : /\ Latest(w, n, q) /\ RingHolds(state, n, w)
         /\ state.sum = SumFunction(w) /\ state.sumSq = SumFunction(Squares(w))

\* The state of an indicator is what it has to remember of the prices q.
Tracks(op, state, q) ==
  /\ op.op = "ema" => TracksEma(state, op.n, q)
  /\ op.op = "momentum" => TracksMomentum(state, op.n, q)
  /\ op.op = "reversion" => TracksReversion(state, op.n, q)

\* The value of an indicator over all prices so far.
Reading(op, q) ==
  IF op.op = "ema" THEN EmaOf(q, op.n)
  ELSE IF op.op = "momentum" THEN MomentumOf(q, op.n) ELSE ReversionOf(q, op.n)

\* The average after all prices is EmaOf them.
LEMMA EmaIs ==
  ASSUME NEW q, Len(q) \in Nat, NEW n, NEW e, EmaSteps(e, n, q)
  PROVE  EmaOf(q, n) = e[Len(q)].value
<1> DEFINE L == Len(q)
           Is(h) == h = [i \in 0..L |-> IF i = 0 THEN EmaStart ELSE EmaNext(h[i - 1], n, q[i])]
           whole == [i \in 0..L |-> e[i]]
           after == CHOOSE h : Is(h)
<1>1. EmaOf(q, n) = after[L].value
  BY DEF EmaOf
<1>2. Is(whole)
  <2>1. \A i \in 1..L : whole[i - 1] = e[i - 1]
    OBVIOUS
  <2>2. \A i \in 0..L : e[i] = IF i = 0 THEN EmaStart ELSE EmaNext(whole[i - 1], n, q[i])
    BY <2>1 DEF EmaSteps
  <2> QED
    BY <2>2
<1> HIDE DEF whole
<1>3. Is(after)
  BY <1>2
<1> HIDE DEF after
<1>4. after[0] = EmaStart /\ \A i \in 1..L : after[i] = EmaNext(after[i - 1], n, q[i])
  <2>1. 0 \in 0..L /\ \A i \in 1..L : i \in 0..L /\ i # 0
    OBVIOUS
  <2> QED
    BY <1>3, <2>1
<1>5. Alike(after, e, L)
  BY <1>4 DEF Alike, EmaSteps
<1>6. Same(after, e, L)
  BY <1>5, RecursionUnique
<1> QED
  BY <1>1, <1>6 DEF Same

\* One more price.
LEMMA EmaGoesOn ==
  ASSUME NEW q \in Seq(Nat), NEW price \in Nat, NEW n, NEW state, TracksEma(state, n, q)
  PROVE  TracksEma(EmaNext(state, n, price), n, Append(q, price))
<1> DEFINE L == Len(q)
           more == Append(q, price)
<1>1. L \in Nat /\ Len(more) = L + 1 /\ more[L + 1] = price /\ \A i \in 1..L : more[i] = q[i]
  BY LenProperties, AppendProperties
<1> HIDE DEF L, more
<1>2. PICK e : EmaSteps(e, n, q) /\ state = e[L]
  BY DEF TracksEma, L
<1> DEFINE h == [i \in 0..(L + 1) |-> IF i = L + 1 THEN EmaNext(e[L], n, price) ELSE e[i]]
<1>3. h[0] = EmaStart
  BY <1>1, <1>2 DEF EmaSteps
<1>4. h[L + 1] = EmaNext(state, n, price)
  BY <1>1, <1>2
<1>5. ASSUME NEW i \in 1..(L + 1) PROVE h[i] = EmaNext(h[i - 1], n, more[i])
  <2>1. CASE i = L + 1
    <3>1. h[i - 1] = e[L] /\ h[i] = EmaNext(e[L], n, price)
      BY <1>1, <2>1
    <3> QED
      BY <1>1, <2>1, <3>1
  <2>2. CASE i # L + 1
    <3>1. i \in 1..L /\ h[i] = e[i] /\ h[i - 1] = e[i - 1]
      BY <1>1, <2>2
    <3> QED
      BY <1>1, <1>2, <3>1 DEF EmaSteps, L
  <2> QED
    BY <2>1, <2>2
<1> HIDE DEF h
<1>6. EmaSteps(h, n, more)
  BY <1>1, <1>3, <1>5 DEF EmaSteps
<1> QED
  BY <1>1, <1>4, <1>6 DEF TracksEma, more

\* A ring takes a price in, and lets its oldest go when it was full.
LEMMA RingAdvances ==
  ASSUME NEW size \in Nat, size >= 1, NEW ring, NEW w \in Seq(Nat), Len(w) <= size,
         RingHolds(ring, size, w), NEW price \in Nat
  PROVE  /\ RingHolds(Advanced(ring, size, price), size,
                      Append(IF Len(w) < size THEN w ELSE Tail(w), price))
         /\ Advanced(ring, size, price).sum = ring.sum
         /\ Advanced(ring, size, price).sumSq = ring.sumSq
<1> DEFINE L == Len(w)
           kept == IF L < size THEN w ELSE Tail(w)
           more == Append(kept, price)
           h == ring.head
           h1 == IF h + 1 = size THEN 0 ELSE h + 1
           f == IF L < size THEN L + 1 ELSE L
           next == Advanced(ring, size, price)
<1>1. L \in Nat /\ h \in 0..(size - 1)
  BY LenProperties DEF RingHolds, Rings
<1>2. (h + 1) % size = h1
  <2>1. CASE h + 1 = size
    BY <2>1, <1>1
  <2>2. CASE h + 1 # size
    BY <2>2, <1>1
  <2> QED
    BY <2>1, <2>2
<1>3. /\ next.buf = [ring.buf EXCEPT ![h] = price] /\ next.head = h1 /\ next.filled = f
      /\ next.sum = ring.sum /\ next.sumSq = ring.sumSq /\ next \in Rings(size)
  <2> DEFINE buf == [ring.buf EXCEPT ![h] = price]
  <2>1. next = [ring EXCEPT !.buf = buf, !.head = (h + 1) % size, !.filled = IF @ < size THEN @ + 1 ELSE @]
    BY DEF Advanced
  <2>2. buf \in [0..(size - 1) -> Nat] /\ h1 \in 0..(size - 1) /\ f \in Nat
    BY <1>1 DEF RingHolds, Rings
  <2>3. ring.filled = L
    BY DEF RingHolds
  <2> HIDE DEF buf, h1, f, next, L
  <2>4. next = [ring EXCEPT !.buf = buf, !.head = h1, !.filled = f]
    BY <1>2, <2>1, <2>3 DEF f
  <2>5. ring \in Rings(size)
    BY DEF RingHolds
  <2> QED
    BY <2>2, <2>4, <2>5 DEF Rings, buf
<1>4. /\ kept \in Seq(Nat) /\ Len(kept) = f - 1
      /\ \A k \in 1..(f - 1) : kept[f - k] = w[L + 1 - k]
  <2>1. CASE L < size
    BY <1>1, <2>1
  <2>2. CASE ~(L < size)
    <3>1. w # <<>> /\ kept = Tail(w) /\ f = L
      BY <1>1, <2>2, EmptySeq
    <3>2. kept \in Seq(Nat) /\ Len(kept) = L - 1 /\ \A k \in 1..(L - 1) : kept[k] = w[k + 1]
      BY <3>1, <1>1, HeadTailProperties
    <3>3. ASSUME NEW k \in 1..(L - 1) PROVE kept[L - k] = w[L + 1 - k]
      <4>1. L - k \in 1..(L - 1) /\ (L - k) + 1 = L + 1 - k
        BY <1>1
      <4> QED
        BY <3>2, <4>1
    <3> QED
      BY <3>1, <3>2, <3>3
  <2> QED
    BY <2>1, <2>2
<1>5. f \in Nat /\ f >= 1 /\ f <= size
  BY <1>1
<1>6. L >= f - 1
  BY <1>1
<1> HIDE DEF kept
<1>7. more \in Seq(Nat) /\ Len(more) = f /\ more[f] = price /\ \A k \in 1..(f - 1) : more[k] = kept[k]
  BY <1>4, <1>5, AppendProperties
<1> HIDE DEF next, more, f, L
<1>8. ASSUME NEW k \in 1..f PROVE next.buf[Back(next.head, k, size)] = more[f + 1 - k]
  <2>1. CASE k = 1
    <3>1. Back(h1, 1, size) = h
      BY <1>1 DEF Back
    <3>2. next.buf[h] = price
      BY <1>1, <1>3 DEF RingHolds, Rings
    <3> QED
      BY <1>3, <1>5, <1>7, <2>1, <3>1, <3>2
  <2>2. CASE k # 1
    <3> DEFINE j == k - 1
    <3>1. j \in 1..(f - 1) /\ j \in 1..L /\ f + 1 - k = f - j /\ f - j \in 1..(f - 1) /\ j <= size - 1
      BY <1>1, <1>5, <1>6, <2>2
    <3>2. Back(h1, k, size) = Back(h, j, size) /\ Back(h, j, size) \in 0..(size - 1) /\ Back(h, j, size) # h
      <4>1. h \in Nat /\ j \in Nat /\ k = j + 1 /\ 1 <= j /\ j <= size - 1 /\ h <= size - 1
        BY <1>1, <3>1
      <4>2. h1 = IF h + 1 = size THEN 0 ELSE h + 1
        OBVIOUS
      <4> HIDE DEF h, h1, j
      <4>3. CASE h + 1 = size
        BY <4>1, <4>2, <4>3 DEF Back
      <4>4. CASE h + 1 # size
        BY <4>1, <4>2, <4>4 DEF Back
      <4> QED
        BY <4>3, <4>4
    <3>3. next.buf[Back(h, j, size)] = ring.buf[Back(h, j, size)]
      BY <1>3, <3>2 DEF RingHolds, Rings
    <3>4. ring.buf[Back(h, j, size)] = w[L + 1 - j]
      BY <3>1 DEF RingHolds, L
    <3>5. more[f - j] = kept[f - j] /\ kept[f - j] = w[L + 1 - j]
      BY <1>4, <1>7, <3>1
    <3> HIDE DEF j
    <3> QED
      BY <1>3, <3>1, <3>2, <3>3, <3>4, <3>5
  <2> QED
    BY <2>1, <2>2
<1>9. RingHolds(next, size, more)
  BY <1>3, <1>7, <1>8 DEF RingHolds
<1> QED
  BY <1>3, <1>9 DEF next, more, kept, L

\* What a full ring overwrites is the oldest price it holds.
LEMMA OldestOfRing ==
  ASSUME NEW size \in Nat, size >= 1, NEW ring, NEW w \in Seq(Nat), Len(w) = size, RingHolds(ring, size, w)
  PROVE  OldestPrice(ring, size) = w[1]
<1>1. ring.head \in 0..(size - 1)
  BY DEF RingHolds, Rings
<1>2. Back(ring.head, size, size) = ring.head
  BY <1>1 DEF Back
<1>3. size \in 1..Len(w) /\ Len(w) + 1 - size = 1
  OBVIOUS
<1> QED
  BY <1>2, <1>3 DEF RingHolds, OldestPrice

\* An empty ring holds no prices.
LEMMA RingStarts ==
  ASSUME NEW size \in Nat, size >= 1
  PROVE  Latest(<<>>, size, <<>>) /\ RingHolds(Ring(size), size, <<>>)
<1>1. <<>> \in Seq(Nat) /\ Len(<<>>) = 0
  BY EmptySeq
<1>2. Ring(size) \in Rings(size) /\ Ring(size).filled = 0
  <2> DEFINE buf == [i \in 0..(size - 1) |-> 0]
  <2>1. buf \in [0..(size - 1) -> Nat] /\ 0 \in 0..(size - 1)
    OBVIOUS
  <2> HIDE DEF buf
  <2>2. Ring(size) = [buf |-> buf, filled |-> 0, head |-> 0, sum |-> 0, sumSq |-> 0]
    BY DEF Ring, buf
  <2> QED
    BY <2>1, <2>2 DEF Rings
<1> QED
  BY <1>1, <1>2 DEF Latest, RingHolds

\* The oldest of the latest prices is as many back as there are of them.
LEMMA LatestEnds ==
  ASSUME NEW q \in Seq(Nat), q # <<>>, NEW size \in Nat, size >= 1, NEW w, Latest(w, size, q)
  PROVE  /\ w \in Seq(Nat) /\ Len(w) \in Nat /\ Len(w) <= size /\ Len(q) \in Nat /\ Len(q) >= 1
         /\ Len(w) < size <=> Len(q) < size
         /\ Len(w) = size => Len(q) - size + 1 \in 1..Len(q) /\ w[1] = q[Len(q) - size + 1]
<1>1. w \in Seq(Nat) /\ Len(w) \in Nat /\ Len(q) \in Nat /\ Len(q) >= 1
  <2>1. Len(q) # 0
    BY EmptySeq
  <2> QED
    BY <2>1, LenProperties DEF Latest
<1>2. Len(w) = IF Len(q) < size THEN Len(q) ELSE size
  BY DEF Latest
<1>3. Len(w) <= size /\ (Len(w) < size <=> Len(q) < size)
  BY <1>1, <1>2
<1>4. ASSUME Len(w) = size PROVE Len(q) - size + 1 \in 1..Len(q) /\ w[1] = q[Len(q) - size + 1]
  <2>1. 1 \in 1..Len(w) /\ Len(q) - size + 1 \in 1..Len(q)
    BY <1>1, <1>3, <1>4
  <2> QED
    BY <1>4, <2>1 DEF Latest
<1> QED
  BY <1>1, <1>3, <1>4

\* momentum_update remembers the latest prices.
LEMMA MomentumGoesOn ==
  ASSUME NEW q \in Seq(Nat), NEW price \in Nat, NEW n \in Nat, NEW state, TracksMomentum(state, n, q)
  PROVE  TracksMomentum(MomentumNext(state, n, price), n, Append(q, price))
<1>1. PICK w : Latest(w, n + 1, q) /\ RingHolds(state, n + 1, w)
  BY DEF TracksMomentum
<1> DEFINE size == n + 1
           more == Append(IF Len(w) < size THEN w ELSE Tail(w), price)
<1>2. size \in Nat /\ size >= 1
  OBVIOUS
<1>3. w \in Seq(Nat) /\ Len(w) <= size
  <2>1. Len(w) = (IF Len(q) < size THEN Len(q) ELSE size) /\ Len(q) \in Nat /\ w \in Seq(Nat)
    BY <1>1, LenProperties DEF Latest
  <2> QED
    BY <2>1
<1>4. Latest(w, size, q) /\ RingHolds(state, size, w)
  BY <1>1
<1>5. MomentumNext(state, n, price) = Advanced(state, size, price)
  BY DEF MomentumNext
<1> HIDE DEF size
<1>6. Latest(more, size, Append(q, price))
  BY <1>2, <1>4, LatestNext
<1>7. RingHolds(Advanced(state, size, price), size, more)
  BY <1>2, <1>3, <1>4, RingAdvances
<1> HIDE DEF more
<1> QED
  BY <1>5, <1>6, <1>7 DEF TracksMomentum, size

\* What momentum_update returns is the return over the lookback.
LEMMA MomentumReads ==
  ASSUME NEW q \in Seq(Nat), q # <<>>, NEW n \in Nat, NEW state, TracksMomentum(state, n, q)
  PROVE  MomentumValue(state, n, q[Len(q)]) = MomentumOf(q, n)
<1>1. PICK w : Latest(w, n + 1, q) /\ RingHolds(state, n + 1, w)
  BY DEF TracksMomentum
<1> DEFINE L == Len(q)
           size == n + 1
<1>2. /\ w \in Seq(Nat) /\ Len(w) \in Nat /\ Len(w) <= size /\ L \in Nat /\ L >= 1
      /\ Len(w) < size <=> L < size
      /\ Len(w) = size => w[1] = q[L - size + 1]
  BY <1>1, LatestEnds
<1>3. state.filled = Len(w)
  BY <1>1 DEF RingHolds
<1>4. CASE L <= n
  BY <1>2, <1>3, <1>4 DEF MomentumValue, MomentumOf
<1>5. CASE ~(L <= n)
  <2>1. Len(w) = size /\ L - size + 1 = L - n /\ ~(state.filled <= n)
    BY <1>2, <1>3, <1>5
  <2>2. OldestPrice(state, size) = q[L - n]
    BY <1>1, <1>2, <2>1, OldestOfRing
  <2> QED
    BY <1>5, <2>1, <2>2 DEF MomentumValue, MomentumOf
<1> QED
  BY <1>4, <1>5

\* reversion_update remembers the latest prices, and their sums.
LEMMA ReversionGoesOn ==
  ASSUME NEW q \in Seq(Nat), NEW price \in Nat, NEW n \in Nat, n >= 1,
         NEW state, TracksReversion(state, n, q)
  PROVE  TracksReversion(ReversionNext(state, n, price), n, Append(q, price))
<1>1. PICK w : /\ Latest(w, n, q) /\ RingHolds(state, n, w)
               /\ state.sum = SumFunction(w) /\ state.sumSq = SumFunction(Squares(w))
  BY DEF TracksReversion
<1>2. w \in Seq(Nat) /\ w \in Seq(Int) /\ Len(w) \in Nat /\ Len(w) <= n
  <2>1. Len(w) = (IF Len(q) < n THEN Len(q) ELSE n) /\ Len(q) \in Nat /\ w \in Seq(Nat)
    BY <1>1, LenProperties DEF Latest
  <2> QED
    BY <2>1, NaturalsAreIntegers
<1> DEFINE kept == IF Len(w) < n THEN w ELSE Tail(w)
           more == Append(kept, price)
           ring == Advanced(state, n, price)
           next == ReversionNext(state, n, price)
           old == IF Len(w) < n THEN 0 ELSE w[1]
           pp == price * price
           oo == old * old
           s == SumFunction(w)
           ss == SumFunction(Squares(w))
<1>3. /\ Latest(more, n, Append(q, price)) /\ RingHolds(ring, n, more)
      /\ ring.sum = s /\ ring.sumSq = ss
  BY <1>1, <1>2, LatestNext, RingAdvances
<1>4. /\ kept \in Seq(Nat) /\ kept \in Seq(Int) /\ old \in Nat
      /\ SumFunction(kept) = s - old /\ SumFunction(Squares(kept)) = ss - oo
  <2>0. s \in Int /\ ss \in Int
    BY <1>2, SequenceSum, SquaresType
  <2>1. CASE Len(w) < n
    <3>1. kept = w /\ old = 0 /\ oo = 0
      BY <2>1
    <3> HIDE DEF kept, old, oo, s, ss
    <3> QED
      BY <1>2, <2>0, <3>1 DEF s, ss
  <2>2. CASE ~(Len(w) < n)
    <3>1. w # <<>> /\ kept = Tail(w) /\ old = Head(w)
      BY <1>2, <2>2, EmptySeq
    <3>2. Tail(w) \in Seq(Nat) /\ Head(w) \in Nat
      BY <1>2, <3>1, HeadTailProperties
    <3>3. /\ SumFunction(Tail(w)) = SumFunction(w) - Head(w)
          /\ SumFunction(Squares(Tail(w))) = SumFunction(Squares(w)) - Head(w) * Head(w)
      BY <1>2, <3>1, HeadLeaves
    <3> HIDE DEF kept, old
    <3> QED
      BY <3>1, <3>2, <3>3, NaturalsAreIntegers
  <2> QED
    BY <2>1, <2>2
<1>5. next = [ring EXCEPT !.sum = @ - old + price, !.sumSq = @ - oo + pp]
  <2>1. (IF state.filled = n THEN OldestPrice(state, n) ELSE 0) = old
    <3>1. state.filled = Len(w)
      BY <1>1 DEF RingHolds
    <3>2. Len(w) = n => OldestPrice(state, n) = w[1]
      BY <1>1, <1>2, OldestOfRing
    <3>3. Len(w) = n <=> ~(Len(w) < n)
      BY <1>2
    <3> QED
      BY <3>1, <3>2, <3>3
  <2> HIDE DEF old, ring
  <2> QED
    BY <2>1 DEF ReversionNext, ring
<1>6. s \in Int /\ ss \in Int /\ old \in Int /\ pp \in Int /\ oo \in Int
  BY <1>2, <1>4, SequenceSum, SquaresType
<1>7. SumFunction(more) = s - old + price /\ SumFunction(Squares(more)) = ss - oo + pp
  <2>0. price \in Int
    OBVIOUS
  <2> HIDE DEF kept
  <2>1. SumFunction(more) = SumFunction(kept) + price
    BY <1>4, <2>0, SumOfAppend
  <2>2. SumFunction(Squares(more)) = SumFunction(Squares(kept)) + pp
    BY <1>4, SquaresAppend
  <2> QED
    BY <1>4, <2>1, <2>2
<1> HIDE DEF more, kept, ring, next, old, oo, pp, s, ss
<1>8. /\ next \in Rings(n) /\ next.buf = ring.buf /\ next.filled = ring.filled /\ next.head = ring.head
      /\ next.sum = s - old + price /\ next.sumSq = ss - oo + pp
  <2>1. ring \in Rings(n)
    BY <1>3 DEF RingHolds
  <2> DEFINE a == s - old + price
             b == ss - oo + pp
  <2>2. a \in Int /\ b \in Int
    BY <1>6
  <2>3. next = [ring EXCEPT !.sum = a, !.sumSq = b]
    BY <1>3, <1>5
  <2> HIDE DEF a, b
  <2>4. /\ next \in Rings(n) /\ next.buf = ring.buf /\ next.filled = ring.filled
        /\ next.head = ring.head /\ next.sum = a /\ next.sumSq = b
    BY <2>1, <2>2, <2>3 DEF Rings
  <2> QED
    BY <2>4 DEF a, b
<1>9. RingHolds(next, n, more)
  BY <1>3, <1>8 DEF RingHolds
<1> QED
  BY <1>3, <1>7, <1>8, <1>9 DEF TracksReversion, next

\* What reversion_update returns is the reading of the window.
LEMMA ReversionReads ==
  ASSUME NEW q \in Seq(Nat), q # <<>>, NEW n \in Nat, n >= 1, NEW state, TracksReversion(state, n, q)
  PROVE  ReversionValue(state, n, q[Len(q)]) = ReversionOf(q, n)
<1>1. PICK w : /\ Latest(w, n, q) /\ RingHolds(state, n, w)
               /\ state.sum = SumFunction(w) /\ state.sumSq = SumFunction(Squares(w))
  BY DEF TracksReversion
<1> DEFINE L == Len(q)
           recent == LastOf(q, n)
<1>2. /\ w \in Seq(Nat) /\ Len(w) \in Nat /\ Len(w) <= n /\ L \in Nat /\ L >= 1
      /\ Len(w) < n <=> L < n
  BY <1>1, LatestEnds
<1>3. state.filled = Len(w)
  BY <1>1 DEF RingHolds
<1>4. CASE L < n
  BY <1>2, <1>3, <1>4 DEF ReversionValue, ReversionOf
<1>5. CASE ~(L < n)
  <2>1. Len(w) = n /\ ~(state.filled < n)
    BY <1>2, <1>3, <1>5
  <2>2. recent = w
    <3>1. recent = [k \in 1..n |-> q[L - n + 1 + k - 1]]
      BY <1>2, <1>5 DEF LastOf
    <3>2. \A k \in 1..n : recent[k] = q[L - n + k]
      BY <1>2, <3>1
    <3>3. \A k \in 1..n : w[k] = q[L - n + k]
      BY <1>1, <2>1 DEF Latest
    <3>4. w = [k \in 1..n |-> w[k]]
      BY <1>2, <2>1, LenProperties
    <3> HIDE DEF recent
    <3>5. recent = [k \in 1..n |-> recent[k]]
      BY <3>1
    <3> QED
      BY <3>2, <3>3, <3>4, <3>5
  <2>3. ReversionOf(q, n) = ReversionReading(q[L], n, SumFunction(recent), SumFunction(Squares(recent)))
    BY <1>5 DEF ReversionOf
  <2>4. ReversionValue(state, n, q[L]) = ReversionReading(q[L], n, state.sum, state.sumSq)
    BY <2>1 DEF ReversionValue
  <2> HIDE DEF recent
  <2> QED
    BY <1>1, <2>2, <2>3, <2>4
<1> QED
  BY <1>4, <1>5

----------------------------------------------------------------------------
(* Programs over a feed *)

\* The states of a program are those of the prices q.
TracksAll(code, kept, q) ==
  /\ Kept(kept, code)
  /\ \A i \in 1..Len(code) :
       code[i].op \in Indicators => Tracks(code[i], kept[code[i].slot + 1], q)

\* IndState::for_op: a new state remembers nothing.
LEMMA StateStarts ==
  ASSUME NEW op \in Instructions, op.op \in Indicators, op.n \in Nat, ~Fatal(op)
  PROVE  Tracks(op, StateFor(op), <<>>)
<1>1. CASE op.op = "ema"
  <2>1. StateFor(op) = EmaStart
    BY <1>1 DEF StateFor
  <2> DEFINE e == [i \in 0..0 |-> EmaStart]
  <2>2. EmaSteps(e, op.n, <<>>) /\ e[Len(<<>>)] = EmaStart
    <3>1. Len(<<>>) = 0
      BY EmptySeq
    <3> QED
      BY <3>1 DEF EmaSteps
  <2>3. TracksEma(EmaStart, op.n, <<>>)
    BY <2>2 DEF TracksEma
  <2> QED
    BY <1>1, <2>1, <2>3 DEF Tracks
<1>2. CASE op.op = "momentum"
  <2> DEFINE size == op.n + 1
  <2>1. StateFor(op) = Ring(size) /\ size \in Nat /\ size >= 1
    BY <1>2 DEF StateFor
  <2>2. Latest(<<>>, size, <<>>) /\ RingHolds(Ring(size), size, <<>>)
    BY <2>1, RingStarts
  <2>3. TracksMomentum(Ring(size), op.n, <<>>)
    BY <2>2 DEF TracksMomentum
  <2> QED
    BY <1>2, <2>1, <2>3 DEF Tracks
<1>3. CASE op.op = "reversion"
  <2> DEFINE size == op.n
  <2>1. StateFor(op) = Ring(size) /\ size \in Nat /\ size >= 1
    BY <1>3 DEF StateFor, Fatal
  <2> HIDE DEF size
  <2>2. Latest(<<>>, size, <<>>) /\ RingHolds(Ring(size), size, <<>>)
    BY <2>1, RingStarts
  <2>3. Ring(size).sum = 0 /\ Ring(size).sumSq = 0
    BY DEF Ring
  <2>4. SumFunction(<<>>) = 0 /\ SumFunction(Squares(<<>>)) = 0
    <3>1. Squares(<<>>) = <<>>
      BY DEF Squares
    <3> QED
      BY <3>1, SumOfEmpty
  <2>5. TracksReversion(Ring(size), size, <<>>)
    BY <2>2, <2>3, <2>4 DEF TracksReversion
  <2> QED
    BY <1>3, <2>1, <2>5 DEF Tracks, size
<1> QED
  BY <1>1, <1>2, <1>3 DEF Indicators

\* A state goes on by one price.
LEMMA StateGoesOn ==
  ASSUME NEW op \in Instructions, op.op \in Indicators, op.n \in Nat, ~Fatal(op),
         NEW q \in Seq(Nat), NEW price \in Nat, NEW state, Tracks(op, state, q)
  PROVE  Tracks(op, StateNext(op, state, price), Append(q, price))
<1>1. CASE op.op = "ema"
  <2>1. StateNext(op, state, price) = EmaNext(state, op.n, price)
    BY <1>1 DEF StateNext
  <2>2. TracksEma(EmaNext(state, op.n, price), op.n, Append(q, price))
    BY <1>1, EmaGoesOn DEF Tracks
  <2> QED
    BY <1>1, <2>1, <2>2 DEF Tracks
<1>2. CASE op.op = "momentum"
  <2>1. StateNext(op, state, price) = MomentumNext(state, op.n, price)
    BY <1>2 DEF StateNext
  <2>2. TracksMomentum(MomentumNext(state, op.n, price), op.n, Append(q, price))
    BY <1>2, MomentumGoesOn DEF Tracks
  <2> QED
    BY <1>2, <2>1, <2>2 DEF Tracks
<1>3. CASE op.op = "reversion"
  <2>1. StateNext(op, state, price) = ReversionNext(state, op.n, price)
    BY <1>3 DEF StateNext
  <2>2. op.n >= 1
    BY <1>3 DEF Fatal
  <2>3. TracksReversion(ReversionNext(state, op.n, price), op.n, Append(q, price))
    BY <1>3, <2>2, ReversionGoesOn DEF Tracks
  <2> QED
    BY <1>3, <2>1, <2>3 DEF Tracks
<1> QED
  BY <1>1, <1>2, <1>3 DEF Indicators

\* What is read off a state is the reading over all prices.
LEMMA StateReads ==
  ASSUME NEW op \in Instructions, op.op \in Indicators, op.n \in Nat, ~Fatal(op),
         NEW q \in Seq(Nat), q # <<>>, NEW state, Tracks(op, state, q)
  PROVE  StateValue(op, state, q[Len(q)]) = Reading(op, q)
<1>1. CASE op.op = "ema"
  <2>1. PICK e : EmaSteps(e, op.n, q) /\ state = e[Len(q)]
    BY <1>1 DEF Tracks, TracksEma
  <2>2. EmaOf(q, op.n) = state.value
    BY <2>1, EmaIs, LenProperties
  <2> QED
    BY <1>1, <2>2 DEF StateValue, Reading
<1>2. CASE op.op = "momentum"
  BY <1>2, MomentumReads DEF Tracks, StateValue, Reading
<1>3. CASE op.op = "reversion"
  <2>1. op.n >= 1
    BY <1>3 DEF Fatal
  <2> QED
    BY <1>3, <2>1, ReversionReads DEF Tracks, StateValue, Reading
<1> QED
  BY <1>1, <1>2, <1>3 DEF Indicators

\* What is known of the indicators of a program.
LEMMA PlacedAt ==
  ASSUME NEW code \in Seq(Instructions), Placed(code), NEW i \in 1..Len(code), code[i].op \in Indicators
  PROVE  /\ code[i] \in Instructions /\ code[i].n \in Nat
         /\ code[i].slot + 1 \in 1..Len(Stateful(code)) /\ Stateful(code)[code[i].slot + 1] = code[i]
BY ElementOfSeq DEF Placed

\* Vm::new: the states of a program that has not run are those of no prices.
LEMMA NewStatesTrack ==
  ASSUME NEW code \in Seq(Instructions), Placed(code), \A i \in 1..Len(code) : ~Fatal(code[i])
  PROVE  TracksAll(code, NewStates(code), <<>>)
<1> DEFINE slots == Stateful(code)
           kept == NewStates(code)
           S == {StateFor(slots[i]) : i \in 1..Len(slots)}
<1>1. slots \in Seq(Instructions) /\ DOMAIN slots = 1..Len(slots)
  BY FilteredTyped, LenProperties DEF Stateful
<1> HIDE DEF slots
<1>2. kept = [i \in 1..Len(slots) |-> StateFor(slots[i])]
  BY <1>1 DEF NewStates, slots
<1>3. kept \in [1..Len(slots) -> S]
  BY <1>2
<1>4. ASSUME NEW i \in 1..Len(code), code[i].op \in Indicators
      PROVE  Tracks(code[i], kept[code[i].slot + 1], <<>>)
  <2>1. /\ code[i] \in Instructions /\ code[i].n \in Nat
        /\ code[i].slot + 1 \in 1..Len(slots) /\ slots[code[i].slot + 1] = code[i]
    BY <1>4, PlacedAt DEF slots
  <2>2. kept[code[i].slot + 1] = StateFor(code[i])
    BY <1>2, <2>1
  <2> QED
    BY <1>4, <2>1, <2>2, StateStarts
<1> QED
  BY <1>3, <1>4 DEF TracksAll, Kept, slots

\* What an instruction pushes at the last price of a feed.
Pushed(op, q) ==
  IF op.op = "price" THEN One * Last(q) ELSE IF op.op = "const" THEN op.n ELSE Reading(op, q)

\* The stacks and decisions of M are those of code at the last price of q.
Behaves(M, code, q) ==
  /\ M[0].stack = <<>> /\ M[0].decision = "none"
  /\ \A i \in 1..Len(code) :
       /\ M[i].stack = StackAfter(M[i - 1].stack, code[i], Pushed(code[i], q))
       /\ M[i].decision = DecisionAfter(M[i - 1].stack, M[i - 1].decision, code[i])

\* Vm::run over states of the prices so far: it panics if the program has a fatal
\* instruction, and otherwise decides by the readings over all prices, this one
\* included, and leaves the states of those.
LEMMA RunOverFeed ==
  ASSUME NEW code \in Seq(Instructions), Placed(code), NEW q \in Seq(Nat), NEW price \in Nat, NEW kept,
         (\A i \in 1..Len(code) : ~Fatal(code[i])) => TracksAll(code, kept, q)
  PROVE  LET m == Run(code, kept, price)
         IN  /\ m.panicked <=> \E i \in 1..Len(code) : Fatal(code[i])
             /\ ~m.panicked => /\ TracksAll(code, m.states, Append(q, price))
                               /\ \E M : Behaves(M, code, Append(q, price)) /\ m.decision = M[Len(code)].decision
<1> DEFINE m == Run(code, kept, price)
           n == Len(code)
           all == Append(q, price)
<1>1. PICK M : RunSteps(M, code, kept, price) /\ m = M[n]
  BY RunUnfolds
<1> HIDE DEF m
<1>2. n \in Nat /\ n \in 0..n
  BY LenProperties
<1>3. ASSUME \E i \in 1..n : Fatal(code[i]) PROVE m.panicked
  BY <1>1, <1>3, FatalPanics
<1>4. ASSUME \A i \in 1..n : ~Fatal(code[i])
      PROVE  /\ ~m.panicked /\ TracksAll(code, m.states, all)
             /\ Behaves(M, code, all)
  <2>1. ~m.panicked
    BY <1>1, <1>2, <1>4, OthersSurvive
  <2>2. Kept(kept, code) /\ TracksAll(code, kept, q)
    BY <1>4 DEF TracksAll
  <2>3. /\ Kept(m.states, code)
        /\ \A i \in 1..n : code[i].op \in Indicators =>
             m.states[code[i].slot + 1] = StateNext(code[i], kept[code[i].slot + 1], price)
        /\ \A i \in 1..n :
             /\ M[i].stack = StackAfter(M[i - 1].stack, code[i], ValueOf(code[i], kept, price))
             /\ M[i].decision = DecisionAfter(M[i - 1].stack, M[i - 1].decision, code[i])
    BY <1>1, <1>4, <2>2, RunDoes
  <2>4. all \in Seq(Nat) /\ all # <<>> /\ all[Len(all)] = price /\ Last(all) = price
    <3>1. all \in Seq(Nat) /\ Len(all) = Len(q) + 1 /\ all[Len(q) + 1] = price /\ Len(q) \in Nat
      BY AppendProperties, LenProperties
    <3> QED
      BY <3>1, EmptySeq DEF Last
  <2> HIDE DEF all
  <2>5. ASSUME NEW i \in 1..n, code[i].op \in Indicators
        PROVE  LET next == StateNext(code[i], kept[code[i].slot + 1], price)
               IN  Tracks(code[i], next, all) /\ StateValue(code[i], next, price) = Reading(code[i], all)
    <3> DEFINE op == code[i]
               state == kept[op.slot + 1]
               next == StateNext(op, state, price)
    <3>1. op \in Instructions /\ op.n \in Nat /\ op.op \in Indicators /\ ~Fatal(op) /\ Tracks(op, state, q)
      BY <1>4, <2>2, <2>5, PlacedAt DEF TracksAll
    <3> HIDE DEF op, state
    <3>2. Tracks(op, next, all)
      BY <3>1, StateGoesOn DEF all
    <3> HIDE DEF next
    <3>3. StateValue(op, next, all[Len(all)]) = Reading(op, all)
      BY <2>4, <3>1, <3>2, StateReads
    <3> QED
      BY <2>4, <3>2, <3>3 DEF next, state, op
  <2>6. TracksAll(code, m.states, all)
    BY <2>3, <2>5 DEF TracksAll
  <2>7. \A i \in 1..n : Pushes(code[i]) => ValueOf(code[i], kept, price) = Pushed(code[i], all)
    <3>1. ASSUME NEW i \in 1..n, code[i].op \in Indicators
          PROVE  ValueOf(code[i], kept, price) = Pushed(code[i], all)
      <4>1. code[i].op # "price" /\ code[i].op # "const"
        BY <3>1 DEF Indicators
      <4> QED
        BY <2>5, <3>1, <4>1 DEF ValueOf, Pushed
    <3>2. ASSUME NEW i \in 1..n, code[i].op = "price" \/ code[i].op = "const"
          PROVE  ValueOf(code[i], kept, price) = Pushed(code[i], all)
      BY <2>4, <3>2 DEF ValueOf, Pushed
    <3> QED
      BY <3>1, <3>2 DEF Pushes
  <2>8. \A i \in 1..n : StackAfter(M[i - 1].stack, code[i], ValueOf(code[i], kept, price))
                        = StackAfter(M[i - 1].stack, code[i], Pushed(code[i], all))
    BY <2>7 DEF StackAfter
  <2>9. M[0].stack = <<>> /\ M[0].decision = "none"
    BY <1>1 DEF RunSteps, Fresh
  <2>10. Behaves(M, code, all)
    BY <2>3, <2>8, <2>9 DEF Behaves
  <2> QED
    BY <2>1, <2>6, <2>10
<1> QED
  BY <1>1, <1>3, <1>4 DEF m

----------------------------------------------------------------------------
(* The stack of a program that finds its operands and has room *)

\* A sequence of whatever values.
IsStack(s) == \E S : s \in Seq(S)

\* A push with room, and what it does to the top.
LEMMA PushWithRoom ==
  ASSUME NEW s, IsStack(s), NEW v
  PROVE  /\ Len(s) \in Nat /\ IsStack(Append(s, v)) /\ Len(Append(s, v)) = Len(s) + 1
         /\ Top(Append(s, v)) = v /\ Popped(Append(s, v)) = s
         /\ Len(s) < StackCap => Push(s, v) = Append(s, v)
<1>1. PICK S : s \in Seq(S)
  BY DEF IsStack
<1> DEFINE T == S \cup {v}
           n == Len(s)
           w == Append(s, v)
<1>2. s \in Seq(T) /\ n \in Nat /\ s \in [1..n -> T]
  <2>1. s \in [1..n -> S] /\ n \in Nat
    BY <1>1, LenProperties
  <2>2. s \in [1..n -> T]
    BY <2>1
  <2> QED
    BY <2>1, <2>2, SeqDef
<1>3. v \in T
  OBVIOUS
<1> HIDE DEF T, n
<1>4. w \in Seq(T) /\ Len(w) = n + 1 /\ w[n + 1] = v /\ \A i \in 1..n : w[i] = s[i]
  BY <1>2, <1>3, AppendProperties DEF n
<1> HIDE DEF w
<1>5. w # <<>>
  BY <1>2, <1>4, EmptySeq
<1>6. Top(w) = v
  BY <1>4, <1>5 DEF Top, Last
<1>7. Popped(w) = s
  <2>1. Popped(w) = SubSeq(w, 1, n)
    <3>1. (n + 1) - 1 = n
      BY <1>2
    <3> QED
      BY <1>4, <1>5, <3>1 DEF Popped, Front
  <2>2. SubSeq(w, 1, n) = [i \in 1..n |-> w[i]]
    <3>1. SubSeq(w, 1, n) = [i \in 1..(n - 1 + 1) |-> w[1 + i - 1]]
      BY <1>2
    <3>2. n - 1 + 1 = n /\ \A i \in 1..n : 1 + i - 1 = i
      BY <1>2
    <3> QED
      BY <3>1, <3>2
  <2>3. s = [i \in 1..n |-> s[i]]
    BY <1>2
  <2> QED
    BY <1>4, <2>1, <2>2, <2>3
<1>8. IsStack(w)
  BY <1>4 DEF IsStack
<1>9. n < StackCap => Push(s, v) = w
  BY DEF Push, w, n
<1> QED
  BY <1>2, <1>4, <1>6, <1>7, <1>8, <1>9 DEF w, n

\* A pop.
LEMMA PopShortens ==
  ASSUME NEW s, IsStack(s), Len(s) >= 1
  PROVE  IsStack(Popped(s)) /\ Len(Popped(s)) = Len(s) - 1
<1>1. PICK S : s \in Seq(S)
  BY DEF IsStack
<1>2. Len(s) \in Nat /\ s # <<>>
  BY <1>1, LenProperties, EmptySeq
<1>3. SubSeq(s, 1, Len(s) - 1) \in Seq(S) /\ Len(SubSeq(s, 1, Len(s) - 1)) = Len(s) - 1
  <2> DEFINE n == Len(s)
  <2>1. \A i \in 1..(n - 1) : s[i] \in S
    BY <1>1, <1>2, ElementOfSeq
  <2>2. n - 1 \in Nat
    BY <1>2
  <2> HIDE DEF n
  <2>3. SubSeq(s, 1, n - 1) = [i \in 1..(n - 1) |-> s[i]]
    <3>1. SubSeq(s, 1, n - 1) = [i \in 1..(n - 1 - 1 + 1) |-> s[1 + i - 1]]
      BY <2>2
    <3>2. n - 1 - 1 + 1 = n - 1 /\ \A i \in 1..(n - 1) : 1 + i - 1 = i
      BY <2>2
    <3> QED
      BY <3>1, <3>2
  <2>4. [i \in 1..(n - 1) |-> s[i]] \in [1..(n - 1) -> S]
    BY <2>1
  <2>5. [i \in 1..(n - 1) |-> s[i]] \in Seq(S)
    BY <2>2, <2>4, SeqDef
  <2> DEFINE w == [i \in 1..(n - 1) |-> s[i]]
  <2>6. w \in Seq(S) /\ DOMAIN w = 1..(n - 1)
    BY <2>5
  <2> HIDE DEF w
  <2>7. Len(w) = n - 1
    BY <2>2, <2>6, LenProperties
  <2> QED
    BY <2>3, <2>6, <2>7 DEF w, n
<1>4. Popped(s) = SubSeq(s, 1, Len(s) - 1)
  BY <1>2 DEF Popped, Front
<1> QED
  BY <1>3, <1>4 DEF IsStack

\* An instruction that finds its operands, and has room for its result.
LEMMA StackMoves ==
  ASSUME NEW s, IsStack(s), NEW op \in Instructions, Operands(op) <= Len(s),
         Len(s) - Operands(op) + Results(op) <= StackCap, NEW v
  PROVE  /\ IsStack(StackAfter(s, op, v))
         /\ Len(StackAfter(s, op, v)) = Len(s) - Operands(op) + Results(op)
<1> DEFINE n == Len(s)
           next == StackAfter(s, op, v)
<1>0. n \in Nat /\ StackCap \in Nat
  BY PushWithRoom, StackAssumption
<1>1. CASE Pushes(op)
  <2>1. Operands(op) = 0 /\ Results(op) = 1
    BY <1>1 DEF Pushes, Operands, Results, Indicators, Comparisons, Gates
  <2>2. next = Push(s, v)
    BY <1>1 DEF StackAfter
  <2>3. n < StackCap
    BY <1>0, <2>1
  <2> HIDE DEF next
  <2>4. IsStack(next) /\ Len(next) = n + 1
    <3>1. next = Append(s, v)
      BY <2>2, <2>3, PushWithRoom
    <3> QED
      BY <3>1, PushWithRoom
  <2> QED
    BY <1>0, <2>1, <2>4 DEF next
<1>2. CASE ~Pushes(op) /\ op.op \in Comparisons \cup Gates
  <2> DEFINE rest == Popped(Popped(s))
             c == Combine(op.op, Top(Popped(s)), Top(s))
  <2>1. Operands(op) = 2 /\ Results(op) = 1
    BY <1>2 DEF Operands, Results, Comparisons, Gates
  <2>2. next = Push(rest, c)
    BY <1>2 DEF StackAfter
  <2>3. IsStack(Popped(s)) /\ Len(Popped(s)) = n - 1
    BY <1>0, <2>1, PopShortens
  <2>4. IsStack(rest) /\ Len(rest) = n - 2
    <3>1. Len(Popped(s)) >= 1
      BY <1>0, <2>1, <2>3
    <3>2. IsStack(rest) /\ Len(rest) = Len(Popped(s)) - 1
      BY <2>3, <3>1, PopShortens
    <3> QED
      BY <1>0, <2>3, <3>2
  <2> HIDE DEF rest, c, next
  <2>5. Len(rest) < StackCap
    BY <1>0, <2>1, <2>4
  <2>6. IsStack(next) /\ Len(next) = Len(rest) + 1
    <3>1. next = Append(rest, c)
      BY <2>2, <2>4, <2>5, PushWithRoom
    <3> QED
      BY <2>4, <3>1, PushWithRoom
  <2> QED
    BY <1>0, <2>1, <2>4, <2>6 DEF next
<1>3. CASE ~Pushes(op) /\ op.op = "not"
  <2> DEFINE rest == Popped(s)
             c == Bool(Top(s) <= 0)
  <2>1. Operands(op) = 1 /\ Results(op) = 1 /\ op.op \notin Comparisons \cup Gates
    BY <1>3 DEF Operands, Results, Comparisons, Gates
  <2>2. next = Push(rest, c)
    BY <1>3, <2>1 DEF StackAfter
  <2>3. IsStack(rest) /\ Len(rest) = n - 1
    BY <1>0, <2>1, PopShortens
  <2> HIDE DEF rest, c, next
  <2>4. Len(rest) < StackCap
    BY <1>0, <2>1, <2>3
  <2>5. IsStack(next) /\ Len(next) = Len(rest) + 1
    <3>1. next = Append(rest, c)
      BY <2>2, <2>3, <2>4, PushWithRoom
    <3> QED
      BY <2>3, <3>1, PushWithRoom
  <2> QED
    BY <1>0, <2>1, <2>3, <2>5 DEF next
<1>4. CASE ~Pushes(op) /\ op.op \in Sides
  <2>1. Operands(op) = 1 /\ Results(op) = 0 /\ op.op \notin Comparisons \cup Gates /\ op.op # "not"
    BY <1>4 DEF Operands, Results, Comparisons, Gates, Sides
  <2>2. next = Popped(s)
    BY <1>4, <2>1 DEF StackAfter
  <2>3. IsStack(Popped(s)) /\ Len(Popped(s)) = n - 1
    BY <1>0, <2>1, PopShortens
  <2> QED
    BY <1>0, <2>1, <2>2, <2>3
<1>5. op.op \in OpNames
  BY DEF Instructions
<1> QED
  BY <1>1, <1>2, <1>3, <1>4, <1>5 DEF OpNames, Pushes, Sides

\* Along a program the stack is as deep as Depths says.
LEMMA StackDepth ==
  ASSUME NEW P \in Seq(Instructions), Found(P), Fits(P), NEW q, NEW M, Behaves(M, P, q)
  PROVE  \A i \in 0..Len(P) : IsStack(M[i].stack) /\ Len(M[i].stack) = Depths(P)[i]
<1> DEFINE n == Len(P)
           Good(i) == IsStack(M[i].stack) /\ Len(M[i].stack) = Depths(P)[i]
           X == {i \in Nat : i <= n => Good(i)}
<1>0. n \in Nat /\ DOMAIN P = 1..n
  BY LenProperties
<1>1. 0 \in X
  <2>1. M[0].stack = <<>> /\ Len(<<>>) = 0 /\ <<>> \in Seq(Nat)
    BY EmptySeq DEF Behaves
  <2>2. Depths(P)[0] = 0
    BY DepthsUnfolds
  <2> QED
    BY <2>1, <2>2 DEF IsStack
<1>2. ASSUME NEW i \in Nat, i \in X PROVE i + 1 \in X
  <2> SUFFICES ASSUME i + 1 <= n PROVE Good(i + 1)
    OBVIOUS
  <2> DEFINE op == P[i + 1]
             s == M[i].stack
  <2>1. i + 1 \in 1..n /\ (i + 1) - 1 = i /\ Good(i)
    BY <1>0, <1>2
  <2>2. op \in Instructions /\ Operands(op) <= Depths(P)[i]
    BY <2>1, ElementOfSeq DEF Found
  <2>3. Depths(P)[i + 1] = Depths(P)[i] - Operands(op) + Results(op)
    BY <2>1, DepthsUnfolds
  <2>4. Depths(P)[i + 1] <= StackCap
    BY <1>0, <2>1 DEF Fits
  <2>5. M[i + 1].stack = StackAfter(s, op, Pushed(op, q))
    BY <2>1 DEF Behaves
  <2>6. IsStack(s) /\ Len(s) = Depths(P)[i]
    BY <2>1
  <2> HIDE DEF op, s
  <2> QED
    BY <2>2, <2>3, <2>4, <2>5, <2>6, StackMoves
<1> HIDE DEF X
<1>3. \A i \in Nat : i \in X
  BY <1>1, <1>2, NaturalsIn
<1> QED
  BY <1>0, <1>3 DEF X

\* What a program does at its i-th instruction, in terms of what is on the stack.
LEMMA PushEffect ==
  ASSUME NEW P \in Seq(Instructions), Found(P), Fits(P), NEW q, NEW M, Behaves(M, P, q),
         NEW i \in 1..Len(P), Pushes(P[i])
  PROVE  /\ M[i].stack = Append(M[i - 1].stack, Pushed(P[i], q))
         /\ M[i].decision = M[i - 1].decision
<1> DEFINE op == P[i]
           s == M[i - 1].stack
<1>1. Len(P) \in Nat /\ DOMAIN P = 1..Len(P)
  BY LenProperties
<1>2. i - 1 \in 0..Len(P) /\ op \in Instructions
  BY <1>1, ElementOfSeq
<1>3. IsStack(s) /\ Len(s) = Depths(P)[i - 1]
  BY <1>2, StackDepth
<1>4. Depths(P)[i] = Depths(P)[i - 1] - 0 + 1 /\ op.op \notin Sides
  <2>1. Operands(op) = 0 /\ Results(op) = 1 /\ op.op \notin Sides
    BY DEF Pushes, Operands, Results, Indicators, Comparisons, Gates, Sides
  <2> QED
    BY <2>1, DepthsUnfolds
<1>5. Depths(P)[i] <= StackCap
  BY <1>1 DEF Fits
<1>6. M[i].stack = StackAfter(s, op, Pushed(op, q)) /\ M[i].decision = DecisionAfter(s, M[i - 1].decision, op)
  BY DEF Behaves
<1> DEFINE v == Pushed(op, q)
<1>7. StackAfter(s, op, v) = Push(s, v) /\ DecisionAfter(s, M[i - 1].decision, op) = M[i - 1].decision
  BY <1>4 DEF StackAfter, DecisionAfter
<1> HIDE DEF s, v, op
<1>8. Len(s) < StackCap
  BY <1>3, <1>4, <1>5, PushWithRoom, StackAssumption
<1>9. Push(s, v) = Append(s, v)
  BY <1>3, <1>8, PushWithRoom
<1> QED
  BY <1>6, <1>7, <1>9 DEF s, v, op

\* A stack has a and then b above s.
TwoAbove(stack, s, a, b) == stack = Append(Append(s, a), b)

\* A comparison or a gate of two values.
LEMMA FoldEffect ==
  ASSUME NEW P \in Seq(Instructions), Found(P), Fits(P), NEW q, NEW M, Behaves(M, P, q),
         NEW i \in 1..Len(P), P[i].op \in Comparisons \cup Gates,
         NEW s, IsStack(s), NEW a, NEW b, TwoAbove(M[i - 1].stack, s, a, b)
  PROVE  /\ M[i].stack = Append(s, Combine(P[i].op, a, b))
         /\ M[i].decision = M[i - 1].decision
<1> DEFINE op == P[i]
           two == Append(Append(s, a), b)
           c == Combine(op.op, a, b)
<1>1. Len(P) \in Nat /\ DOMAIN P = 1..Len(P) /\ i - 1 \in 0..Len(P)
  BY LenProperties
<1>2. M[i - 1].stack = two /\ Len(two) = Depths(P)[i - 1]
  BY <1>1, StackDepth DEF TwoAbove
<1>3. /\ Operands(op) = 2 /\ Results(op) = 1 /\ op.op \notin Sides /\ ~Pushes(op)
  BY DEF Pushes, Operands, Results, Indicators, Comparisons, Gates, Sides
<1>4. Depths(P)[i] = Depths(P)[i - 1] - 2 + 1 /\ Depths(P)[i] <= StackCap
  BY <1>1, <1>3, DepthsUnfolds DEF Fits
<1>5. /\ IsStack(Append(s, a)) /\ Len(s) \in Nat /\ Len(Append(s, a)) = Len(s) + 1
      /\ Top(Append(s, a)) = a /\ Popped(Append(s, a)) = s
  BY PushWithRoom
<1>6. Len(two) = Len(Append(s, a)) + 1 /\ Top(two) = b /\ Popped(two) = Append(s, a)
  BY <1>5, PushWithRoom
<1>7. /\ M[i].stack = StackAfter(two, op, Pushed(op, q))
      /\ M[i].decision = DecisionAfter(two, M[i - 1].decision, op)
  BY <1>2 DEF Behaves
<1> HIDE DEF two, op
<1>8. StackAfter(two, op, Pushed(op, q)) = Push(s, c)
  BY <1>3, <1>5, <1>6 DEF StackAfter, op
<1>9. DecisionAfter(two, M[i - 1].decision, op) = M[i - 1].decision
  BY <1>3 DEF DecisionAfter
<1> HIDE DEF c
<1>10. Len(s) < StackCap
  BY <1>2, <1>4, <1>5, <1>6, StackAssumption
<1>11. Push(s, c) = Append(s, c)
  BY <1>10, PushWithRoom
<1> QED
  BY <1>7, <1>8, <1>9, <1>11 DEF op, c

\* A terminal takes a value and decides, or not.
LEMMA TerminalEffect ==
  ASSUME NEW P \in Seq(Instructions), NEW q, NEW M, Behaves(M, P, q),
         NEW i \in 1..Len(P), P[i].op \in Sides,
         NEW s, IsStack(s), NEW v, M[i - 1].stack = Append(s, v)
  PROVE  /\ M[i].stack = s
         /\ M[i].decision = IF v > 0 THEN P[i].op ELSE M[i - 1].decision
<1> DEFINE op == P[i]
           one == Append(s, v)
<1>1. /\ ~Pushes(op) /\ op.op \notin Comparisons \cup Gates /\ op.op # "not"
  BY DEF Pushes, Indicators, Comparisons, Gates, Sides
<1>2. Top(one) = v /\ Popped(one) = s
  BY PushWithRoom
<1>3. /\ M[i].stack = StackAfter(one, op, Pushed(op, q))
      /\ M[i].decision = DecisionAfter(one, M[i - 1].decision, op)
  BY DEF Behaves
<1> HIDE DEF one
<1> QED
  BY <1>1, <1>2, <1>3 DEF StackAfter, DecisionAfter

----------------------------------------------------------------------------
(* The code of a node computes its value *)

\* P is a program with operands and room, and M what it does at the last price of q.
Plays(M, P, q) == P \in Seq(Instructions) /\ Found(P) /\ Fits(P) /\ Behaves(M, P, q)

\* P starts with code.
Begins(code, P) == Len(code) <= Len(P) /\ \A i \in 1..Len(code) : P[i] = code[i]

\* What is emitted between two lowerers, if it is in P, leaves v on the stack.
Yields(M, P, lo, next, v) ==
  next.err = NoError /\ Begins(next.prog, P) =>
    /\ lo.err = NoError /\ Begins(lo.prog, P)
    /\ M[Len(next.prog)].stack = Append(M[Len(lo.prog)].stack, v)
    /\ M[Len(next.prog)].decision = M[Len(lo.prog)].decision

\* What emit emits for a node leaves the node's value.
Means(M, P, g, emit, values) ==
  \A id \in Ids(g), lo \in Lowerers(g) : Yields(M, P, lo, emit[id][lo], values[id])

\* A program that starts with a longer one starts with a shorter one.
LEMMA BeginsShorter ==
  ASSUME NEW code \in Seq(Instructions), NEW op \in Instructions, NEW P, Begins(Append(code, op), P)
  PROVE  /\ Begins(code, P) /\ Len(code) \in Nat /\ Len(Append(code, op)) = Len(code) + 1
         /\ Len(code) + 1 <= Len(P) /\ P[Len(code) + 1] = op
<1> DEFINE n == Len(code)
           w == Append(code, op)
<1>1. n \in Nat /\ Len(w) = n + 1 /\ w[n + 1] = op /\ \A i \in 1..n : w[i] = code[i]
  BY LenProperties, AppendProperties
<1>2. Len(w) <= Len(P) /\ \A i \in 1..Len(w) : P[i] = w[i]
  BY DEF Begins
<1> HIDE DEF n, w
<1>3. P[n + 1] = op /\ n + 1 <= Len(P) /\ \A i \in 1..n : P[i] = code[i]
  BY <1>1, <1>2
<1>4. n <= Len(P)
  <2>1. CASE Len(P) \in Int
    BY <1>1, <1>3, <2>1
  <2> QED
    BY <1>1, <1>3
<1> QED
  BY <1>1, <1>3, <1>4 DEF Begins, n, w

\* An instruction that takes nothing from the stack.
LEMMA PushYields ==
  ASSUME NEW P, NEW q, NEW M, Plays(M, P, q), NEW g, NEW lo \in Lowerers(g),
         NEW op \in Instructions, Pushes(op)
  PROVE  Yields(M, P, lo, Emit(lo, op), Pushed(op, q))
<1> DEFINE next == Emit(lo, op)
           code == lo.prog
           n == Len(code)
<1> SUFFICES ASSUME next.err = NoError, Begins(next.prog, P)
             PROVE  /\ lo.err = NoError /\ Begins(code, P)
                    /\ M[Len(next.prog)].stack = Append(M[n].stack, Pushed(op, q))
                    /\ M[Len(next.prog)].decision = M[n].decision
  BY DEF Yields
<1>1. lo.err = NoError
  BY DEF Emit, Lowerers
<1>2. code \in Seq(Instructions) /\ next.prog = Append(code, op)
  BY <1>1 DEF Emit, Lowerers
<1> HIDE DEF next, code
<1>3. Begins(code, P) /\ n \in Nat /\ Len(next.prog) = n + 1 /\ n + 1 <= Len(P) /\ P[n + 1] = op
  BY <1>2, BeginsShorter
<1> HIDE DEF n
<1>4. n + 1 \in 1..Len(P) /\ (n + 1) - 1 = n
  <2>1. Len(P) \in Nat
    BY LenProperties DEF Plays
  <2> QED
    BY <1>3, <2>1
<1>5. M[n + 1].stack = Append(M[n].stack, Pushed(op, q)) /\ M[n + 1].decision = M[n].decision
  <2> DEFINE i == n + 1
  <2>1. i \in 1..Len(P) /\ P[i] = op /\ i - 1 = n
    BY <1>3, <1>4
  <2> HIDE DEF i
  <2>2. M[i].stack = Append(M[i - 1].stack, Pushed(P[i], q)) /\ M[i].decision = M[i - 1].decision
    BY <2>1, PushEffect DEF Plays
  <2> QED
    BY <2>1, <2>2 DEF i
<1> QED
  BY <1>1, <1>3, <1>5 DEF n

\* A comparison or a gate of two values.
LEMMA FoldYields ==
  ASSUME NEW P, NEW q, NEW M, Plays(M, P, q), NEW g, NEW lo \in Lowerers(g), NEW mid \in Lowerers(g),
         NEW both \in Lowerers(g), NEW a, NEW b, Yields(M, P, lo, mid, a), Yields(M, P, mid, both, b),
         NEW op \in Instructions, op.op \in Comparisons \cup Gates
  PROVE  Yields(M, P, lo, Emit(both, op), Combine(op.op, a, b))
<1> DEFINE next == Emit(both, op)
           code == both.prog
           n == Len(code)
           l == Len(lo.prog)
           c == Combine(op.op, a, b)
<1> SUFFICES ASSUME next.err = NoError, Begins(next.prog, P)
             PROVE  /\ lo.err = NoError /\ Begins(lo.prog, P)
                    /\ M[Len(next.prog)].stack = Append(M[l].stack, c)
                    /\ M[Len(next.prog)].decision = M[l].decision
  BY DEF Yields
<1>1. both.err = NoError
  BY DEF Emit, Lowerers
<1>2. code \in Seq(Instructions) /\ next.prog = Append(code, op)
  BY <1>1 DEF Emit, Lowerers
<1> HIDE DEF next, code
<1>3. Begins(code, P) /\ n \in Nat /\ Len(next.prog) = n + 1 /\ n + 1 <= Len(P) /\ P[n + 1] = op
  BY <1>2, BeginsShorter
<1>4. /\ lo.err = NoError /\ Begins(lo.prog, P)
      /\ M[n].stack = Append(Append(M[l].stack, a), b) /\ M[n].decision = M[l].decision
  BY <1>1, <1>3 DEF Yields, code
<1> HIDE DEF n
<1>5. Len(P) \in Nat /\ l \in 0..Len(P)
  <2>1. Len(P) \in Nat /\ l \in Nat
    BY LenProperties DEF Plays, Lowerers
  <2> QED
    BY <1>4, <2>1 DEF Begins
<1>6. IsStack(M[l].stack)
  BY <1>5, StackDepth DEF Plays
<1> DEFINE s == M[l].stack
           i == n + 1
<1>7. i \in 1..Len(P) /\ P[i] = op /\ i - 1 = n
  BY <1>3, <1>5
<1> HIDE DEF i, s
<1>8. M[i - 1].stack = Append(Append(s, a), b) /\ IsStack(s)
  BY <1>4, <1>6, <1>7 DEF s
<1>9. M[i].stack = Append(s, Combine(P[i].op, a, b)) /\ M[i].decision = M[i - 1].decision
  <2>1. P \in Seq(Instructions) /\ Found(P) /\ Fits(P) /\ Behaves(M, P, q)
    BY DEF Plays
  <2>2. P[i].op \in Comparisons \cup Gates /\ TwoAbove(M[i - 1].stack, s, a, b)
    BY <1>7, <1>8 DEF TwoAbove
  <2> QED
    BY <1>7, <1>8, <2>1, <2>2, FoldEffect
<1> QED
  BY <1>3, <1>4, <1>7, <1>9 DEF n, i, s

\* After an error nothing is promised.
LEMMA FailYields ==
  ASSUME NEW g, NEW lo \in Lowerers(g), NEW err \in Errors
  PROVE  \A M, P, v : Yields(M, P, lo, Fail(lo, err), v)
<1>1. Fail(lo, err).err = err /\ err # NoError
  BY DEF Fail, Lowerers, Errors, NoError
<1> QED
  BY <1>1 DEF Yields

\* The value of the one input of a condition or a signal.
Single(g, values, id) == IF Inputs(g, id) = <<>> THEN 0 ELSE values[Inputs(g, id)[1]]

\* emit_unary_input leaves the value of the one input.
LEMMA UnaryInputYields ==
  ASSUME NEW P, NEW q, NEW M, Plays(M, P, q), NEW g \in GraphSpecs, Known(g), NEW emit \in Emitters(g),
         NEW values, Means(M, P, g, emit, values), NEW lo \in Lowerers(g), NEW id
  PROVE  Yields(M, P, lo, EmitUnaryInput(emit, g, lo, id), Single(g, values, id))
<1> DEFINE inputs == Inputs(g, id)
<1>1. inputs \in Seq(Ids(g)) /\ Len(inputs) \in Nat
  BY InputsKnown, LenProperties
<1> HIDE DEF inputs
<1>2. CASE Len(inputs) > 1
  <2>1. EmitUnaryInput(emit, g, lo, id) = Fail(lo, "too_many_inputs")
    BY <1>2 DEF EmitUnaryInput, inputs
  <2>2. "too_many_inputs" \in Errors
    BY DEF Errors
  <2> QED
    BY <2>1, <2>2, FailYields
<1>3. CASE ~(Len(inputs) > 1) /\ inputs = <<>>
  <2>1. EmitUnaryInput(emit, g, lo, id) = Emit(lo, Const(0))
    BY <1>3 DEF EmitUnaryInput, inputs
  <2>2. Const(0) \in Instructions /\ Pushes(Const(0)) /\ Pushed(Const(0), q) = 0
    BY DEF Const, Op, Instructions, OpNames, Pushes, Pushed
  <2>3. Single(g, values, id) = 0
    BY <1>3 DEF Single, inputs
  <2> HIDE DEF Const
  <2>4. Yields(M, P, lo, Emit(lo, Const(0)), Pushed(Const(0), q))
    BY <2>2, PushYields
  <2> QED
    BY <2>1, <2>2, <2>3, <2>4
<1>4. CASE ~(Len(inputs) > 1) /\ inputs # <<>>
  <2>1. EmitUnaryInput(emit, g, lo, id) = emit[inputs[1]][lo]
    BY <1>4 DEF EmitUnaryInput, inputs
  <2>2. inputs[1] \in Ids(g)
    <3>1. Len(inputs) # 0
      BY <1>1, <1>4, EmptySeq
    <3> QED
      BY <1>1, <3>1, ElementOfSeq
  <2>3. Single(g, values, id) = values[inputs[1]]
    BY <1>4 DEF Single, inputs
  <2> QED
    BY <2>1, <2>2, <2>3 DEF Means
<1> QED
  BY <1>2, <1>3, <1>4

\* A condition compares its input with its threshold.
LEMMA ConditionYields ==
  ASSUME NEW P, NEW q, NEW M, Plays(M, P, q), NEW g \in GraphSpecs, Known(g), NEW emit \in Emitters(g),
         NEW values, Means(M, P, g, emit, values), NEW lo \in Lowerers(g),
         NEW node \in Nodes, node.type = "condition"
  PROVE  Yields(M, P, lo, EmitCondition(emit, g, lo, node),
                Combine(node.cmp, Single(g, values, node.id), node.n))
<1> DEFINE first == EmitUnaryInput(emit, g, lo, node.id)
           level == Const(node.n)
           both == Emit(first, level)
           test == Plain(node.cmp)
           v == Single(g, values, node.id)
<1>1. first \in Lowerers(g) /\ Yields(M, P, lo, first, v)
  BY UnaryInputGrows, UnaryInputYields
<1> HIDE DEF first, v
<1>2. node.n \in Int /\ node.cmp \in Comparisons
  BY DEF Nodes
<1>3. /\ level \in Instructions /\ level.op \notin Indicators /\ Pushes(level) /\ Pushed(level, q) = node.n
  BY <1>2 DEF Const, Op, Instructions, OpNames, Indicators, Pushes, Pushed
<1>4. test \in Instructions /\ test.op \in Comparisons \cup Gates /\ test.op = node.cmp
  BY <1>2 DEF Plain, Op, Instructions, OpNames, Comparisons, Gates
<1> HIDE DEF level, test
<1>5. both \in Lowerers(g) /\ Yields(M, P, first, both, node.n)
  <2>1. both \in Lowerers(g)
    BY <1>1, <1>3, EmitSound
  <2>2. Yields(M, P, first, both, Pushed(level, q))
    BY <1>1, <1>3, PushYields
  <2> QED
    BY <1>3, <2>1, <2>2
<1> HIDE DEF both
<1>6. Yields(M, P, lo, Emit(both, test), Combine(test.op, v, node.n))
  BY <1>1, <1>4, <1>5, FoldYields
<1> QED
  BY <1>4, <1>6 DEF EmitCondition, first, level, both, test, v

\* An indicator pushes its reading.
LEMMA IndicatorYields ==
  ASSUME NEW P, NEW q, NEW M, Plays(M, P, q), NEW g, NEW lo \in Lowerers(g),
         NEW node \in Nodes, node.type \in Indicators
  PROVE  Yields(M, P, lo, EmitIndicator(lo, node), Reading([op |-> node.type, n |-> node.n], q))
<1> DEFINE op == Op(node.type, node.n, lo.nextSlot)
           next == EmitIndicator(lo, node)
           mid == Emit(lo, op)
<1>1. op \in Instructions /\ op.op \in Indicators
  BY DEF Op, Instructions, OpNames, Nodes, Lowerers
<1>2. Pushes(op) /\ Pushed(op, q) = Reading([op |-> node.type, n |-> node.n], q)
  <2>1. op.op # "price" /\ op.op # "const"
    BY <1>1 DEF Indicators
  <2>2. op.op = node.type /\ op.n = node.n
    BY DEF Op
  <2> HIDE DEF op
  <2> QED
    BY <1>1, <2>1, <2>2 DEF Pushes, Pushed, Reading
<1>3. next.err = mid.err /\ next.prog = mid.prog
  <2>1. next = [mid EXCEPT !.nextSlot = @ + 1]
    BY DEF EmitIndicator
  <2> HIDE DEF next, mid
  <2> QED
    BY <2>1
<1> HIDE DEF op
<1>4. Yields(M, P, lo, mid, Pushed(op, q))
  BY <1>1, <1>2, PushYields
<1> HIDE DEF next, mid
<1>5. Yields(M, P, lo, next, Pushed(op, q))
  BY <1>3, <1>4 DEF Yields
<1> QED
  BY <1>2, <1>5 DEF next

\* What the first i inputs of a gate make.
Upto(type, vals, i) ==
  IF i = 1 THEN vals[1]
  ELSE IF type = "and_gate" THEN Bool(\A j \in 1..i : vals[j] > 0)
  ELSE Bool(\E j \in 1..i : vals[j] > 0)

\* A gate folds its inputs two at a time.
LEMMA UptoGoesOn ==
  ASSUME NEW node, NEW vals, NEW i \in Nat, i >= 1
  PROVE  Combine(FoldOf(node).op, Upto(node.type, vals, i), vals[i + 1]) = Upto(node.type, vals, i + 1)
<1> DEFINE a == Upto(node.type, vals, i)
           b == vals[i + 1]
           all == \A j \in 1..i : vals[j] > 0
           any == \E j \in 1..i : vals[j] > 0
<1>0. \A j \in 1..(i + 1) : j \in 1..i \/ j = i + 1
  OBVIOUS
<1>1. i \in 1..i /\ i + 1 \in 1..(i + 1) /\ i + 1 # 1 /\ \A j \in 1..i : j \in 1..(i + 1)
  OBVIOUS
<1>2. \A c \in BOOLEAN : Bool(c) > 0 <=> c
  BY DEF Bool, One
<1>3. CASE node.type = "and_gate"
  <2>1. FoldOf(node).op = "and"
    BY <1>3 DEF FoldOf, Plain, Op
  <2>2. a > 0 <=> all
    <3>1. CASE i = 1
      BY <3>1 DEF Upto
    <3>2. CASE i # 1
      <4>1. a = Bool(all)
        BY <1>3, <3>2 DEF Upto
      <4> HIDE DEF a
      <4> QED
        BY <1>2, <4>1
    <3> QED
      BY <3>1, <3>2
  <2>3. all /\ b > 0 <=> \A j \in 1..(i + 1) : vals[j] > 0
    BY <1>0, <1>1
  <2> HIDE DEF a, b
  <2>4. Combine("and", a, b) = Bool(a > 0 /\ b > 0)
    BY DEF Combine
  <2>5. Upto(node.type, vals, i + 1) = Bool(\A j \in 1..(i + 1) : vals[j] > 0)
    BY <1>1, <1>3 DEF Upto
  <2> QED
    BY <2>1, <2>2, <2>3, <2>4, <2>5 DEF a, b, Bool
<1>4. CASE node.type # "and_gate"
  <2>1. FoldOf(node).op = "or"
    BY <1>4 DEF FoldOf, Plain, Op
  <2>2. a > 0 <=> any
    <3>1. CASE i = 1
      BY <3>1 DEF Upto
    <3>2. CASE i # 1
      <4>1. a = Bool(any)
        BY <1>4, <3>2 DEF Upto
      <4> HIDE DEF a
      <4> QED
        BY <1>2, <4>1
    <3> QED
      BY <3>1, <3>2
  <2>3. any \/ b > 0 <=> \E j \in 1..(i + 1) : vals[j] > 0
    BY <1>0, <1>1
  <2> HIDE DEF a, b
  <2>4. Combine("or", a, b) = Bool(a > 0 \/ b > 0)
    BY DEF Combine
  <2>5. Upto(node.type, vals, i + 1) = Bool(\E j \in 1..(i + 1) : vals[j] > 0)
    BY <1>1, <1>4 DEF Upto
  <2> QED
    BY <2>1, <2>2, <2>3, <2>4, <2>5 DEF a, b, Bool
<1> QED
  BY <1>3, <1>4

\* The values of the inputs of a node.
InputValues(g, values, id) == [i \in DOMAIN Inputs(g, id) |-> values[Inputs(g, id)[i]]]

\* A gate computes its value.
LEMMA GateYields ==
  ASSUME NEW P, NEW q, NEW M, Plays(M, P, q), NEW g \in GraphSpecs, Known(g), NEW emit \in Emitters(g),
         NEW values, Means(M, P, g, emit, values), NEW lo \in Lowerers(g), NEW node
  PROVE  Yields(M, P, lo, EmitGate(emit, g, lo, node),
                GateValue(node.type, InputValues(g, values, node.id)))
<1> DEFINE inputs == Inputs(g, node.id)
           vals == InputValues(g, values, node.id)
           n == Len(inputs)
           op == FoldOf(node)
<1>1. inputs \in Seq(Ids(g)) /\ n \in Nat /\ DOMAIN inputs = 1..n
  BY InputsKnown, LenProperties
<1>2. PICK after \in [0..n -> Lowerers(g)] :
        /\ GateSteps(after, emit, g, lo, node)
        /\ EmitGate(emit, g, lo, node) = IF n = 0 THEN Emit(lo, Const(0)) ELSE after[n]
  BY GateUnfolds DEF Emitters
<1>3. op \in Instructions /\ op.op \in Comparisons \cup Gates
  BY DEF FoldOf, Plain, Op, Instructions, OpNames, Comparisons, Gates
<1>4. DOMAIN vals = 1..n /\ \A i \in 1..n : vals[i] = values[inputs[i]]
  BY <1>1 DEF InputValues
<1>5. vals = [i \in 1..n |-> values[inputs[i]]]
  BY <1>1 DEF InputValues
<1> HIDE DEF op, vals
<1> DEFINE v(i) == Upto(node.type, vals, i)
           X == {i \in Nat : i \in 1..n => Yields(M, P, lo, after[i], v(i))}
<1>6. 0 \in X
  OBVIOUS
<1>7. ASSUME NEW i \in Nat, i \in X PROVE i + 1 \in X
  <2> SUFFICES ASSUME i + 1 \in 1..n PROVE Yields(M, P, lo, after[i + 1], v(i + 1))
    OBVIOUS
  <2> DEFINE next == emit[inputs[i + 1]][after[i]]
  <2>1. i \in 0..n /\ (i + 1) - 1 = i /\ after[i] \in Lowerers(g) /\ inputs[i + 1] \in Ids(g)
    BY <1>1, ElementOfSeq
  <2>2. next \in Lowerers(g) /\ Yields(M, P, after[i], next, vals[i + 1])
    BY <1>4, <2>1 DEF Emitters, Means
  <2>3. after[i + 1] = IF i + 1 = 1 THEN next ELSE Emit(next, op)
    BY <1>2, <2>1 DEF GateSteps, op
  <2> HIDE DEF next
  <2>4. CASE i = 0
    <3>1. v(i + 1) = vals[i + 1]
      BY <2>4 DEF Upto
    <3> QED
      BY <1>2, <2>2, <2>3, <2>4, <3>1 DEF GateSteps
  <2>5. CASE i # 0
    <3>1. Yields(M, P, lo, after[i], v(i))
      BY <1>7, <2>1, <2>5
    <3>2. Combine(op.op, v(i), vals[i + 1]) = v(i + 1)
      BY <2>5, UptoGoesOn DEF op
    <3> HIDE DEF v
    <3>3. Yields(M, P, lo, Emit(next, op), Combine(op.op, v(i), vals[i + 1]))
      BY <1>3, <2>1, <2>2, <3>1, FoldYields
    <3> QED
      BY <2>3, <2>5, <3>2, <3>3
  <2> QED
    BY <2>4, <2>5
<1> HIDE DEF X
<1>8. n \in X
  BY <1>1, <1>6, <1>7, NaturalsIn
<1>9. CASE n = 0
  <2>1. EmitGate(emit, g, lo, node) = Emit(lo, Const(0))
    BY <1>2, <1>9
  <2>2. Const(0) \in Instructions /\ Pushes(Const(0)) /\ Pushed(Const(0), q) = 0
    BY DEF Const, Op, Instructions, OpNames, Pushes, Pushed
  <2>3. GateValue(node.type, vals) = 0
    <3>1. 1..n = {}
      BY <1>9
    <3>2. vals = <<>>
      BY <1>5, <3>1
    <3> QED
      BY <3>2 DEF GateValue
  <2> HIDE DEF Const
  <2>4. Yields(M, P, lo, Emit(lo, Const(0)), Pushed(Const(0), q))
    BY <2>2, PushYields
  <2> QED
    BY <2>1, <2>2, <2>3, <2>4 DEF vals
<1>10. CASE n # 0
  <2>1. n \in 1..n /\ n \in 0..n
    BY <1>1, <1>10
  <2>2. Yields(M, P, lo, after[n], v(n))
    BY <1>8, <2>1 DEF X
  <2>3. vals # <<>> /\ Len(vals) = n
    <3> DEFINE S == {values[inputs[i]] : i \in 1..n}
    <3>1. vals \in [1..n -> S]
      BY <1>5
    <3>2. vals \in Seq(S)
      BY <1>1, <3>1, SeqDef
    <3> HIDE DEF S, n
    <3>3. Len(vals) = n
      BY <1>1, <1>4, <3>2, LenProperties
    <3> QED
      BY <1>10, <3>3, EmptySeq
  <2>4. GateValue(node.type, vals) = v(n)
    BY <1>4, <1>10, <2>3 DEF GateValue, Upto
  <2> QED
    BY <1>2, <1>10, <2>2, <2>4 DEF vals
<1> QED
  BY <1>9, <1>10

\* A node computes its value, if the nodes behind it do.
LEMMA BodyYields ==
  ASSUME NEW P, NEW q, NEW M, Plays(M, P, q), NEW g \in GraphSpecs, Known(g), NEW emit \in Emitters(g),
         NEW values, Means(M, P, g, emit, values), NEW lo \in Lowerers(g), NEW id \in Ids(g)
  PROVE  Yields(M, P, lo, EmitBody(emit, g, lo, id), ValueFrom(g, id, q, values))
<1> DEFINE node == NodeOf(g, id)
           body == EmitBody(emit, g, lo, id)
           v == ValueFrom(g, id, q, values)
<1>1. node \in Nodes /\ node.id = id
  BY NodeFound
<1>2. LET vals == InputValues(g, values, id)
      IN  (IF vals = <<>> THEN 0 ELSE vals[1]) = Single(g, values, id)
  <2> DEFINE inputs == Inputs(g, id)
             vals == InputValues(g, values, id)
  <2>1. inputs \in Seq(Ids(g)) /\ DOMAIN inputs = 1..Len(inputs) /\ Len(inputs) \in Nat
    BY InputsKnown, LenProperties
  <2>2. vals = [i \in DOMAIN inputs |-> values[inputs[i]]]
    BY DEF InputValues
  <2> HIDE DEF inputs, vals
  <2>3. CASE inputs = <<>>
    <3>1. DOMAIN inputs = {}
      BY <2>3
    <3>2. vals = <<>>
      BY <2>2, <3>1
    <3> QED
      BY <2>3, <3>2 DEF Single, inputs, vals
  <2>4. CASE inputs # <<>>
    <3>1. 1 \in DOMAIN inputs
      BY <2>1, <2>4, EmptySeq
    <3>2. vals # <<>> /\ vals[1] = values[inputs[1]]
      BY <2>2, <3>1
    <3> QED
      BY <2>4, <3>2 DEF Single, inputs, vals
  <2> QED
    BY <2>3, <2>4
<1> HIDE DEF node
<1>3. CASE node.type = "data_source"
  <2> DEFINE op == Plain("price")
  <2>1. body = Emit(lo, op)
    BY <1>3 DEF EmitBody, node, Indicators, GateTypes, Signals, KnownTypes
  <2>2. op \in Instructions /\ Pushes(op) /\ Pushed(op, q) = One * Last(q)
    BY DEF Plain, Op, Instructions, OpNames, Pushes, Pushed
  <2>3. v = One * Last(q)
    BY <1>3 DEF ValueFrom, node, Signals, GateTypes, KnownTypes
  <2> HIDE DEF op, body, v
  <2>4. Yields(M, P, lo, Emit(lo, op), Pushed(op, q))
    BY <2>2, PushYields
  <2> QED
    BY <2>1, <2>2, <2>3, <2>4 DEF body, v
<1>4. CASE node.type \in Indicators
  <2>1. body = EmitIndicator(lo, node)
    BY <1>4 DEF EmitBody, node, Indicators, GateTypes, Signals, KnownTypes
  <2>2. v = Reading([op |-> node.type, n |-> node.n], q)
    <3>1. CASE node.type = "ema"
      BY <3>1 DEF ValueFrom, node, Reading, Signals, GateTypes, KnownTypes
    <3>2. CASE node.type = "momentum"
      BY <3>2 DEF ValueFrom, node, Reading, Signals, GateTypes, KnownTypes
    <3>3. CASE node.type = "reversion"
      BY <3>3 DEF ValueFrom, node, Reading, Signals, GateTypes, KnownTypes
    <3> QED
      BY <1>4, <3>1, <3>2, <3>3 DEF Indicators
  <2> HIDE DEF body, v
  <2>3. Yields(M, P, lo, EmitIndicator(lo, node), Reading([op |-> node.type, n |-> node.n], q))
    BY <1>1, <1>4, IndicatorYields
  <2> QED
    BY <2>1, <2>2, <2>3 DEF body, v
<1>5. CASE node.type = "condition"
  <2>1. body = EmitCondition(emit, g, lo, node)
    BY <1>5 DEF EmitBody, node, Indicators, GateTypes, Signals, KnownTypes
  <2>2. v = Combine(node.cmp, Single(g, values, id), node.n)
    BY <1>2, <1>5 DEF ValueFrom, node, InputValues, Signals, GateTypes, KnownTypes
  <2> HIDE DEF body, v
  <2>3. Yields(M, P, lo, EmitCondition(emit, g, lo, node), Combine(node.cmp, Single(g, values, node.id), node.n))
    BY <1>1, <1>5, ConditionYields
  <2> QED
    BY <1>1, <2>1, <2>2, <2>3 DEF body, v
<1>6. CASE node.type \in GateTypes
  <2>1. body = EmitGate(emit, g, lo, node)
    BY <1>6 DEF EmitBody, node, Indicators, GateTypes, Signals, KnownTypes
  <2>2. v = GateValue(node.type, InputValues(g, values, id))
    BY <1>6 DEF ValueFrom, node, InputValues, Signals, GateTypes, KnownTypes
  <2> HIDE DEF body, v
  <2>3. Yields(M, P, lo, EmitGate(emit, g, lo, node), GateValue(node.type, InputValues(g, values, node.id)))
    BY GateYields
  <2> QED
    BY <1>1, <2>1, <2>2, <2>3 DEF body, v
<1>7. CASE node.type \in Signals
  <2>1. body = EmitUnaryInput(emit, g, lo, id)
    BY <1>7 DEF EmitBody, node, Indicators, GateTypes, Signals, KnownTypes
  <2>2. v = Single(g, values, id)
    BY <1>2, <1>7 DEF ValueFrom, node, InputValues, Signals, GateTypes, KnownTypes
  <2> HIDE DEF body, v
  <2> QED
    BY <2>1, <2>2, UnaryInputYields DEF body, v
<1>8. CASE node.type \notin KnownTypes
  <2>1. body = Fail(lo, "unknown_type")
    BY <1>8 DEF EmitBody, node, Indicators, GateTypes, Signals, KnownTypes
  <2>2. "unknown_type" \in Errors
    BY DEF Errors
  <2> QED
    BY <2>1, <2>2, FailYields
<1> QED
  BY <1>3, <1>4, <1>5, <1>6, <1>7, <1>8 DEF KnownTypes, Indicators

\* A call of emit_node computes the value of its node, if the calls below it do.
LEMMA EmitOneYields ==
  ASSUME NEW P, NEW q, NEW M, Plays(M, P, q), NEW g \in GraphSpecs, Known(g), NEW emit \in Emitters(g),
         NEW values, Means(M, P, g, emit, values), NEW lo \in Lowerers(g), NEW id \in Ids(g)
  PROVE  Yields(M, P, lo, EmitOne(emit, g, id, lo), ValueFrom(g, id, q, values))
<1> DEFINE v == ValueFrom(g, id, q, values)
<1>1. CASE lo.err # NoError
  BY <1>1 DEF EmitOne, Yields
<1>2. CASE lo.err = NoError /\ id \in lo.onStack
  <2>1. EmitOne(emit, g, id, lo) = Fail(lo, "cycle") /\ "cycle" \in Errors
    BY <1>2 DEF EmitOne, Errors
  <2> QED
    BY <2>1, FailYields
<1>3. CASE lo.err = NoError /\ id \notin lo.onStack
  <2> DEFINE entered == [lo EXCEPT !.onStack = @ \cup {id}]
             body == EmitBody(emit, g, entered, id)
             left == LeaveNode(body, lo)
  <2>1. EmitOne(emit, g, id, lo) = left
    BY <1>3 DEF EmitOne
  <2>2. entered \in Lowerers(g) /\ entered.err = NoError /\ entered.prog = lo.prog
    BY <1>3 DEF Lowerers
  <2> HIDE DEF entered, v
  <2>3. body \in Lowerers(g)
    BY <2>2, BodyGrows
  <2>4. Yields(M, P, entered, body, v)
    BY <2>2, BodyYields DEF v
  <2> HIDE DEF body
  <2>5. left.err = body.err /\ left.prog = body.prog
    BY <2>3 DEF LeaveNode, Lowerers
  <2> HIDE DEF left
  <2>6. Yields(M, P, lo, left, v)
    BY <1>3, <2>2, <2>4, <2>5 DEF Yields
  <2> QED
    BY <2>1, <2>6 DEF v
<1> QED
  BY <1>1, <1>2, <1>3

\* emit_node computes the value of every node.
LEMMA EmitNodeMeans ==
  ASSUME NEW P, NEW q, NEW M, Plays(M, P, q), NEW g \in GraphSpecs, Known(g)
  PROVE  Means(M, P, g, EmitNode(g), Values(g, q))
<1> DEFINE n == Len(g.nodes)
<1>1. n \in Nat
  BY LenProperties DEF GraphSpecs
<1>2. PICK f \in [0..n -> Emitters(g)] : EmitSteps(f, g) /\ EmitNode(g) = f[n]
  BY EmitNodeUnfolds
<1>3. PICK pass : ValueSteps(pass, g, q) /\ Values(g, q) = pass[n]
  BY ValuesUnfold
<1> HIDE DEF n
<1> DEFINE X == {d \in Nat : d <= n => Means(M, P, g, f[d], pass[d])}
<1>4. 0 \in X
  <2> SUFFICES ASSUME NEW id \in Ids(g), NEW lo \in Lowerers(g)
               PROVE  Yields(M, P, lo, f[0][id][lo], pass[0][id])
    BY DEF Means
  <2>1. f[0][id][lo] = IF lo.err # NoError THEN lo ELSE Fail(lo, "cycle")
    BY <1>2 DEF EmitSteps, NoDepth
  <2>2. "cycle" \in Errors
    BY DEF Errors
  <2>3. CASE lo.err # NoError
    BY <2>1, <2>3 DEF Yields
  <2>4. CASE lo.err = NoError
    BY <2>1, <2>2, <2>4, FailYields
  <2> QED
    BY <2>3, <2>4
<1>5. ASSUME NEW d \in Nat, d \in X PROVE d + 1 \in X
  <2> SUFFICES ASSUME d + 1 <= n, NEW id \in Ids(g), NEW lo \in Lowerers(g)
               PROVE  Yields(M, P, lo, f[d + 1][id][lo], pass[d + 1][id])
    BY DEF Means
  <2>1. d + 1 \in 1..n /\ (d + 1) - 1 = d /\ d \in 0..n /\ Means(M, P, g, f[d], pass[d])
    BY <1>1, <1>5
  <2>2. f[d] \in Emitters(g) /\ f[d + 1] = Deeper(f[d], g)
    BY <1>2, <2>1 DEF EmitSteps, n
  <2>3. pass[d + 1] = PassAfter(g, q, pass[d])
    BY <1>3, <2>1 DEF ValueSteps, n
  <2>4. f[d + 1][id][lo] = EmitOne(f[d], g, id, lo) /\ pass[d + 1][id] = ValueFrom(g, id, q, pass[d])
    BY <2>2, <2>3 DEF Deeper, PassAfter
  <2> QED
    BY <2>1, <2>2, <2>4, EmitOneYields
<1> HIDE DEF X
<1>6. n \in X
  BY <1>1, <1>4, <1>5, NaturalsIn
<1> QED
  BY <1>1, <1>2, <1>3, <1>6 DEF X

----------------------------------------------------------------------------
(* A program decides what its graph means *)

\* What a signal node decides.
SideOf(node) == IF node.type = "buy_signal" THEN "buy" ELSE "sell"

\* The i-th node is a signal whose input holds.
Fires(g, values, i) == g.nodes[i].type \in Signals /\ Single(g, values, g.nodes[i].id) > 0

\* What a terminal does to the decision.
Decides(M, P, lo, next, fires, side) ==
  next.err = NoError /\ Begins(next.prog, P) =>
    /\ lo.err = NoError /\ Begins(lo.prog, P)
    /\ M[Len(next.prog)].decision = IF fires THEN side ELSE M[Len(lo.prog)].decision

\* A signal decides if its input holds, and what is no signal does nothing.
LEMMA TerminalDecides ==
  ASSUME NEW P, NEW q, NEW M, Plays(M, P, q), NEW g \in GraphSpecs, Known(g),
         NEW lo \in Lowerers(g), NEW i \in 1..Len(g.nodes)
  PROVE  Decides(M, P, lo, EmitTerminal(g, lo, g.nodes[i]), Fires(g, Values(g, q), i), SideOf(g.nodes[i]))
<1> DEFINE node == g.nodes[i]
           values == Values(g, q)
           last == EmitTerminal(g, lo, node)
<1>1. CASE lo.err # NoError \/ node.type \notin Signals
  <2>1. last = lo
    BY <1>1 DEF EmitTerminal
  <2> HIDE DEF last
  <2> QED
    BY <1>1, <2>1 DEF Decides, Fires, last
<1>2. CASE ~(lo.err # NoError \/ node.type \notin Signals)
  <2> DEFINE input == EmitUnaryInput(EmitNode(g), g, lo, node.id)
             op == Plain(SideOf(node))
             next == Emit(input, op)
             v == Single(g, values, node.id)
             code == input.prog
             n == Len(code)
             l == Len(lo.prog)
  <2>1. last = next
    BY <1>2 DEF EmitTerminal, SideOf
  <2>2. input \in Lowerers(g) /\ Yields(M, P, lo, input, v)
    BY EmitNodeGrows, UnaryInputGrows, EmitNodeMeans, UnaryInputYields
  <2>3. op \in Instructions /\ op.op \in Sides /\ op.op = SideOf(node)
    <3>1. op = Plain("buy") \/ op = Plain("sell")
      BY DEF SideOf
    <3>2. \A name \in {"buy", "sell"} : Plain(name) \in Instructions /\ Plain(name).op \in Sides
      BY DEF Plain, Op, Instructions, OpNames, Sides
    <3>3. op.op = SideOf(node)
      BY DEF Plain, Op
    <3> QED
      BY <3>1, <3>2, <3>3
  <2>4. Fires(g, values, i) <=> v > 0
    BY <1>2 DEF Fires
  <2> HIDE DEF last, input, op, v, values
  <2> SUFFICES ASSUME next.err = NoError, Begins(next.prog, P)
               PROVE  /\ lo.err = NoError /\ Begins(lo.prog, P)
                      /\ M[Len(next.prog)].decision = IF v > 0 THEN op.op ELSE M[l].decision
    BY <2>1, <2>3, <2>4 DEF Decides, last, values
  <2>5. input.err = NoError
    BY <2>2 DEF Emit, Lowerers
  <2>6. code \in Seq(Instructions) /\ next.prog = Append(code, op)
    BY <2>2, <2>5 DEF Emit, Lowerers
  <2> HIDE DEF next, code
  <2>7. /\ Begins(code, P) /\ n \in Nat /\ Len(next.prog) = n + 1
        /\ n + 1 <= Len(P) /\ P[n + 1] = op
    BY <2>3, <2>6, BeginsShorter
  <2>8. /\ lo.err = NoError /\ Begins(lo.prog, P)
        /\ M[n].stack = Append(M[l].stack, v) /\ M[n].decision = M[l].decision
    BY <2>2, <2>5, <2>7 DEF Yields, code
  <2> HIDE DEF n
  <2>9. Len(P) \in Nat /\ l \in 0..Len(P)
    <3>1. Len(P) \in Nat /\ l \in Nat
      BY LenProperties DEF Plays, Lowerers
    <3> QED
      BY <2>8, <3>1 DEF Begins
  <2> DEFINE s == M[l].stack
             k == n + 1
  <2>10. IsStack(s)
    BY <2>9, StackDepth DEF Plays
  <2>11. k \in 1..Len(P) /\ P[k] = op /\ k - 1 = n
    BY <2>7, <2>9
  <2> HIDE DEF k, s
  <2>12. P[k].op \in Sides /\ M[k - 1].stack = Append(s, v)
    BY <2>3, <2>8, <2>11 DEF s
  <2>13. P \in Seq(Instructions) /\ Behaves(M, P, q)
    BY DEF Plays
  <2>14. M[k].decision = IF v > 0 THEN P[k].op ELSE M[k - 1].decision
    BY <2>10, <2>11, <2>12, <2>13, TerminalEffect
  <2> QED
    BY <2>7, <2>8, <2>11, <2>14 DEF k
<1> QED
  BY <1>1, <1>2

\* After k nodes the decision is that of the last one of them that fires.
LastFires(g, values, k, decision) ==
  /\ (\A i \in 1..k : ~Fires(g, values, i)) => decision = "none"
  /\ \A j \in 1..k :
       Fires(g, values, j) /\ (\A i \in 1..k : j < i => ~Fires(g, values, i)) => decision = SideOf(g.nodes[j])

\* One more node.
LEMMA LastFiresOn ==
  ASSUME NEW g, NEW values, NEW k \in Nat, NEW decision, LastFires(g, values, k, decision)
  PROVE  LastFires(g, values, k + 1, IF Fires(g, values, k + 1) THEN SideOf(g.nodes[k + 1]) ELSE decision)
<1>1. \A i \in 1..(k + 1) : i \in 1..k \/ i = k + 1
  OBVIOUS
<1>2. \A i \in 1..k : i \in 1..(k + 1) /\ i < k + 1
  OBVIOUS
<1>3. k + 1 \in 1..(k + 1)
  OBVIOUS
<1> DEFINE last == IF Fires(g, values, k + 1) THEN SideOf(g.nodes[k + 1]) ELSE decision
<1>4. ASSUME \A i \in 1..(k + 1) : ~Fires(g, values, i) PROVE last = "none"
  BY <1>2, <1>3, <1>4 DEF LastFires
<1>5. ASSUME NEW j \in 1..(k + 1), Fires(g, values, j), \A i \in 1..(k + 1) : j < i => ~Fires(g, values, i)
      PROVE  last = SideOf(g.nodes[j])
  <2>1. CASE j = k + 1
    BY <1>5, <2>1
  <2>2. CASE j # k + 1
    <3>1. j \in 1..k /\ ~Fires(g, values, k + 1)
      BY <1>1, <1>2, <1>3, <1>5, <2>2
    <3>2. \A i \in 1..k : j < i => ~Fires(g, values, i)
      BY <1>2, <1>5
    <3> QED
      BY <1>5, <3>1, <3>2 DEF LastFires
  <2> QED
    BY <2>1, <2>2
<1> QED
  BY <1>4, <1>5 DEF LastFires

\* A graph means what the last of its nodes that fires decides.
LEMMA MeaningIsLast ==
  ASSUME NEW g \in GraphSpecs, NEW q, NEW decision, LastFires(g, Values(g, q), Len(g.nodes), decision)
  PROVE  decision = Meaning(g, q)
<1> DEFINE n == Len(g.nodes)
           values == Values(g, q)
           firing == {i \in DOMAIN g.nodes :
                        /\ g.nodes[i].type \in Signals /\ Inputs(g, g.nodes[i].id) # <<>>
                        /\ values[Inputs(g, g.nodes[i].id)[1]] > 0}
<1>1. n \in Nat /\ DOMAIN g.nodes = 1..n
  BY LenProperties DEF GraphSpecs
<1>2. firing = {i \in 1..n : Fires(g, values, i)}
  BY <1>1 DEF Fires, Single
<1>3. Meaning(g, q) = IF firing = {} THEN "none" ELSE SideOf(g.nodes[Max(firing)])
  BY DEF Meaning, SideOf
<1> HIDE DEF firing, values, n
<1>4. CASE firing = {}
  BY <1>2, <1>3, <1>4 DEF LastFires, values, n
<1>5. CASE firing # {}
  <2> DEFINE j == Max(firing)
  <2>1. firing \in SUBSET (0..n)
    BY <1>1, <1>2
  <2>2. j \in firing /\ \A i \in firing : i <= j
    BY <1>1, <1>5, <2>1, GreatestNatural
  <2> HIDE DEF j
  <2>3. j \in 1..n /\ Fires(g, values, j) /\ \A i \in 1..n : j < i => ~Fires(g, values, i)
    BY <1>1, <1>2, <2>2
  <2> QED
    BY <1>3, <1>5, <2>3 DEF LastFires, values, n, j
<1> QED
  BY <1>4, <1>5

\* A compiled program decides, at any feed, what its graph means.
LEMMA CompiledMeans ==
  ASSUME NEW g \in GraphSpecs, Compile(g).err = NoError, NEW q, NEW M,
         Behaves(M, Compile(g).prog, q), Fits(Compile(g).prog)
  PROVE  M[Len(Compile(g).prog)].decision = Meaning(g, q)
<1> DEFINE P == Compile(g).prog
           n == Len(g.nodes)
           values == Values(g, q)
<1>1. Known(g) /\ Compile(g) \in Lowerers(g) /\ AtEnd(Compile(g))
  BY CompiledBalanced
<1>2. Plays(M, P, q)
  BY <1>1 DEF Plays, AtEnd, Sound, Lowerers
<1>3. PICK after \in [0..n -> {lo \in Lowerers(g) : AtEnd(lo)}] :
        CompileSteps(after, g) /\ Compile(g) = after[n]
  BY <1>1, CompileUnfolds
<1>4. n \in Nat
  BY LenProperties DEF GraphSpecs
<1>5. after[n].err = NoError /\ after[n].prog = P /\ Begins(P, P)
  <2>1. Len(P) \in Nat
    BY <1>2, LenProperties DEF Plays
  <2> QED
    BY <1>3, <2>1 DEF Begins
<1> HIDE DEF P, n
<1> DEFINE At(k) == M[Len(after[k].prog)].decision
           Reached(k) == after[k].err = NoError /\ Begins(after[k].prog, P)
           X == {k \in Nat : k <= n /\ Reached(k) => LastFires(g, values, k, At(k))}
<1>6. 0 \in X
  <2>1. after[0].prog = <<>> /\ Len(<<>>) = 0
    BY <1>3, EmptySeq DEF CompileSteps, Start
  <2>2. At(0) = "none"
    BY <1>2, <2>1 DEF Plays, Behaves
  <2> QED
    BY <2>2 DEF LastFires
<1>7. ASSUME NEW k \in Nat, k \in X PROVE k + 1 \in X
  <2> SUFFICES ASSUME k + 1 <= n, Reached(k + 1) PROVE LastFires(g, values, k + 1, At(k + 1))
    OBVIOUS
  <2>1. k + 1 \in 1..n /\ (k + 1) - 1 = k /\ k \in 0..n /\ k <= n
    BY <1>4
  <2>2. after[k] \in Lowerers(g) /\ after[k + 1] = EmitTerminal(g, after[k], g.nodes[k + 1])
    BY <1>3, <2>1 DEF CompileSteps, n
  <2>3. Decides(M, P, after[k], after[k + 1], Fires(g, values, k + 1), SideOf(g.nodes[k + 1]))
    <3> DEFINE i == k + 1
    <3>1. i \in 1..Len(g.nodes) /\ after[i] = EmitTerminal(g, after[k], g.nodes[i])
      BY <2>1, <2>2 DEF n
    <3> HIDE DEF i
    <3>2. Decides(M, P, after[k], after[i], Fires(g, values, i), SideOf(g.nodes[i]))
      BY <1>1, <1>2, <2>2, <3>1, TerminalDecides
    <3> QED
      BY <3>2 DEF i
  <2>4. Reached(k) /\ At(k + 1) = IF Fires(g, values, k + 1) THEN SideOf(g.nodes[k + 1]) ELSE At(k)
    BY <2>3 DEF Decides
  <2>5. LastFires(g, values, k, At(k))
    BY <1>7, <2>1, <2>4
  <2> HIDE DEF At
  <2>6. LastFires(g, values, k + 1, IF Fires(g, values, k + 1) THEN SideOf(g.nodes[k + 1]) ELSE At(k))
    BY <2>5, LastFiresOn
  <2> QED
    BY <2>4, <2>6
<1> HIDE DEF X
<1>8. n \in X
  BY <1>4, <1>6, <1>7, NaturalsIn
<1>9. LastFires(g, values, n, At(n))
  BY <1>4, <1>5, <1>8 DEF X
<1> QED
  BY <1>5, <1>9, MeaningIsLast DEF P, n

\* The program that runs is the one the graph compiles to, and what it remembers
\* are the prices so far.  One with a fatal instruction panics at the first of them.
VmFollows ==
  /\ phase = "read" => prog = <<>> /\ feed = <<>> /\ log = <<>>
  /\ prog # <<>> =>
       /\ Compile(graph).err = NoError /\ prog = Compile(graph).prog
       /\ phase # "panicked" /\ (\A i \in 1..Len(prog) : ~Fatal(prog[i])) => TracksAll(prog, states, feed)

\* What the invariant needs of a program that runs.
LEMMA ProgramKnown ==
  ASSUME GraphTyped, VmFollows, prog # <<>>
  PROVE  prog \in Seq(Instructions) /\ Placed(prog) /\ DOMAIN prog = 1..Len(prog)
<1>1. /\ Compile(graph).err = NoError /\ prog = Compile(graph).prog /\ graph \in GraphSpecs
  BY DEF VmFollows, GraphTyped
<1>2. Compile(graph) \in Lowerers(graph) /\ AtEnd(Compile(graph))
  BY <1>1, CompiledBalanced
<1>3. prog \in Seq(Instructions) /\ Placed(prog)
  BY <1>1, <1>2 DEF AtEnd, Sound, Lowerers
<1> QED
  BY <1>3, LenProperties

\* A tick of the Vm.
LEMMA VmTick ==
  ASSUME GraphTyped, ProcessTyped, VmFollows, RunsTheGraph, NEW price \in TickPrices, RunVm(price)
  PROVE  VmFollows' /\ RunsTheGraph'
<1> DEFINE m == Run(prog, states, price)
           n == Len(prog)
           all == Append(feed, price)
<1>1. /\ prog # <<>> /\ phase = "run" /\ prog' = prog /\ graph' = graph
      /\ feed' = all /\ states' = m.states
  BY DEF RunVm, TickComes, graphVars
<1>2. \/ m.panicked /\ phase' = "panicked" /\ log' = log
      \/ ~m.panicked /\ phase' = phase /\ Trade(m.decision)
  BY DEF RunVm
<1>3. prog \in Seq(Instructions) /\ Placed(prog) /\ DOMAIN prog = 1..n
  BY <1>1, ProgramKnown
<1>4. feed \in Seq(Nat) /\ price \in Nat /\ Len(feed) \in Nat /\ Len(log) = Len(feed)
  <2>1. feed \in [1..Len(feed) -> TickPrices] /\ Len(feed) \in Nat
    BY LenProperties DEF ProcessTyped
  <2>2. feed \in [1..Len(feed) -> Nat]
    BY <2>1, TicksAssumption
  <2>3. Len(feed) = Len(log)
    BY <1>1 DEF ProcessTyped
  <2> QED
    BY <2>1, <2>2, <2>3, SeqDef, TicksAssumption
<1>5. (\A i \in 1..n : ~Fatal(prog[i])) => TracksAll(prog, states, feed)
  BY <1>1 DEF VmFollows
<1>6. /\ m.panicked <=> \E i \in 1..n : Fatal(prog[i])
      /\ ~m.panicked => /\ TracksAll(prog, m.states, all)
                        /\ \E M : Behaves(M, prog, all) /\ m.decision = M[n].decision
  BY <1>3, <1>4, <1>5, RunOverFeed
<1>7. graph \in GraphSpecs /\ Compile(graph).err = NoError /\ prog = Compile(graph).prog
  BY <1>1 DEF VmFollows, GraphTyped
<1>8. all \in Seq(Nat) /\ Len(all) = Len(feed) + 1 /\ \A i \in 1..Len(feed) : all[i] = feed[i]
  BY <1>4, AppendProperties
<1> HIDE DEF m, all
<1>9. CASE m.panicked /\ phase' = "panicked" /\ log' = log
  <2>1. \E i \in DOMAIN prog : prog[i].op = "reversion" /\ prog[i].n = 0
    BY <1>3, <1>6, <1>9 DEF Fatal
  <2>2. SubSeq(all, 1, Len(feed)) = SubSeq(feed, 1, Len(feed))
    <3> DEFINE l == Len(feed)
    <3>1. \A i \in 1..(l - 1 + 1) : all[1 + i - 1] = feed[1 + i - 1]
      BY <1>4, <1>8
    <3>2. l \in Nat
      BY <1>4
    <3> HIDE DEF l
    <3>3. /\ SubSeq(all, 1, l) = [i \in 1..(l - 1 + 1) |-> all[1 + i - 1]]
          /\ SubSeq(feed, 1, l) = [i \in 1..(l - 1 + 1) |-> feed[1 + i - 1]]
      BY <3>2
    <3> QED
      BY <3>1, <3>3 DEF l
  <2>3. Fits(prog) /\ log # <<>> => Last(log).side = Meaning(graph, SubSeq(feed, 1, Len(feed)))
    BY <1>1, <1>4 DEF RunsTheGraph
  <2>4. RunsTheGraph'
    BY <1>1, <1>4, <1>9, <2>1, <2>2, <2>3 DEF RunsTheGraph
  <2>5. VmFollows'
    BY <1>1, <1>7, <1>9 DEF VmFollows
  <2> QED
    BY <2>4, <2>5
<1>10. CASE ~m.panicked /\ phase' = phase /\ Trade(m.decision)
  <2> DEFINE entry == [side |-> m.decision, sent |-> Sent(m.decision)]
  <2>1. log' = Append(log, entry) /\ entry.side = m.decision
    BY <1>10 DEF Trade
  <2> HIDE DEF entry
  <2>2. Last(log').side = m.decision /\ Len(log') = Len(all)
    <3>1. IsStack(log)
      BY DEF ProcessTyped, IsStack
    <3>2. Len(log') = Len(log) + 1 /\ IsStack(log') /\ Top(log') = entry
      BY <2>1, <3>1, PushWithRoom
    <3>3. log' # <<>>
      BY <1>4, <3>2, EmptySeq
    <3> QED
      BY <1>4, <1>8, <2>1, <3>2, <3>3 DEF Top
  <2>3. SubSeq(all, 1, Len(all)) = all
    <3> DEFINE l == Len(all)
    <3>1. l \in Nat /\ all = [i \in 1..l |-> all[i]]
      BY <1>8, LenProperties
    <3> HIDE DEF l
    <3>2. SubSeq(all, 1, l) = [i \in 1..(l - 1 + 1) |-> all[1 + i - 1]]
      BY <3>1
    <3>3. l - 1 + 1 = l /\ \A i \in 1..l : 1 + i - 1 = i
      BY <3>1
    <3> QED
      BY <3>1, <3>2, <3>3 DEF l
  <2>4. Fits(prog) => m.decision = Meaning(graph, all)
    <3>1. PICK M : Behaves(M, prog, all) /\ m.decision = M[n].decision
      BY <1>6, <1>10
    <3> QED
      BY <1>7, <3>1, CompiledMeans
  <2>5. RunsTheGraph'
    BY <1>1, <1>10, <2>2, <2>3, <2>4 DEF RunsTheGraph
  <2>6. VmFollows'
    BY <1>1, <1>6, <1>7, <1>10 DEF VmFollows
  <2> QED
    BY <2>5, <2>6
<1> QED
  BY <1>2, <1>9, <1>10

\* Every step keeps the program and its states in line with the graph and the feed.
LEMMA VmStep ==
  GraphTyped /\ ProcessTyped /\ VmFollows /\ RunsTheGraph /\ [Next]_runnerVars
    => VmFollows' /\ RunsTheGraph'
<1> SUFFICES ASSUME GraphTyped, ProcessTyped, VmFollows, RunsTheGraph, [Next]_runnerVars
             PROVE  VmFollows' /\ RunsTheGraph'
  OBVIOUS
<1>1. ASSUME NEW c, ReadConnection(c) PROVE VmFollows' /\ RunsTheGraph'
  BY <1>1 DEF ReadConnection, runVars, VmFollows, RunsTheGraph
<1>2. CASE NoGraph
  BY <1>2 DEF NoGraph, UseFixedStrategy, VmFollows, RunsTheGraph
<1>3. CASE LoadGraph
  <2> DEFINE lo == Compile(graph)
  <2>1. phase = "read" /\ phase' = "run" /\ feed' = <<>> /\ log' = <<>>
    BY <1>3 DEF LoadGraph, VmFollows
  <2>2. CASE lo.err # NoError \/ lo.prog = <<>>
    <3>1. prog' = <<>>
      BY <1>3, <2>2 DEF LoadGraph, UseFixedStrategy
    <3> QED
      BY <2>1, <3>1 DEF VmFollows, RunsTheGraph
  <2>3. CASE ~(lo.err # NoError \/ lo.prog = <<>>)
    <3>1. prog' = lo.prog /\ states' = NewStates(lo.prog) /\ graph' = graph
      BY <1>3, <2>3 DEF LoadGraph
    <3>2. lo.err = NoError /\ lo.prog \in Seq(Instructions) /\ Placed(lo.prog)
      BY <2>3, CompiledBalanced DEF GraphTyped, AtEnd, Sound, Lowerers
    <3>3. (\A i \in 1..Len(lo.prog) : ~Fatal(lo.prog[i])) => TracksAll(lo.prog, NewStates(lo.prog), <<>>)
      BY <3>2, NewStatesTrack
    <3> QED
      BY <2>1, <3>1, <3>2, <3>3 DEF VmFollows, RunsTheGraph
  <2> QED
    BY <2>2, <2>3
<1>4. ASSUME NEW price, RunFixed(price) PROVE VmFollows' /\ RunsTheGraph'
  <2>1. prog' = <<>> /\ phase' = "run"
    BY <1>4 DEF RunFixed, TickComes, graphVars
  <2> QED
    BY <2>1 DEF VmFollows, RunsTheGraph
<1>5. ASSUME NEW price \in TickPrices, RunVm(price) PROVE VmFollows' /\ RunsTheGraph'
  BY <1>5, VmTick
<1>6. CASE UNCHANGED runnerVars
  BY <1>6 DEF runnerVars, graphVars, runVars, VmFollows, RunsTheGraph
<1> QED
  BY <1>1, <1>2, <1>3, <1>4, <1>5, <1>6 DEF Next

\* src/compiler.rs:85-240 and src/bytecode.rs:284-406: whatever graph is read and
\* whatever prices come, the program decides at each of them, by its rings and
\* running sums, what the graph means for all of them so far, as long as the stack
\* is deep enough; and only a reversion over no prices makes it panic.
THEOREM RunsWhatTheGraphMeans == Spec => []RunsTheGraph
<1>1. Init => VmFollows /\ RunsTheGraph
  BY DEF Init, VmFollows, RunsTheGraph
<1> QED
  BY <1>1, ProcessIsTyped, GraphsTyped, VmStep, PTL DEF Spec
=============================================================================
