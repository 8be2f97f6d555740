--------------------------- MODULE OrderBookProofs ---------------------------
(***************************************************************************)
(* Proofs about the order book, for every set of ids, range of prices and  *)
(* quantity bound: the invariants of the book, the queue position, and     *)
(* that the book implements PriceTimePriority step by step: a step of the  *)
(* book is a step of the abstract one, or leaves the abstract book as it   *)
(* was.                                                                    *)
(***************************************************************************)
EXTENDS OrderBookProps, Sums

----------------------------------------------------------------------------
(* Sequences and prices *)

\* What is left of a queue when one order is taken out of it.
LEMMA RemoveAtProperties ==
  ASSUME NEW S, NEW q \in Seq(S), NEW i \in DOMAIN q
  PROVE  /\ RemoveAt(q, i) \in Seq(S)
         /\ Len(RemoveAt(q, i)) = Len(q) - 1
         /\ \A j \in 1..(Len(q) - 1) :
              RemoveAt(q, i)[j] = IF j < i THEN q[j] ELSE q[j + 1]
<1> DEFINE front == SubSeq(q, 1, i - 1)
           back  == SubSeq(q, i + 1, Len(q))
<1>1. Len(q) \in Nat /\ i \in 1..Len(q) /\ \A j \in 1..Len(q) : q[j] \in S
  BY LenProperties, ElementOfSeq
<1>2. /\ front \in Seq(S)
      /\ Len(front) = i - 1
      /\ \A j \in 1..(i - 1) : front[j] = q[j]
  <2>1. \A j \in 1..(i - 1) : q[j] \in S
    BY <1>1
  <2> QED
    BY <2>1, <1>1, SubSeqProperties
<1>3. /\ back \in Seq(S)
      /\ Len(back) = Len(q) - i
      /\ \A j \in 1..(Len(q) - i) : back[j] = q[j + i]
  <2>1. \A j \in (i + 1)..Len(q) : q[j] \in S
    BY <1>1
  <2>2. /\ back \in Seq(S)
        /\ Len(back) = IF i + 1 <= Len(q) THEN Len(q) - (i + 1) + 1 ELSE 0
        /\ \A j \in 1..(Len(q) - (i + 1) + 1) : back[j] = q[(i + 1) + j - 1]
    BY <2>1, <1>1, SubSeqProperties
  <2> QED
    BY <2>2, <1>1
<1>4. /\ front \o back \in Seq(S)
      /\ Len(front \o back) = Len(front) + Len(back)
      /\ \A j \in 1..(Len(front) + Len(back)) :
           (front \o back)[j] = IF j <= Len(front) THEN front[j] ELSE back[j - Len(front)]
  BY <1>2, <1>3, ConcatProperties
<1>5. RemoveAt(q, i) = front \o back
  BY DEF RemoveAt
<1> HIDE DEF front, back
<1>6. ASSUME NEW j \in 1..(Len(q) - 1)
      PROVE  (front \o back)[j] = IF j < i THEN q[j] ELSE q[j + 1]
  <2>1. j \in 1..(Len(front) + Len(back))
    BY <1>1, <1>2, <1>3
  <2>2. CASE j < i
    <3>1. j \in 1..(i - 1) /\ j <= Len(front)
      BY <2>2, <1>1, <1>2
    <3> QED
      BY <2>1, <2>2, <3>1, <1>2, <1>4
  <2>3. CASE ~(j < i)
    <3>1. j - Len(front) \in 1..(Len(q) - i) /\ ~(j <= Len(front)) /\ (j - Len(front)) + i = j + 1
      BY <2>3, <1>1, <1>2
    <3> QED
      BY <2>1, <2>3, <3>1, <1>3, <1>4
  <2> QED
    BY <2>2, <2>3
<1>7. Len(front \o back) = Len(q) - 1
  BY <1>1, <1>2, <1>3, <1>4
<1> QED
  BY <1>4, <1>5, <1>6, <1>7, Zenon

\* A side with a level has a best price, because prices are bounded.
LEMMA BestExists ==
  ASSUME NEW T \in SUBSET Prices, T # {}
  PROVE  /\ \E p \in T : \A q \in T : ~(q > p)
         /\ \E p \in T : \A q \in T : ~(q < p)
<1>1. \E p \in T : \A q \in T : ~(q > p)
  <2> DEFINE U == {MaxPrice - p : p \in T}
  <2>1. \A p \in T : p \in Int /\ MaxPrice - p \in Nat
    BY PricesAssumption DEF Prices
  <2>2. U \in SUBSET Nat
    BY <2>1
  <2>3. U # {}
    OBVIOUS
  <2>4. PICK m \in U : \A n \in U : ~(n < m)
    BY <2>2, <2>3, LeastNatural
  <2>5. PICK p \in T : m = MaxPrice - p
    OBVIOUS
  <2>6. \A q \in T : ~(MaxPrice - q < MaxPrice - p)
    BY <2>4, <2>5
  <2>7. \A q \in T : ~(q > p)
    BY <2>1, <2>6, PricesAssumption
  <2> QED
    BY <2>7
<1>2. \E p \in T : \A q \in T : ~(q < p)
  <2> DEFINE U == {p - MinPrice : p \in T}
  <2>1. \A p \in T : p \in Int /\ p - MinPrice \in Nat
    BY PricesAssumption DEF Prices
  <2>2. U \in SUBSET Nat
    BY <2>1
  <2>3. U # {}
    OBVIOUS
  <2>4. PICK m \in U : \A n \in U : ~(n < m)
    BY <2>2, <2>3, LeastNatural
  <2>5. PICK p \in T : m = p - MinPrice
    OBVIOUS
  <2>6. \A q \in T : ~(q - MinPrice < p - MinPrice)
    BY <2>4, <2>5
  <2>7. \A q \in T : ~(q < p)
    BY <2>1, <2>6, PricesAssumption
  <2> QED
    BY <2>7
<1> QED
  BY <1>1, <1>2

----------------------------------------------------------------------------
(* Queues of resting orders: which ids each operation leaves in one *)

\* Filling the front order in part leaves the ids as they are.
LEMMA IdsOfPartialFill ==
  ASSUME NEW q \in Seq(Resting), q # <<>>, NEW n \in 1..MaxQty
  PROVE  LET r == [q EXCEPT ![1] = [id |-> Head(q).id, left |-> n]]
         IN  /\ r \in Seq(Resting)
             /\ r # <<>>
             /\ Ids(r) = Ids(q)
             /\ NoRepeats(q) => NoRepeats(r)
<1> DEFINE o == [id |-> Head(q).id, left |-> n]
           r == [q EXCEPT ![1] = o]
<1>1. Len(q) \in Nat \ {0} /\ DOMAIN q = 1..Len(q)
  BY EmptySeq, LenProperties
<1>2. Head(q) = q[1] /\ Head(q) \in Resting
  BY <1>1, HeadTailProperties
<1>3. o \in Resting /\ o.id = q[1].id
  BY <1>2 DEF Resting
<1> HIDE DEF o
<1>4. r \in Seq(Resting) /\ Len(r) = Len(q)
      /\ \A j \in 1..Len(q) : r[j] = IF j = 1 THEN o ELSE q[j]
  BY <1>1, <1>3, ExceptSeq
<1> HIDE DEF r
<1>5. DOMAIN r = 1..Len(q) /\ r # <<>>
  BY <1>1, <1>4, LenProperties, EmptySeq
<1>6. \A j \in 1..Len(q) : r[j].id = q[j].id
  BY <1>3, <1>4
<1>7. Ids(r) = Ids(q)
  BY <1>1, <1>5, <1>6 DEF Ids
<1>8. NoRepeats(q) => NoRepeats(r)
  BY <1>1, <1>5, <1>6 DEF NoRepeats
<1> QED
  BY <1>4, <1>5, <1>7, <1>8 DEF r, o

\* Popping the front order takes its id out, and no other.
LEMMA IdsOfTail ==
  ASSUME NEW q \in Seq(Resting), q # <<>>, NoRepeats(q)
  PROVE  /\ Tail(q) \in Seq(Resting)
         /\ Ids(Tail(q)) = Ids(q) \ {Head(q).id}
         /\ Head(q).id \in Ids(q)
         /\ NoRepeats(Tail(q))
<1>1. Len(q) \in Nat \ {0} /\ DOMAIN q = 1..Len(q) /\ Head(q) = q[1]
  BY EmptySeq, LenProperties, HeadTailProperties
<1>2. /\ Tail(q) \in Seq(Resting)
      /\ Len(Tail(q)) = Len(q) - 1
      /\ \A j \in 1..Len(Tail(q)) : Tail(q)[j] = q[j + 1]
  BY HeadTailProperties
<1>3. DOMAIN Tail(q) = 1..(Len(q) - 1)
  BY <1>2, LenProperties
<1> DEFINE t == Tail(q)
<1>4. DOMAIN t = 1..(Len(q) - 1) /\ \A j \in DOMAIN t : t[j] = q[j + 1]
  BY <1>2, <1>3
<1> HIDE DEF t
<1>5. \A i, j \in DOMAIN q : q[i].id = q[j].id => i = j
  BY DEF NoRepeats
<1>6. \A j \in DOMAIN t : j + 1 \in DOMAIN q /\ q[j + 1].id # q[1].id
  BY <1>1, <1>4, <1>5
<1>7. \A j \in DOMAIN q : j # 1 => j - 1 \in DOMAIN t /\ t[j - 1] = q[j]
  BY <1>1, <1>4
<1>8. Ids(t) = Ids(q) \ {q[1].id}
  BY <1>4, <1>6, <1>7 DEF Ids
<1>9. NoRepeats(t)
  BY <1>1, <1>4, <1>5, <1>6 DEF NoRepeats
<1>10. q[1].id \in Ids(q)
  BY <1>1 DEF Ids
<1> QED
  BY <1>1, <1>2, <1>8, <1>9, <1>10 DEF t

\* Taking an order out of the middle takes its id out, and no other.
LEMMA IdsOfRemoveAt ==
  ASSUME NEW q \in Seq(Resting), NEW i \in DOMAIN q, NoRepeats(q)
  PROVE  /\ RemoveAt(q, i) \in Seq(Resting)
         /\ Ids(RemoveAt(q, i)) = Ids(q) \ {q[i].id}
         /\ NoRepeats(RemoveAt(q, i))
<1> DEFINE r == RemoveAt(q, i)
<1>1. Len(q) \in Nat /\ DOMAIN q = 1..Len(q)
  BY LenProperties
<1>2. /\ r \in Seq(Resting)
      /\ Len(r) = Len(q) - 1
      /\ \A j \in 1..(Len(q) - 1) : r[j] = IF j < i THEN q[j] ELSE q[j + 1]
  BY RemoveAtProperties
<1> HIDE DEF r
<1>3. DOMAIN r = 1..(Len(q) - 1)
  BY <1>2, LenProperties
<1> DEFINE from(j) == IF j < i THEN j ELSE j + 1
<1>4. \A j \in DOMAIN r : from(j) \in DOMAIN q /\ from(j) # i /\ r[j] = q[from(j)]
  BY <1>1, <1>2, <1>3
<1>5. \A j, k \in DOMAIN r : from(j) = from(k) => j = k
  BY <1>1, <1>3
<1>6. \A k \in DOMAIN q : k # i => \E j \in DOMAIN r : from(j) = k
  <2> SUFFICES ASSUME NEW k \in DOMAIN q, k # i
               PROVE  \E j \in DOMAIN r : from(j) = k
    OBVIOUS
  <2>1. CASE k < i
    <3>1. k \in DOMAIN r /\ from(k) = k
      BY <2>1, <1>1, <1>3
    <3> QED
      BY <3>1
  <2>2. CASE ~(k < i)
    <3>1. k - 1 \in DOMAIN r /\ from(k - 1) = k
      BY <2>2, <1>1, <1>3
    <3> QED
      BY <3>1
  <2> QED
    BY <2>1, <2>2
<1> HIDE DEF from
<1>7. \A j, k \in DOMAIN q : q[j].id = q[k].id => j = k
  BY DEF NoRepeats
<1>8. Ids(r) = Ids(q) \ {q[i].id}
  BY <1>4, <1>6, <1>7 DEF Ids
<1>9. NoRepeats(r)
  BY <1>4, <1>5, <1>7 DEF NoRepeats
<1> QED
  BY <1>2, <1>8, <1>9 DEF r

\* Joining the back of a queue adds the order's id.
LEMMA IdsOfAppend ==
  ASSUME NEW q \in Seq(Resting), NEW o \in Resting
  PROVE  /\ Append(q, o) \in Seq(Resting)
         /\ Append(q, o) # <<>>
         /\ Ids(Append(q, o)) = Ids(q) \cup {o.id}
         /\ NoRepeats(q) /\ o.id \notin Ids(q) => NoRepeats(Append(q, o))
<1> DEFINE r == Append(q, o)
<1>1. Len(q) \in Nat /\ DOMAIN q = 1..Len(q)
  BY LenProperties
<1>2. /\ r \in Seq(Resting)
      /\ r # <<>>
      /\ Len(r) = Len(q) + 1
      /\ \A j \in 1..Len(q) : r[j] = q[j]
      /\ r[Len(q) + 1] = o
  BY AppendProperties
<1> HIDE DEF r
<1>3. DOMAIN r = 1..(Len(q) + 1)
  BY <1>2, LenProperties
<1>4. DOMAIN r = DOMAIN q \cup {Len(q) + 1} /\ Len(q) + 1 \notin DOMAIN q
  BY <1>1, <1>3
<1>5. Ids(r) = Ids(q) \cup {o.id}
  BY <1>1, <1>2, <1>4 DEF Ids
<1>6. NoRepeats(q) /\ o.id \notin Ids(q) => NoRepeats(r)
  BY <1>1, <1>2, <1>4 DEF Ids, NoRepeats
<1> QED
  BY <1>2, <1>5, <1>6 DEF r

----------------------------------------------------------------------------
(* What a queue holds in all *)

\* The sizes left of a queue, one for each of its orders.
LEMMA LeftsOf ==
  ASSUME NEW q \in Seq(Resting)
  PROVE  /\ Lefts(q) \in Seq(Int) /\ Len(Lefts(q)) = Len(q) /\ DOMAIN Lefts(q) = DOMAIN q
         /\ \A i \in DOMAIN q : Lefts(q)[i] = q[i].left /\ q[i].left \in 1..MaxQty
<1>1. Len(q) \in Nat /\ DOMAIN q = 1..Len(q)
  BY LenProperties
<1>2. \A i \in DOMAIN q : q[i] \in Resting /\ q[i].left \in 1..MaxQty
  <2>1. \A i \in DOMAIN q : q[i] \in Resting
    BY <1>1, ElementOfSeq
  <2> QED
    BY <2>1 DEF Resting
<1>3. Lefts(q) \in [1..Len(q) -> Int] /\ \A i \in DOMAIN q : Lefts(q)[i] = q[i].left
  BY <1>1, <1>2, MaxQtyAssumption DEF Lefts
<1>4. Lefts(q) \in Seq(Int) /\ Len(Lefts(q)) = Len(q)
  BY <1>1, <1>3, FunctionIsSequence
<1> QED
  BY <1>1, <1>2, <1>3, <1>4

\* The size of a queue is a natural number.
LEMMA SizeType ==
  ASSUME NEW q \in Seq(Resting)
  PROVE  SizeOf(q) \in Nat
<1>1. /\ SumFunction(Lefts(q)) = SumFunctionOnSet(Lefts(q), DOMAIN Lefts(q))
      /\ IsFiniteSet(DOMAIN Lefts(q))
  BY LeftsOf, SequenceSum
<1>2. \A i \in DOMAIN Lefts(q) : Lefts(q)[i] \in Nat
  BY LeftsOf, MaxQtyAssumption
<1> QED
  BY <1>1, <1>2, SumNatural DEF SizeOf

\* An empty queue has size zero.
LEMMA SizeOfEmpty == SizeOf(<<>>) = 0
<1>1. Lefts(<<>>) = <<>>
  BY DEF Lefts
<1> QED
  BY <1>1, SumOfEmpty DEF SizeOf

\* An order that joins adds what it has left.
LEMMA SizeOfAppend ==
  ASSUME NEW q \in Seq(Resting), NEW o \in Resting
  PROVE  SizeOf(Append(q, o)) = SizeOf(q) + o.left
<1> DEFINE r == Append(q, o)
<1>1. Len(q) \in Nat /\ DOMAIN q = 1..Len(q) /\ o.left \in Int
  BY LenProperties, MaxQtyAssumption DEF Resting
<1>2. /\ r \in Seq(Resting) /\ Len(r) = Len(q) + 1
      /\ \A j \in 1..Len(q) : r[j] = q[j]
      /\ r[Len(q) + 1] = o /\ DOMAIN r = 1..(Len(q) + 1)
  BY AppendProperties, LenProperties
<1> HIDE DEF r
<1> DEFINE v == Lefts(q)
           w == Lefts(r)
<1>3. /\ v \in Seq(Int) /\ Len(v) = Len(q) /\ w \in Seq(Int) /\ Len(w) = Len(q) + 1
      /\ \A i \in 1..Len(q) : w[i] = v[i]
      /\ w[Len(q) + 1] = o.left
  BY <1>1, <1>2, LeftsOf
<1> HIDE DEF v, w
<1>4. /\ Append(v, o.left) \in Seq(Int) /\ Len(Append(v, o.left)) = Len(w)
      /\ \A i \in 1..Len(w) : Append(v, o.left)[i] = w[i]
  <2>1. /\ Append(v, o.left) \in Seq(Int) /\ Len(Append(v, o.left)) = Len(v) + 1
        /\ \A i \in 1..Len(v) : Append(v, o.left)[i] = v[i]
        /\ Append(v, o.left)[Len(v) + 1] = o.left
    BY <1>1, <1>3, AppendProperties
  <2>2. \A i \in 1..Len(w) : i \in 1..Len(q) \/ i = Len(q) + 1
    BY <1>1, <1>3
  <2> QED
    BY <2>1, <2>2, <1>3
<1>5. w = Append(v, o.left)
  BY <1>3, <1>4, SeqEqual
<1> QED
  BY <1>1, <1>3, <1>5, SumOfAppend DEF SizeOf, v, w, r

\* An order taken out takes what it had left.
LEMMA SizeOfOneOut ==
  ASSUME NEW q \in Seq(Resting), NEW i \in DOMAIN q,
         NEW r \in Seq(Resting), Len(r) = Len(q) - 1,
         \A j \in 1..(Len(q) - 1) : r[j] = IF j < i THEN q[j] ELSE q[j + 1]
  PROVE  SizeOf(r) = SizeOf(q) - q[i].left
<1> DEFINE v == Lefts(q)
           w == Lefts(r)
<1>1. Len(q) \in Nat /\ DOMAIN q = 1..Len(q) /\ DOMAIN r = 1..(Len(q) - 1) /\ i \in 1..Len(q)
  BY LenProperties
<1>2. /\ v \in Seq(Int) /\ Len(v) = Len(q) /\ i \in DOMAIN v
      /\ w \in Seq(Int) /\ Len(w) = Len(v) - 1 /\ v[i] = q[i].left
  BY LeftsOf
<1>3. ASSUME NEW j \in 1..(Len(v) - 1) PROVE w[j] = IF j < i THEN v[j] ELSE v[j + 1]
  <2>1. j \in DOMAIN r /\ j \in DOMAIN q /\ j + 1 \in DOMAIN q
    BY <1>1, <1>2
  <2>2. w[j] = r[j].left /\ v[j] = q[j].left /\ v[j + 1] = q[j + 1].left
    BY <2>1, LeftsOf
  <2>3. r[j] = IF j < i THEN q[j] ELSE q[j + 1]
    BY <1>2
  <2> QED
    BY <2>2, <2>3
<1> HIDE DEF v, w
<1>4. SumFunction(w) = SumFunction(v) - v[i]
  BY <1>2, <1>3, SumOfRemove
<1> QED
  BY <1>2, <1>4 DEF SizeOf, v, w

\* A fill of the front order, in part or in full, takes its quantity.
LEMMA SizeOfAfterFill ==
  ASSUME NEW q \in Seq(Resting), q # <<>>, NEW n \in 1..Head(q).left
  PROVE  SizeOf(AfterFill(q, n)) = SizeOf(q) - n
<1>1. Len(q) \in Nat \ {0} /\ DOMAIN q = 1..Len(q) /\ Head(q) = q[1] /\ 1 \in DOMAIN q
      /\ Head(q) \in Resting
  BY EmptySeq, LenProperties, HeadTailProperties
<1>2. Head(q).left \in 1..MaxQty /\ n \in Int
  BY <1>1 DEF Resting
<1>3. CASE n = Head(q).left
  <2> DEFINE r == Tail(q)
  <2>1. r \in Seq(Resting) /\ Len(r) = Len(q) - 1 /\ \A j \in 1..Len(r) : r[j] = q[j + 1]
    BY HeadTailProperties
  <2> HIDE DEF r
  <2>2. \A j \in 1..(Len(q) - 1) : r[j] = IF j < 1 THEN q[j] ELSE q[j + 1]
    BY <2>1
  <2>3. SizeOf(r) = SizeOf(q) - q[1].left
    BY <2>1, <2>2, <1>1, SizeOfOneOut
  <2> QED
    BY <2>3, <1>1, <1>3 DEF AfterFill, r
<1>4. CASE n # Head(q).left
  <2> DEFINE o == [id |-> Head(q).id, left |-> Head(q).left - n]
             r == [q EXCEPT ![1] = o]
  <2>1. o \in Resting /\ o.left = q[1].left - n
    BY <1>1, <1>2, <1>4, MaxQtyAssumption DEF Resting
  <2>2. AfterFill(q, n) = r
    BY <1>4 DEF AfterFill
  <2> HIDE DEF o
  <2>3. r \in Seq(Resting) /\ Len(r) = Len(q) /\ \A j \in 1..Len(q) : r[j] = IF j = 1 THEN o ELSE q[j]
    BY <2>1, <1>1, ExceptSeq
  <2> HIDE DEF r
  <2> DEFINE v == Lefts(q)
             w == Lefts(r)
  <2>4. /\ v \in Seq(Int) /\ w \in Seq(Int) /\ Len(w) = Len(v) /\ 1 \in DOMAIN v
        /\ DOMAIN v = DOMAIN q /\ v[1] = q[1].left
    BY <2>3, <1>1, LeftsOf
  <2>5. DOMAIN r = DOMAIN q
    BY <2>3, LenProperties
  <2>6. \A j \in DOMAIN v : w[j] = r[j].left /\ v[j] = q[j].left
    BY <2>3, <2>4, <2>5, LeftsOf
  <2>7. \A j \in DOMAIN v : j # 1 => w[j] = v[j]
    BY <2>3, <2>4, <2>6, <1>1
  <2>8. w[1] = v[1] - n /\ v[1] \in Int
    <3>1. w[1] = o.left /\ v[1] = Head(q).left
      BY <2>3, <2>4, <2>6, <1>1
    <3> QED
      BY <3>1, <2>1, <1>1, <1>2
  <2> HIDE DEF v, w
  <2>9. SumFunction(w) = SumFunction(v) - v[1] + w[1] /\ SumFunction(v) \in Int
    BY <2>4, <2>7, SumOfUpdate, SequenceSum
  <2>10. SumFunction(w) = SumFunction(v) - n
    BY <2>8, <2>9, <1>2
  <2> QED
    BY <2>2, <2>10 DEF SizeOf, v, w
<1> QED
  BY <1>3, <1>4

----------------------------------------------------------------------------
(* The inductive invariant holds of the empty book *)

\* The empty book is whole.
LEMMA InitStructure == BookInit => BookStructure
<1> SUFFICES ASSUME BookInit PROVE BookStructure
  OBVIOUS
<1>1. BookTypeOK
  BY MaxQtyAssumption DEF BookInit, BookTypeOK, Idle, Outcome
<1>2. \A l \in Location : QueueAt(l) = <<>> /\ ~Consuming(l)
  BY DEF BookInit, QueueAt, Location, Consuming
<1>3. LocateExact
  BY <1>2 DEF BookInit, LocateExact, IdsAt, Ids, NoRepeats
<1>4. NoEmptyLevels
  BY <1>2 DEF BookInit, NoEmptyLevels, Location
<1>5. BookUncrossed /\ LevelInProgress
  BY DEF BookInit, BookUncrossed, LevelInProgress, Side, Idle
<1>6. CachedSizeExact
  BY <1>2, SizeOfEmpty DEF BookInit, CachedSizeExact, Location
<1> QED
  BY <1>1, <1>3, <1>4, <1>5, <1>6 DEF BookStructure

----------------------------------------------------------------------------
(* ... and every step preserves it *)

\* A submission starts its loop and touches no queue.
LEMMA SubmitPreserves ==
  ASSUME BookStructure,
         NEW id \in OrderIds, NEW side \in Side, NEW limit \in Prices \cup {None},
         NEW qty \in 0..MaxQty, NEW sink \in Seq(Fill),
         Submit(id, side, limit, qty, sink)
  PROVE  BookStructure'
<1> USE DEF BookStructure
<1>1. BookTypeOK'
  BY MaxQtyAssumption DEF BookTypeOK, Submit, Idle, book, Taker, Outcome
<1>2. \A l \in Location : QueueAt(l)' = QueueAt(l) /\ ~Consuming(l) /\ ~Consuming(l)'
  BY DEF Submit, Idle, book, QueueAt, Consuming
<1>3. LocateExact'
  BY <1>2 DEF LocateExact, IdsAt, Submit, Idle, book
<1>4. NoEmptyLevels'
  BY <1>2 DEF NoEmptyLevels, Submit, book
<1>5. BookUncrossed'
  BY DEF BookUncrossed, Submit, book
<1>6. CachedSizeExact'
  BY <1>2 DEF CachedSizeExact, Submit, book
<1>7. LevelInProgress'
  BY DEF LevelInProgress, Submit, Idle, book, IsResting
<1> QED
  BY <1>1, <1>3, <1>4, <1>5, <1>6, <1>7

\* Entering a level touches no queue.
LEMMA EnterLevelPreserves ==
  ASSUME BookStructure, EnterLevel
  PROVE  BookStructure'
<1> USE DEF BookStructure
<1>1. Opp \in Side /\ level' \in keys[Opp] /\ level' \in Prices
  BY DEF BookTypeOK, EnterLevel, Idle, BestOf, Opp, Opposite, Side, Taker
<1>2. BookTypeOK'
  BY <1>1 DEF BookTypeOK, EnterLevel, Idle, book
<1>3. \A l \in Location : QueueAt(l)' = QueueAt(l) /\ ~Consuming(l)
  BY DEF EnterLevel, book, QueueAt, Consuming
<1>4. LocateExact'
  BY <1>3 DEF LocateExact, IdsAt, EnterLevel, book
<1>5. NoEmptyLevels'
  BY <1>3 DEF NoEmptyLevels, EnterLevel, book
<1>6. BookUncrossed'
  BY DEF BookUncrossed, EnterLevel, book
<1>7. CachedSizeExact'
  BY <1>3 DEF CachedSizeExact, EnterLevel, book
<1>8. LevelInProgress'
  BY DEF LevelInProgress, EnterLevel, Idle, book, IsResting, Opp, BestOf, Acceptable
<1> QED
  BY <1>2, <1>4, <1>5, <1>6, <1>7, <1>8

\* A fill shrinks or removes the front order, and its level and its locator with it.
LEMMA FillFrontPreserves ==
  ASSUME BookStructure, FillFront
  PROVE  BookStructure'
<1> USE DEF BookStructure
<1> DEFINE here  == [side |-> Opp, px |-> level]
           q     == queue[Opp][level]
           maker == Head(q)
<1>1. /\ phase = "level" /\ taker \in Taker /\ taker.left \in 1..MaxQty
      /\ Opp \in Side /\ level \in Prices /\ here \in Location
      /\ q \in Seq(Resting) /\ q # <<>>
  BY MaxQtyAssumption DEF BookTypeOK, FillFront, Idle, Opp, Opposite, Side, Taker, Location
<1>2. NoRepeats(q)
  BY <1>1 DEF LocateExact, QueueAt
<1>3. maker \in Resting /\ maker.left \in 1..MaxQty /\ maker.id \in OrderIds
  <2>1. maker \in Resting
    BY <1>1, HeadTailProperties
  <2> HIDE DEF maker
  <2> QED
    BY <2>1 DEF Resting
<1> HIDE DEF maker
<1> DEFINE qty   == IF taker.left < maker.left THEN taker.left ELSE maker.left
           gone  == IF qty = maker.left THEN {maker.id} ELSE {}
           rest  == AfterFill(q, qty)
           f     == FillOf(maker, qty)
<1>4. qty \in 1..MaxQty /\ qty <= taker.left /\ qty <= maker.left
      /\ taker.left - qty \in 0..MaxQty /\ (qty # maker.left => maker.left - qty \in 1..MaxQty)
  BY <1>1, <1>3, MaxQtyAssumption
<1>5. /\ rest \in Seq(Resting) /\ NoRepeats(rest)
      /\ Ids(rest) = Ids(q) \ gone /\ gone \subseteq Ids(q)
  <2>1. CASE qty = maker.left
    BY <2>1, <1>1, <1>2, IdsOfTail DEF maker, AfterFill
  <2>2. CASE qty # maker.left
    BY <2>2, <1>1, <1>2, <1>4, IdsOfPartialFill DEF maker, AfterFill
  <2> QED
    BY <2>1, <2>2
<1>6. /\ taker' = [taker EXCEPT !.left = @ - qty]
      /\ total' = [total EXCEPT ![Opp][level] = @ - qty]
      /\ fills' = Append(fills, f)
      /\ queue' = [queue EXCEPT ![Opp][level] = rest]
      /\ cleared' = cleared \cup gone
      /\ UNCHANGED <<keys, locate, phase, level, outcome>>
  BY DEF FillFront, maker
<1>7. f \in Fill
  BY <1>1, <1>3, <1>4 DEF Fill, Taker, FillOf
<1> HIDE DEF qty, rest, f, gone
<1>8. /\ taker' \in Taker
      /\ taker'.id = taker.id /\ taker'.side = taker.side /\ taker'.limit = taker.limit
      /\ taker'.qty = taker.qty /\ taker'.left = taker.left - qty
  BY <1>1, <1>4, <1>6 DEF Taker
<1>9. Opp' = Opp /\ here' = here
  BY <1>6, <1>8 DEF Opp
<1>10. \A l \in Location : QueueAt(l)' = IF l = here THEN rest ELSE QueueAt(l)
  BY <1>1, <1>6 DEF BookTypeOK, QueueAt, Location
<1>11. \A l \in Location : Consuming(l) = (l = here) /\ Consuming(l)' = (l = here)
  BY <1>1, <1>6, <1>9 DEF Consuming
<1>12. QueueAt(here) = q /\ QueueAt(here)' = rest
  BY <1>1, <1>6, <1>9, <1>10 DEF QueueAt
<1>13. BookTypeOK'
  <2>1. queue' \in [Side -> [Prices -> Seq(Resting)]]
    BY <1>1, <1>5, <1>6 DEF BookTypeOK
  <2>2. total' \in [Side -> [Prices -> Int]]
    BY <1>1, <1>4, <1>6 DEF BookTypeOK
  <2>3. cleared' \subseteq OrderIds
    BY <1>3, <1>6 DEF BookTypeOK, gone
  <2>4. fills' \in Seq(Fill)
    BY <1>6, <1>7, AppendProperties DEF BookTypeOK
  <2> QED
    BY <1>1, <1>6, <1>8, <2>1, <2>2, <2>3, <2>4 DEF BookTypeOK, Idle
<1>14. LocateExact'
  <2>1. \A id \in OrderIds, l \in Location :
          (l \in locate[id] <=> id \in IdsAt(l) \/ (Consuming(l) /\ id \in cleared))'
    <3> SUFFICES ASSUME NEW id \in OrderIds, NEW l \in Location
                 PROVE  l \in locate[id] <=>
                          id \in Ids(QueueAt(l)') \/ (l = here /\ id \in cleared')
      BY <1>6, <1>11 DEF IdsAt
    <3>1. l \in locate[id] <=> id \in Ids(QueueAt(l)) \/ (l = here /\ id \in cleared)
      BY <1>11 DEF LocateExact, IdsAt
    <3>2. CASE l = here
      BY <3>1, <3>2, <1>5, <1>6, <1>10, <1>12
    <3>3. CASE l # here
      BY <3>1, <3>3, <1>10
    <3> QED
      BY <3>2, <3>3
  <2>2. \A id \in OrderIds : \A l1, l2 \in locate'[id] : l1 = l2
    BY <1>6 DEF LocateExact
  <2>3. \A l \in Location : NoRepeats(QueueAt(l)')
    BY <1>5, <1>10 DEF LocateExact
  <2>4. \A id \in cleared' : id \notin Ids(QueueAt(here)')
    <3>1. \A id \in cleared : id \notin Ids(q)
      BY <1>1, <1>12 DEF LocateExact, IdsAt
    <3> QED
      BY <3>1, <1>5, <1>6, <1>12
  <2> QED
    BY <2>1, <2>2, <2>3, <2>4, <1>9 DEF LocateExact, IdsAt
<1>15. NoEmptyLevels'
  BY <1>6, <1>10, <1>11 DEF NoEmptyLevels
<1>16. BookUncrossed'
  BY <1>6 DEF BookUncrossed
<1>17. CachedSizeExact'
  <2>1. SizeOf(rest) = SizeOf(q) - qty
    BY <1>1, <1>3, <1>4, SizeOfAfterFill DEF rest, maker
  <2>2. \A l \in Location :
          total'[l.side][l.px] = IF l = here THEN total[Opp][level] - qty ELSE total[l.side][l.px]
    <3>1. total \in [Side -> [Prices -> Int]]
      BY DEF BookTypeOK
    <3>2. \A l \in Location : l.side \in Side /\ l.px \in Prices
                              /\ (l = here <=> l.side = Opp /\ l.px = level)
      BY DEF Location
    <3> QED
      BY <3>1, <3>2, <1>1, <1>6
  <2>3. total[Opp][level] = SizeOf(q)
    BY <1>1, <1>12 DEF CachedSizeExact
  <2> QED
    BY <2>1, <2>2, <2>3, <1>10 DEF CachedSizeExact
<1>18. LevelInProgress'
  <2>1. level \in BestOf(Opp) /\ Acceptable(level) /\ ~IsResting(taker.id) /\ outcome.kind = "none"
    BY <1>1 DEF LevelInProgress, Idle
  <2>2. (level \in BestOf(Opp) /\ Acceptable(level) /\ ~IsResting(taker.id) /\ outcome.kind = "none")'
    BY <2>1, <1>6, <1>8, <1>9 DEF BestOf, Acceptable, IsResting
  <2> QED
    BY <2>2 DEF LevelInProgress
<1> QED
  BY <1>13, <1>14, <1>15, <1>16, <1>17, <1>18

\* Leaving a level that the loop emptied drops the key of that level.
LEMMA LeaveLevelPreserves ==
  ASSUME BookStructure, LeaveLevel
  PROVE  BookStructure'
<1> USE DEF BookStructure
<1> DEFINE here == [side |-> Opp, px |-> level]
<1>1. /\ phase = "level" /\ taker \in Taker
      /\ Opp \in Side /\ level \in Prices /\ here \in Location
  BY DEF BookTypeOK, LeaveLevel, Idle, Opp, Opposite, Side, Taker, Location
<1>2. /\ locate' = [id \in OrderIds |-> IF id \in cleared THEN {} ELSE locate[id]]
      /\ queue[Opp][level] = <<>> => keys' = [keys EXCEPT ![Opp] = @ \ {level}]
      /\ queue[Opp][level] # <<>> => keys' = keys
      /\ phase' = "cross" /\ level' = None /\ cleared' = {}
      /\ queue' = queue /\ taker' = taker /\ fills' = fills /\ outcome' = outcome
  BY DEF BookTypeOK, LeaveLevel, Forgotten, WithoutEmpty
<1>3. /\ keys' \in [Side -> SUBSET Prices]
      /\ \A s \in Side, p \in Prices :
           p \in keys'[s] <=> p \in keys[s] /\ ~(s = Opp /\ p = level /\ queue[Opp][level] = <<>>)
  <2>1. keys \in [Side -> SUBSET Prices]
    BY DEF BookTypeOK
  <2>2. CASE queue[Opp][level] = <<>>
    <3>1. keys' = [keys EXCEPT ![Opp] = keys[Opp] \ {level}]
      BY <2>2, <1>2
    <3> QED
      BY <2>1, <2>2, <3>1, <1>1
  <2>3. CASE queue[Opp][level] # <<>>
    BY <2>1, <2>3, <1>2
  <2> QED
    BY <2>2, <2>3
<1>4. BookTypeOK'
  <2>1. total' \in [Side -> [Prices -> Int]]
    <3>1. total \in [Side -> [Prices -> Int]]
      BY DEF BookTypeOK
    <3> QED
      BY <3>1, <1>1 DEF LeaveLevel
  <2>2. locate' \in [OrderIds -> SUBSET Location]
    BY <1>2 DEF BookTypeOK
  <2> QED
    BY <1>1, <1>2, <1>3, <2>1, <2>2 DEF BookTypeOK, Idle
<1>5. /\ \A l \in Location : QueueAt(l)' = QueueAt(l) /\ (Consuming(l) <=> l = here) /\ ~Consuming(l)'
      /\ here.side = Opp /\ here.px = level /\ QueueAt(here) = queue[Opp][level]
  BY <1>1, <1>2 DEF QueueAt, Consuming
<1>6. LocateExact'
  <2>1. ASSUME NEW id \in cleared, NEW l \in Location
        PROVE  id \notin Ids(QueueAt(l))
    <3>1. id \in OrderIds
      BY DEF BookTypeOK
    <3>2. here \in locate[id] /\ id \notin Ids(QueueAt(here))
      BY <3>1, <1>1, <1>5 DEF LocateExact, IdsAt
    <3>3. l \in locate[id] => l = here
      BY <3>1, <3>2 DEF LocateExact
    <3> QED
      BY <3>1, <3>2, <3>3 DEF LocateExact, IdsAt
  <2>2. \A id \in OrderIds, l \in Location : l \in locate'[id] <=> id \in Ids(QueueAt(l))
    BY <2>1, <1>2, <1>5 DEF LocateExact, IdsAt
  <2>3. \A id \in OrderIds : \A l1, l2 \in locate'[id] : l1 = l2
    BY <1>2 DEF LocateExact
  <2> QED
    BY <2>2, <2>3, <1>2, <1>5 DEF LocateExact, IdsAt
<1>7. NoEmptyLevels'
  <2> SUFFICES ASSUME NEW l \in Location
               PROVE  l.px \in keys'[l.side] <=> QueueAt(l) # <<>>
    BY <1>5 DEF NoEmptyLevels
  <2>1. l.side \in Side /\ l.px \in Prices
    BY DEF Location
  <2>2. CASE l = here
    <3>1. level \in keys[Opp]
      BY <1>1 DEF LevelInProgress, BestOf
    <3> QED
      BY <2>1, <2>2, <3>1, <1>3, <1>5
  <2>3. CASE l # here
    <3>1. ~(l.side = Opp /\ l.px = level)
      BY <2>3 DEF Location
    <3> QED
      BY <2>1, <2>3, <3>1, <1>3, <1>5 DEF NoEmptyLevels
  <2> QED
    BY <2>2, <2>3
<1>8. BookUncrossed'
  BY <1>3 DEF BookUncrossed, BookTypeOK, Side
<1>9. CachedSizeExact'
  <2> SUFFICES ASSUME NEW l \in Location PROVE total'[l.side][l.px] = SizeOf(QueueAt(l))
    BY <1>5 DEF CachedSizeExact
  <2>1. l.side \in Side /\ l.px \in Prices
    BY DEF Location
  <2>2. /\ total \in [Side -> [Prices -> Int]]
        /\ total' = [total EXCEPT ![Opp][level] = IF queue[Opp][level] = <<>> THEN 0 ELSE @]
    BY DEF BookTypeOK, LeaveLevel
  <2>3. total[l.side][l.px] = SizeOf(QueueAt(l))
    BY DEF CachedSizeExact
  <2>4. CASE l = here /\ queue[Opp][level] = <<>>
    <3>1. total'[l.side][l.px] = 0
      BY <2>1, <2>2, <2>4, <1>5
    <3> QED
      BY <3>1, <2>4, <1>5, SizeOfEmpty
  <2>5. CASE l # here \/ queue[Opp][level] # <<>>
    <3>1. ~(l.side = Opp /\ l.px = level) \/ queue[Opp][level] # <<>>
      BY <2>5 DEF Location
    <3>2. total'[l.side][l.px] = total[l.side][l.px]
      BY <3>1, <2>1, <2>2, <1>1
    <3> QED
      BY <3>2, <2>3
  <2> QED
    BY <2>4, <2>5
<1>10. LevelInProgress'
  <2>1. ~IsResting(taker.id) /\ taker.id \in OrderIds
    BY <1>1 DEF LevelInProgress, Idle, Taker
  <2>2. locate'[taker.id] = {}
    BY <2>1, <1>2 DEF IsResting
  <2>3. outcome.kind = "none"
    BY <1>1 DEF LevelInProgress, Idle
  <2> QED
    BY <2>2, <2>3, <1>2 DEF LevelInProgress, IsResting
<1> QED
  BY <1>4, <1>6, <1>7, <1>8, <1>9, <1>10

\* The two ways to return that leave the book alone.
LEMMA ReturnPreserves ==
  ASSUME BookStructure, ReturnFilled \/ RejectRemainder
  PROVE  BookStructure'
<1> USE DEF BookStructure
<1>1. /\ phase = "cross" /\ phase' = "idle" /\ taker' = None
      /\ UNCHANGED <<keys, queue, total, locate, level, cleared, fills>>
      /\ outcome' \in Outcome
  BY DEF ReturnFilled, RejectRemainder, Return, Returned, book, Outcome
<1>2. BookTypeOK'
  BY <1>1 DEF BookTypeOK, Idle
<1>3. \A l \in Location : QueueAt(l)' = QueueAt(l) /\ ~Consuming(l) /\ ~Consuming(l)'
  BY <1>1 DEF QueueAt, Consuming
<1>4. LocateExact'
  BY <1>1, <1>3 DEF LocateExact, IdsAt
<1>5. NoEmptyLevels'
  BY <1>1, <1>3 DEF NoEmptyLevels
<1>6. BookUncrossed' /\ CachedSizeExact' /\ LevelInProgress'
  BY <1>1, <1>3 DEF BookUncrossed, CachedSizeExact, LevelInProgress, Idle
<1> QED
  BY <1>2, <1>4, <1>5, <1>6

\* When nothing is left to hit, no level of the other side is acceptable: the
\* best one is not, and the others are worse.
LEMMA NothingAcceptable ==
  ASSUME BookTypeOK, ~Idle, taker.limit # None, NothingToHit
  PROVE  \A p \in keys[Opp] : ~Acceptable(p)
<1>1. /\ taker \in Taker /\ Opp \in Side /\ keys[Opp] \in SUBSET Prices
      /\ taker.limit \in Prices /\ taker.side \in Side
  BY DEF BookTypeOK, Opp, Opposite, Side, Taker
<1>2. \A p \in Prices : p \in Int
  BY PricesAssumption DEF Prices
<1>3. SUFFICES ASSUME NEW p \in keys[Opp], Acceptable(p) PROVE FALSE
  OBVIOUS
<1>4. PICK b \in keys[Opp] : \A q \in keys[Opp] : ~Better(Opp, q, b)
  BY <1>1, <1>3, BestExists DEF Better
<1>5. ~Acceptable(b)
  BY <1>4 DEF NothingToHit, BestOf
<1>6. ~Better(Opp, p, b)
  BY <1>3, <1>4
<1>7. p \in Int /\ b \in Int /\ taker.limit \in Int
  BY <1>1, <1>2, <1>3, <1>4
<1> QED
  BY <1>1, <1>3, <1>5, <1>6, <1>7 DEF Acceptable, Better, Opp, Opposite, Side

\* What rests joins the tail of its level, whose key and total follow.
LEMMA RestRemainderPreserves ==
  ASSUME BookStructure, RestRemainder
  PROVE  BookStructure'
<1> USE DEF BookStructure
<1> DEFINE s == taker.side
           p == taker.limit
           here == [side |-> s, px |-> p]
           o == [id |-> taker.id, left |-> taker.left]
           q == queue[s][p]
<1>1. /\ phase = "cross" /\ taker \in Taker /\ taker.id \in OrderIds /\ s \in Side /\ p \in Prices
      /\ taker.left \in 1..MaxQty /\ here \in Location /\ q \in Seq(Resting)
      /\ o \in Resting /\ o.id = taker.id
  <2>1. phase = "cross" /\ taker \in Taker /\ taker.left > 0 /\ p # None
    BY DEF BookTypeOK, RestRemainder, Idle
  <2>2. taker.id \in OrderIds /\ s \in Side /\ p \in Prices /\ taker.left \in 0..MaxQty
    BY <2>1 DEF Taker
  <2>3. taker.left \in 1..MaxQty
    BY <2>1, <2>2, MaxQtyAssumption
  <2> QED
    BY <2>1, <2>2, <2>3 DEF BookTypeOK, Location, Resting
<1>2. /\ keys'  = [keys EXCEPT ![s] = @ \cup {p}]
      /\ queue' = [queue EXCEPT ![s][p] = Append(@, o)]
      /\ total' = [total EXCEPT ![s][p] = @ + taker.left]
      /\ locate' = [locate EXCEPT ![taker.id] = {here}]
      /\ outcome' = [kind |-> "rested", ahead |-> total[s][p]]
      /\ phase' = "idle" /\ taker' = None /\ UNCHANGED <<level, cleared, fills>>
  BY DEF RestRemainder, Return, Returned, Rested
<1> DEFINE r == Append(q, o)
<1>3. queue' = [queue EXCEPT ![s][p] = r]
  BY <1>2
<1>4. locate[taker.id] = {}
  BY <1>1 DEF LevelInProgress, Idle, IsResting
<1>5. here.side = s /\ here.px = p /\ \A l \in Location : l = here <=> l.side = s /\ l.px = p
  BY DEF Location
<1> HIDE DEF o
<1>6. NoRepeats(q) /\ QueueAt(here) = q
  BY <1>1 DEF LocateExact, QueueAt
<1>7. \A l \in Location : taker.id \notin Ids(QueueAt(l))
  BY <1>1, <1>4 DEF LocateExact, IdsAt
<1>8. /\ r \in Seq(Resting) /\ r # <<>> /\ NoRepeats(r)
      /\ Ids(r) = Ids(q) \cup {taker.id}
  BY <1>1, <1>6, <1>7, IdsOfAppend
<1> HIDE DEF r
<1>9. \A l \in Location : QueueAt(l)' = IF l = here THEN r ELSE QueueAt(l)
  BY <1>1, <1>3, <1>5 DEF BookTypeOK, QueueAt, Location
<1>10. \A l \in Location : ~Consuming(l) /\ ~Consuming(l)'
  BY <1>1, <1>2 DEF Consuming
<1>11. /\ keys' \in [Side -> SUBSET Prices]
       /\ \A t \in Side, x \in Prices : x \in keys'[t] <=> x \in keys[t] \/ (t = s /\ x = p)
  BY <1>1, <1>2 DEF BookTypeOK
<1>12. BookTypeOK'
  <2>1. queue' \in [Side -> [Prices -> Seq(Resting)]]
    BY <1>1, <1>3, <1>8 DEF BookTypeOK
  <2>2. total' \in [Side -> [Prices -> Int]] /\ total[s][p] \in Int
    BY <1>1, <1>2 DEF BookTypeOK
  <2>3. locate' \in [OrderIds -> SUBSET Location]
    BY <1>1, <1>2 DEF BookTypeOK
  <2>4. outcome' \in Outcome
    BY <1>2, <2>2 DEF Outcome
  <2> QED
    BY <1>1, <1>2, <1>11, <2>1, <2>2, <2>3, <2>4 DEF BookTypeOK, Idle
<1>13. LocateExact'
  <2>1. \A id \in OrderIds, l \in Location : l \in locate'[id] <=> id \in Ids(QueueAt(l)')
    <3> SUFFICES ASSUME NEW id \in OrderIds, NEW l \in Location
                 PROVE  l \in locate'[id] <=> id \in Ids(QueueAt(l)')
      OBVIOUS
    <3>1. l \in locate[id] <=> id \in Ids(QueueAt(l))
      BY <1>10 DEF LocateExact, IdsAt
    <3>2. locate'[id] = IF id = taker.id THEN {here} ELSE locate[id]
      BY <1>1, <1>2 DEF BookTypeOK
    <3>3. CASE l = here
      BY <3>1, <3>2, <3>3, <1>6, <1>8, <1>9
    <3>4. CASE l # here
      BY <3>1, <3>2, <3>4, <1>7, <1>9
    <3> QED
      BY <3>3, <3>4
  <2>2. \A id \in OrderIds : \A l1, l2 \in locate'[id] : l1 = l2
    BY <1>1, <1>2 DEF LocateExact, BookTypeOK
  <2>3. \A l \in Location : NoRepeats(QueueAt(l)')
    BY <1>8, <1>9 DEF LocateExact
  <2> QED
    BY <2>1, <2>2, <2>3, <1>2, <1>10 DEF LocateExact, IdsAt
<1>14. NoEmptyLevels'
  <2> SUFFICES ASSUME NEW l \in Location
               PROVE  l.px \in keys'[l.side] <=> QueueAt(l)' # <<>>
    BY <1>10 DEF NoEmptyLevels
  <2>1. l.side \in Side /\ l.px \in Prices
    BY DEF Location
  <2> QED
    BY <2>1, <1>5, <1>8, <1>9, <1>10, <1>11 DEF NoEmptyLevels
<1>15. BookUncrossed'
  <2>1. \A x \in keys[Opposite(s)] :
          x \in Int /\ p \in Int /\ IF s = "buy" THEN ~(x <= p) ELSE ~(x >= p)
    <3>1. \A x \in keys[Opp] : ~Acceptable(x)
      BY <1>1, NothingAcceptable, NoneAssumption DEF RestRemainder, Idle
    <3>2. \A x \in Prices : x \in Int
      BY PricesAssumption DEF Prices
    <3>3. Opposite(s) \in Side /\ p # None
      BY <1>1, NoneAssumption DEF Opposite, Side
    <3> QED
      BY <3>1, <3>2, <3>3, <1>1 DEF Acceptable, Opp, BookTypeOK
  <2>2. CASE s = "buy"
    BY <2>1, <2>2, <1>1, <1>2 DEF BookUncrossed, Opposite, BookTypeOK, Side
  <2>3. CASE s = "sell"
    BY <2>1, <2>3, <1>1, <1>2 DEF BookUncrossed, Opposite, BookTypeOK, Side
  <2> QED
    BY <2>2, <2>3, <1>1 DEF Side
<1>16. CachedSizeExact'
  <2>1. SizeOf(r) = SizeOf(q) + taker.left
    BY <1>1, SizeOfAppend DEF r, o
  <2>2. \A l \in Location :
          total'[l.side][l.px] = IF l = here THEN total[s][p] + taker.left ELSE total[l.side][l.px]
    <3>1. total \in [Side -> [Prices -> Int]]
      BY DEF BookTypeOK
    <3>2. \A l \in Location : l.side \in Side /\ l.px \in Prices
      BY DEF Location
    <3> QED
      BY <3>1, <3>2, <1>1, <1>2, <1>5
  <2>3. total[s][p] = SizeOf(q)
    BY <1>1, <1>5, <1>6 DEF CachedSizeExact
  <2> QED
    BY <2>1, <2>2, <2>3, <1>9 DEF CachedSizeExact
<1>17. LevelInProgress'
  BY <1>2 DEF LevelInProgress, Idle
<1> QED
  BY <1>12, <1>13, <1>14, <1>15, <1>16, <1>17

\* A cancel takes its order out of queue, total and locator together.
LEMMA CancelRestingPreserves ==
  ASSUME BookStructure, NEW id \in OrderIds, CancelResting(id), fills' \in Seq(Fill)
  PROVE  BookStructure'
<1> USE DEF BookStructure
<1>1. PICK at \in locate[id] : \E i \in Positions(queue[at.side][at.px], id) :
        LET q    == queue[at.side][at.px]
            rest == RemoveAt(q, i)
        IN  /\ queue' = [queue EXCEPT ![at.side][at.px] = rest]
            /\ total' = [total EXCEPT ![at.side][at.px] =
                           IF rest = <<>> THEN 0 ELSE @ - q[i].left]
            /\ keys' = [keys EXCEPT ![at.side] = WithoutEmpty(@, at.px, rest)]
  BY DEF CancelResting
<1> DEFINE q == queue[at.side][at.px]
<1>2. /\ at \in Location /\ at.side \in Side /\ at.px \in Prices
      /\ q \in Seq(Resting)
      /\ \A l \in Location : l = at <=> l.side = at.side /\ l.px = at.px
  <2>1. at \in Location
    BY DEF BookTypeOK
  <2>2. at.side \in Side /\ at.px \in Prices
    BY <2>1 DEF Location
  <2>3. q \in Seq(Resting)
    BY <2>2 DEF BookTypeOK
  <2>4. \A l \in Location : l = at <=> l.side = at.side /\ l.px = at.px
    BY <2>1 DEF Location
  <2> QED
    BY <2>1, <2>2, <2>3, <2>4
<1>3. PICK i \in DOMAIN q :
        LET rest == RemoveAt(q, i)
        IN  /\ q[i].id = id
            /\ queue' = [queue EXCEPT ![at.side][at.px] = rest]
            /\ total' = [total EXCEPT ![at.side][at.px] =
                           IF rest = <<>> THEN 0 ELSE @ - q[i].left]
            /\ keys' = [keys EXCEPT ![at.side] = WithoutEmpty(@, at.px, rest)]
  BY <1>1 DEF Positions
<1> DEFINE r == RemoveAt(q, i)
<1>4. /\ phase = "idle" /\ taker = None
      /\ UNCHANGED <<phase, taker, level, cleared>>
      /\ locate' = [locate EXCEPT ![id] = {}]
      /\ outcome' \in Outcome
  BY DEF CancelResting, Idle, BookTypeOK, call, Returned, Outcome
<1>5. NoRepeats(q) /\ QueueAt(at) = q
  BY <1>2 DEF LocateExact, QueueAt
<1>6. /\ r \in Seq(Resting) /\ NoRepeats(r)
      /\ Ids(r) = Ids(q) \ {id}
  BY <1>2, <1>3, <1>5, IdsOfRemoveAt
<1>7. q # <<>>
  BY <1>3
<1>8. q[i].left \in Int
  <2>1. q[i] \in Resting
    BY <1>2, <1>3, LenProperties, ElementOfSeq
  <2> QED
    BY <2>1, MaxQtyAssumption DEF Resting
<1> HIDE DEF r
<1>9. /\ queue' = [queue EXCEPT ![at.side][at.px] = r]
      /\ r = <<>> => keys' = [keys EXCEPT ![at.side] = @ \ {at.px}]
      /\ r # <<>> => keys' = [keys EXCEPT ![at.side] = @]
  BY <1>3 DEF r, WithoutEmpty
<1>10. \A l \in Location : QueueAt(l)' = IF l = at THEN r ELSE QueueAt(l)
  BY <1>2, <1>9 DEF BookTypeOK, QueueAt, Location
<1>11. \A l \in Location : ~Consuming(l) /\ ~Consuming(l)'
  BY <1>4 DEF Consuming
<1>12. /\ keys' \in [Side -> SUBSET Prices]
       /\ \A s \in Side, p \in Prices :
            p \in keys'[s] <=> p \in keys[s] /\ ~(s = at.side /\ p = at.px /\ r = <<>>)
  <2>1. keys \in [Side -> SUBSET Prices]
    BY DEF BookTypeOK
  <2>2. CASE r = <<>>
    BY <2>1, <2>2, <1>2, <1>9
  <2>3. CASE r # <<>>
    BY <2>1, <2>3, <1>2, <1>9
  <2> QED
    BY <2>2, <2>3
<1>13. BookTypeOK'
  <2>1. queue' \in [Side -> [Prices -> Seq(Resting)]]
    BY <1>2, <1>6, <1>9 DEF BookTypeOK
  <2>2. total' \in [Side -> [Prices -> Int]]
    BY <1>2, <1>3, <1>8 DEF BookTypeOK
  <2>3. locate' \in [OrderIds -> SUBSET Location]
    BY <1>4 DEF BookTypeOK
  <2> QED
    BY <1>4, <1>12, <2>1, <2>2, <2>3 DEF BookTypeOK, Idle
<1>14. LocateExact'
  <2>1. \A x \in OrderIds, l \in Location : l \in locate'[x] <=> x \in Ids(QueueAt(l)')
    <3> SUFFICES ASSUME NEW x \in OrderIds, NEW l \in Location
                 PROVE  l \in locate'[x] <=> x \in Ids(QueueAt(l)')
      OBVIOUS
    <3>1. l \in locate[x] <=> x \in Ids(QueueAt(l))
      BY <1>11 DEF LocateExact, IdsAt
    <3>2. locate'[x] = IF x = id THEN {} ELSE locate[x]
      BY <1>4 DEF BookTypeOK
    <3>3. l \in locate[id] => l = at
      BY DEF LocateExact
    <3>4. CASE l = at
      BY <3>1, <3>2, <3>4, <1>5, <1>6, <1>10
    <3>5. CASE l # at
      BY <3>1, <3>2, <3>3, <3>5, <1>10
    <3> QED
      BY <3>4, <3>5
  <2>2. \A x \in OrderIds : \A l1, l2 \in locate'[x] : l1 = l2
    BY <1>4 DEF LocateExact, BookTypeOK
  <2>3. \A l \in Location : NoRepeats(QueueAt(l)')
    BY <1>6, <1>10 DEF LocateExact
  <2> QED
    BY <2>1, <2>2, <2>3, <1>4, <1>11 DEF LocateExact, IdsAt
<1>15. NoEmptyLevels'
  <2> SUFFICES ASSUME NEW l \in Location
               PROVE  l.px \in keys'[l.side] <=> QueueAt(l)' # <<>>
    BY <1>11 DEF NoEmptyLevels
  <2>1. l.side \in Side /\ l.px \in Prices
    BY DEF Location
  <2>2. l.px \in keys[l.side] <=> QueueAt(l) # <<>>
    BY <1>11 DEF NoEmptyLevels
  <2> QED
    BY <2>1, <2>2, <1>2, <1>5, <1>7, <1>10, <1>12
<1>16. BookUncrossed'
  BY <1>12 DEF BookUncrossed, BookTypeOK, Side
<1>17. LevelInProgress'
  BY <1>4 DEF LevelInProgress, Idle
<1>18. CachedSizeExact'
  <2>1. SizeOf(r) = SizeOf(q) - q[i].left
    <3>1. /\ r \in Seq(Resting) /\ Len(r) = Len(q) - 1
          /\ \A j \in 1..(Len(q) - 1) : r[j] = IF j < i THEN q[j] ELSE q[j + 1]
      BY <1>2, RemoveAtProperties DEF r
    <3> QED
      BY <3>1, <1>2, SizeOfOneOut
  <2>2. total' = [total EXCEPT ![at.side][at.px] = IF r = <<>> THEN 0 ELSE @ - q[i].left]
    BY <1>3 DEF r
  <2>3. \A l \in Location :
          total'[l.side][l.px] =
            IF l = at THEN IF r = <<>> THEN 0 ELSE total[at.side][at.px] - q[i].left
            ELSE total[l.side][l.px]
    <3>1. total \in [Side -> [Prices -> Int]]
      BY DEF BookTypeOK
    <3>2. \A l \in Location : l.side \in Side /\ l.px \in Prices
      BY DEF Location
    <3> QED
      BY <3>1, <3>2, <2>2, <1>2
  <2>4. total[at.side][at.px] = SizeOf(q)
    BY <1>2, <1>5 DEF CachedSizeExact
  <2>5. r = <<>> => SizeOf(r) = 0
    BY SizeOfEmpty
  <2> QED
    BY <2>1, <2>3, <2>4, <2>5, <1>10 DEF CachedSizeExact
<1> QED
  BY <1>13, <1>14, <1>15, <1>16, <1>17, <1>18

\* A cancel that finds nothing touches no queue.
LEMMA CancelUnknownPreserves ==
  ASSUME BookStructure, NEW id \in OrderIds, CancelUnknown(id), fills' \in Seq(Fill)
  PROVE  BookStructure'
<1> USE DEF BookStructure
<1>1. /\ phase = "idle"
      /\ UNCHANGED <<keys, queue, total, locate, phase, taker, level, cleared>>
      /\ outcome' \in Outcome
  BY DEF CancelUnknown, Idle, book, call, Returned, Outcome
<1>2. BookTypeOK'
  BY <1>1 DEF BookTypeOK, Idle
<1>3. \A l \in Location : QueueAt(l)' = QueueAt(l) /\ ~Consuming(l) /\ ~Consuming(l)'
  BY <1>1 DEF QueueAt, Consuming
<1>4. LocateExact' /\ NoEmptyLevels'
  BY <1>1, <1>3 DEF LocateExact, IdsAt, NoEmptyLevels
<1>5. BookUncrossed' /\ CachedSizeExact' /\ LevelInProgress'
  BY <1>1, <1>3 DEF BookUncrossed, CachedSizeExact, LevelInProgress, Idle
<1> QED
  BY <1>2, <1>4, <1>5

\* Whatever a call of the loop does, step by step.
LEMMA SubmitStepPreserves ==
  ASSUME BookStructure, SubmitStep
  PROVE  BookStructure'
BY EnterLevelPreserves, FillFrontPreserves, LeaveLevelPreserves, ReturnPreserves,
   RestRemainderPreserves DEF SubmitStep, MatchStep, ReturnStep

\* Either way, a cancel leaves the book whole.
LEMMA CancelPreserves ==
  ASSUME BookStructure, NEW id \in OrderIds, Cancel(id), fills' \in Seq(Fill)
  PROVE  BookStructure'
BY CancelRestingPreserves, CancelUnknownPreserves DEF Cancel

\* A step of somebody else leaves the book whole.
LEMMA StutterPreserves ==
  ASSUME BookStructure, UNCHANGED bookVars
  PROVE  BookStructure'
<1>1. UNCHANGED <<keys, queue, total, locate, phase, taker, level, cleared, fills, outcome>>
  BY DEF bookVars, book, call
<1>2. \A l \in Location : QueueAt(l)' = QueueAt(l) /\ Consuming(l)' = Consuming(l)
  BY <1>1 DEF QueueAt, Consuming, Opp
<1>3. BookTypeOK' /\ LevelInProgress' /\ BookUncrossed'
  BY <1>1 DEF BookStructure, BookTypeOK, LevelInProgress, BookUncrossed, Idle, IsResting, Opp,
     Acceptable, BestOf
<1>4. LocateExact' /\ NoEmptyLevels' /\ CachedSizeExact'
  BY <1>1, <1>2 DEF BookStructure, LocateExact, NoEmptyLevels, CachedSizeExact, IdsAt, Opp, QueueAt
<1> QED
  BY <1>3, <1>4 DEF BookStructure

----------------------------------------------------------------------------
(* The account of the fills, of a submit whose vector is empty at the call *)

\* A fill moves the same quantity from the two sides of the account of the call.
LEMMA FillAccounted ==
  ASSUME BookInvariant, FillFront
  PROVE  (FillsAccount /\ NothingBetter)'
<1> DEFINE maker == Head(queue[Opp][level])
           qty   == IF taker.left < maker.left THEN taker.left ELSE maker.left
           f     == FillOf(maker, qty)
<1>1. /\ phase = "level" /\ taker \in Taker /\ taker.left \in 1..MaxQty /\ ~Idle
      /\ Opp \in Side /\ level \in Prices /\ queue[Opp][level] \in Seq(Resting)
      /\ queue[Opp][level] # <<>> /\ fills \in Seq(Fill)
      /\ level \in BestOf(Opp) /\ Acceptable(level)
  BY MaxQtyAssumption DEF BookInvariant, BookStructure, BookTypeOK, LevelInProgress, FillFront,
     Idle, Opp, Opposite, Side, Taker
<1>2. maker \in Resting
  BY <1>1, HeadTailProperties
<1>3. maker.left \in 1..MaxQty /\ maker.id \in OrderIds
  <2> HIDE DEF maker
  <2> QED
    BY <1>2 DEF Resting
<1>4. /\ taker' = [taker EXCEPT !.left = @ - qty] /\ fills' = Append(fills, f)
      /\ UNCHANGED <<keys, phase, level>>
  BY DEF FillFront
<1> HIDE DEF maker
<1>5. qty \in 1..MaxQty /\ qty <= taker.left /\ taker.left - qty \in 0..MaxQty
  BY <1>1, <1>3, MaxQtyAssumption
<1>6. /\ f.taker = taker.id /\ f.px = level /\ f.left + f.qty = taker.left
      /\ f.left = taker.left - qty
  BY <1>1, <1>5 DEF FillOf
<1>7. f \in Fill
  BY <1>1, <1>3, <1>5 DEF Fill, Taker, FillOf
<1> HIDE DEF qty, f
<1>8. /\ taker' \in Taker
      /\ taker'.id = taker.id /\ taker'.side = taker.side /\ taker'.limit = taker.limit
      /\ taker'.qty = taker.qty /\ taker'.left = taker.left - qty
  BY <1>1, <1>4, <1>5 DEF Taker
<1>9. Opp' = Opp
  BY <1>8 DEF Opp
<1>10. /\ Len(fills) \in Nat /\ DOMAIN fills = 1..Len(fills) /\ fills' # <<>>
       /\ DOMAIN fills' = 1..(Len(fills) + 1) /\ Len(fills') = Len(fills) + 1
       /\ \A i \in DOMAIN fills : fills'[i] = fills[i]
       /\ fills'[Len(fills) + 1] = f
       /\ fills = <<>> <=> Len(fills) = 0
  BY <1>1, <1>4, <1>7, AppendProperties, LenProperties, EmptySeq
<1>11. taker'.left = fills'[Len(fills')].left
  BY <1>6, <1>8, <1>10
<1>12. \A i \in DOMAIN fills' : fills'[i].taker = taker.id /\ Acceptable(fills'[i].px)
  BY <1>1, <1>6, <1>10 DEF BookInvariant, FillsAccount
<1>13. \A i \in DOMAIN fills' : fills'[i].left + fills'[i].qty =
                                  IF i = 1 THEN taker.qty ELSE fills'[i - 1].left
  BY <1>1, <1>6, <1>10 DEF BookInvariant, FillsAccount
<1>14. \A i \in DOMAIN fills' : i > 1 => ~Better(Opp, fills'[i].px, fills'[i - 1].px)
  <2>1. fills # <<>> => ~Better(Opp, level, fills[Len(fills)].px)
    BY <1>1 DEF BookInvariant, NothingBetter, BestOf
  <2> QED
    BY <2>1, <1>1, <1>6, <1>10 DEF BookInvariant, FillsAccount
<1>15. \A p \in keys'[Opp] : ~Better(Opp, p, fills'[Len(fills')].px)
  BY <1>1, <1>4, <1>6, <1>10 DEF BestOf
<1> QED
  BY <1>8, <1>9, <1>10, <1>11, <1>12, <1>13, <1>14, <1>15 DEF FillsAccount, NothingBetter, Acceptable

\* The other steps of the loop keep the fills; levels only leave the book.
LEMMA AccountKept ==
  ASSUME BookInvariant, EnterLevel \/ LeaveLevel
  PROVE  (FillsAccount /\ NothingBetter)'
<1>1. taker' = taker /\ fills' = fills /\ ~Idle
  BY DEF EnterLevel, LeaveLevel, Idle
<1>2. taker \in Taker /\ Opp \in Side /\ keys \in [Side -> SUBSET Prices]
  BY <1>1 DEF BookInvariant, BookStructure, BookTypeOK, Taker, Opp, Opposite, Side
<1>3. keys'[Opp] \subseteq keys[Opp]
  BY <1>2 DEF EnterLevel, LeaveLevel, book, WithoutEmpty
<1> QED
  BY <1>1, <1>3 DEF BookInvariant, FillsAccount, NothingBetter, Acceptable, Opp

----------------------------------------------------------------------------
(* The theorems *)

\* BookInvariant holds of every book that calls of submit and cancel can make.
THEOREM BookInvariantHolds == BookSpec => []BookInvariant
<1>1. BookInit => BookInvariant
  BY InitStructure DEF BookInit, BookInvariant, FillsAccount, NothingBetter, Idle
<1>2. BookInvariant /\ [BookNext]_bookVars => BookInvariant'
  <2> SUFFICES ASSUME BookInvariant, [BookNext]_bookVars PROVE BookInvariant'
    OBVIOUS
  <2>1. BookStructure /\ fills \in Seq(Fill) /\ <<>> \in Seq(Fill)
    BY EmptySeq DEF BookInvariant, BookStructure, BookTypeOK
  <2>2. ASSUME NEW id \in OrderIds, NEW side \in Side, NEW limit \in Prices \cup {None},
               NEW qty \in 0..MaxQty, Submit(id, side, limit, qty, <<>>)
        PROVE  BookInvariant'
    <3>1. BookStructure'
      BY <2>1, <2>2, SubmitPreserves
    <3>2. FillsAccount' /\ NothingBetter'
      BY <2>2 DEF Submit, FillsAccount, NothingBetter
    <3> QED
      BY <3>1, <3>2 DEF BookInvariant
  <2>3. ASSUME NEW id \in OrderIds, Cancel(id), UNCHANGED fills PROVE BookInvariant'
    <3>1. BookStructure'
      BY <2>1, <2>3, CancelPreserves
    <3>2. FillsAccount' /\ NothingBetter'
      BY <2>3 DEF Cancel, CancelResting, CancelUnknown, call, Idle, FillsAccount, NothingBetter
    <3> QED
      BY <3>1, <3>2 DEF BookInvariant
  <2>4. CASE SubmitStep
    <3>1. BookStructure'
      BY <2>1, <2>4, SubmitStepPreserves
    <3>2. CASE MatchStep
      BY <3>1, <3>2, FillAccounted, AccountKept DEF MatchStep, BookInvariant
    <3>3. CASE ReturnStep
      BY <3>1, <3>3 DEF ReturnStep, ReturnFilled, RejectRemainder, RestRemainder, Return, Idle,
         FillsAccount, NothingBetter, BookInvariant
    <3> QED
      BY <2>4, <3>2, <3>3 DEF SubmitStep
  <2>5. CASE UNCHANGED bookVars
    <3>1. BookStructure'
      BY <2>1, <2>5, StutterPreserves
    <3>2. UNCHANGED <<keys, taker, fills, phase>>
      BY <2>5 DEF bookVars, book, call
    <3> QED
      BY <3>1, <3>2 DEF BookInvariant, FillsAccount, NothingBetter, Idle, Acceptable, Opp
  <2> QED
    BY <2>2, <2>3, <2>4, <2>5 DEF BookNext, Call
<1> QED
  BY <1>1, <1>2, PTL DEF BookSpec

\* Every field of Book and every argument of a running submit has its type.
THEOREM TypeCorrect == BookSpec => []BookTypeOK
  BY BookInvariantHolds, PTL DEF BookInvariant, BookStructure

\* No bid is ever at or above an ask, half-way through a submit included.
THEOREM NeverCrossed == BookSpec => []BookUncrossed
  BY BookInvariantHolds, PTL DEF BookInvariant, BookStructure

\* `locate` points at every resting order and at nothing else, and an order
\* rests once: what is_resting answers and where cancel looks are right.
THEOREM IndexExact == BookSpec => []LocateExact
  BY BookInvariantHolds, PTL DEF BookInvariant, BookStructure

\* A level exists exactly while an order rests in it: the best price that
\* submit picks has somebody to fill, so its loop over the level gets on.
THEOREM LevelsInhabited == BookSpec => []NoEmptyLevels
  BY BookInvariantHolds, PTL DEF BookInvariant, BookStructure

\* The fills of a submit add up, stay within the limit and get no better.
THEOREM FillsExact == BookSpec => []FillsAccount
  BY BookInvariantHolds, PTL DEF BookInvariant, BookStructure

\* The cached total of a level is the sum of what its orders have left, in every
\* book a submit goes through: the depth a snapshot shows and the queue position
\* a resting order is told are right.
THEOREM CachedSizes == BookSpec => []CachedSizeExact
  BY BookInvariantHolds, PTL DEF BookInvariant, BookStructure

\* A submit consumes the best level and an acceptable one, its own order is not
\* in the book, and nothing better than what it has had is left on the other side.
THEOREM SubmitSound == BookSpec => []SubmitInProgress
  BY BookInvariantHolds, PTL DEF BookInvariant, BookStructure, SubmitInProgress

----------------------------------------------------------------------------
(* Queue positions *)

\* Where an order is in its queue tells who is ahead of it.
LEMMA AheadIs ==
  ASSUME NEW qs, NEW l \in Location, NEW q, q = qs[l.side][l.px], NoRepeats(q),
         NEW i \in DOMAIN q, NEW id, q[i].id = id,
         \A k \in Location : id \in Ids(qs[k.side][k.px]) => k = l
  PROVE  AheadIn(qs, id) = InFront(q, i)
<1> DEFINE at == {k \in Location : id \in Ids(qs[k.side][k.px])}
           here == CHOOSE k \in at : TRUE
           places == Positions(q, id)
           place == CHOOSE j \in places : TRUE
<1>1. l \in at /\ \A k \in at : k = l
  BY DEF Ids
<1>2. here = l
  BY <1>1
<1>3. i \in places /\ \A j \in places : j = i
  BY DEF Positions, NoRepeats
<1>4. place = i
  BY <1>3
<1>5. AheadIn(qs, id) = InFront(q, place)
  BY <1>1, <1>2 DEF AheadIn
<1> QED
  BY <1>4, <1>5

\* Nobody is ahead of an id that is in no queue.
LEMMA AheadOfNone ==
  ASSUME NEW qs, NEW id, \A k \in Location : id \notin Ids(qs[k.side][k.px])
  PROVE  AheadIn(qs, id) = <<>>
BY DEF AheadIn

\* The first orders of a queue.
LEMMA InFrontProperties ==
  ASSUME NEW q \in Seq(Resting), NEW i \in DOMAIN q
  PROVE  /\ InFront(q, i) \in Seq(Resting)
         /\ Len(InFront(q, i)) = i - 1
         /\ DOMAIN InFront(q, i) = 1..(i - 1)
         /\ \A j \in 1..(i - 1) : InFront(q, i)[j] = q[j]
<1>1. Len(q) \in Nat /\ i \in 1..Len(q) /\ \A j \in 1..(i - 1) : q[j] \in Resting
  BY LenProperties, ElementOfSeq
<1> DEFINE a == InFront(q, i)
<1>2. a \in Seq(Resting) /\ Len(a) = i - 1 /\ \A j \in 1..(i - 1) : a[j] = q[j]
  BY <1>1, SubSeqProperties DEF InFront
<1> HIDE DEF a
<1>3. DOMAIN a = 1..(i - 1)
  BY <1>2, LenProperties
<1> QED
  BY <1>2, <1>3 DEF a

\* Going from queue q to r, nobody new gets ahead of an order that stays, nor
\* does what is ahead of it grow.
Clears(a, b) == Ids(b) \subseteq Ids(a) /\ SizeOf(b) <= SizeOf(a)

OnlyClears(q, r) ==
  \A i \in DOMAIN q, j \in DOMAIN r :
    q[i].id = r[j].id => Clears(InFront(q, i), InFront(r, j))

\* A queue that did not change has only cleared.
LEMMA SameClears ==
  ASSUME NEW a \in Seq(Resting)
  PROVE  Clears(a, a)
<1>1. SizeOf(a) \in Nat
  BY SizeType
<1> QED
  BY <1>1 DEF Clears

\* What is added at the back is ahead of nobody; nor is anything in a queue
\* that stays as it is.
LEMMA JoiningClears ==
  ASSUME NEW q \in Seq(Resting), NoRepeats(q), NEW r \in Seq(Resting), Len(r) >= Len(q),
         \A j \in DOMAIN q : r[j] = q[j],
         \A j \in DOMAIN r \ DOMAIN q : r[j].id \notin Ids(q)
  PROVE  OnlyClears(q, r)
<1> SUFFICES ASSUME NEW i \in DOMAIN q, NEW j \in DOMAIN r, q[i].id = r[j].id
             PROVE  Clears(InFront(q, i), InFront(r, j))
  BY DEF OnlyClears
<1>1. /\ Len(q) \in Nat /\ DOMAIN q = 1..Len(q) /\ Len(r) \in Nat /\ DOMAIN r = 1..Len(r)
  BY LenProperties
<1>2. j \in DOMAIN q /\ j = i
  BY DEF Ids, NoRepeats
<1> DEFINE a == InFront(q, i)
           b == InFront(r, j)
<1>3. /\ a \in Seq(Resting) /\ Len(a) = i - 1 /\ \A m \in 1..(i - 1) : a[m] = q[m]
      /\ b \in Seq(Resting) /\ Len(b) = i - 1 /\ \A m \in 1..(i - 1) : b[m] = r[m]
  <2>1. /\ a \in Seq(Resting) /\ Len(a) = i - 1 /\ \A m \in 1..(i - 1) : a[m] = q[m]
    BY InFrontProperties
  <2>2. /\ b \in Seq(Resting) /\ Len(b) = j - 1 /\ \A m \in 1..(j - 1) : b[m] = r[m]
    BY InFrontProperties
  <2> QED
    BY <2>1, <2>2, <1>2
<1> HIDE DEF a, b
<1>4. \A m \in 1..Len(a) : a[m] = b[m]
  BY <1>1, <1>3
<1>5. a = b
  BY <1>3, <1>4, SeqEqual
<1>6. Clears(a, b)
  BY <1>3, <1>5, SameClears
<1> QED
  BY <1>6 DEF a, b

\* An order taken out is ahead of nobody any more.
LEMMA TakingOutClears ==
  ASSUME NEW q \in Seq(Resting), NoRepeats(q), NEW k \in DOMAIN q,
         NEW r \in Seq(Resting), Len(r) = Len(q) - 1,
         \A j \in 1..(Len(q) - 1) : r[j] = IF j < k THEN q[j] ELSE q[j + 1]
  PROVE  OnlyClears(q, r)
<1> SUFFICES ASSUME NEW i \in DOMAIN q, NEW j \in DOMAIN r, q[i].id = r[j].id
             PROVE  Clears(InFront(q, i), InFront(r, j))
  BY DEF OnlyClears
<1>1. /\ Len(q) \in Nat /\ DOMAIN q = 1..Len(q) /\ DOMAIN r = 1..(Len(q) - 1)
      /\ i \in Int /\ j \in Int /\ k \in Int
  BY LenProperties
<1>2. i = IF j < k THEN j ELSE j + 1
  BY <1>1 DEF NoRepeats
<1> DEFINE a == InFront(q, i)
           b == InFront(r, j)
<1>3. /\ a \in Seq(Resting) /\ Len(a) = i - 1 /\ \A m \in 1..(i - 1) : a[m] = q[m]
      /\ b \in Seq(Resting) /\ Len(b) = j - 1 /\ \A m \in 1..(j - 1) : b[m] = r[m]
      /\ DOMAIN a = 1..(i - 1) /\ DOMAIN b = 1..(j - 1)
  <2>1. /\ a \in Seq(Resting) /\ Len(a) = i - 1 /\ \A m \in 1..(i - 1) : a[m] = q[m]
        /\ DOMAIN a = 1..(i - 1)
    BY InFrontProperties
  <2>2. /\ b \in Seq(Resting) /\ Len(b) = j - 1 /\ \A m \in 1..(j - 1) : b[m] = r[m]
        /\ DOMAIN b = 1..(j - 1)
    BY InFrontProperties
  <2> QED
    BY <2>1, <2>2
<1> HIDE DEF a, b
<1>4. \A m \in 1..(j - 1) : m \in 1..(Len(q) - 1) /\ r[m] = IF m < k THEN q[m] ELSE q[m + 1]
  BY <1>1
<1>5. CASE j < k
  <2>1. i = j
    BY <1>2, <1>5
  <2>2. ASSUME NEW m \in 1..Len(a) PROVE a[m] = b[m]
    <3>1. m \in 1..(j - 1) /\ m \in 1..(i - 1) /\ m < k
      BY <2>1, <1>1, <1>3, <1>5
    <3> QED
      BY <3>1, <1>3, <1>4
  <2>3. a = b
    BY <1>3, <2>1, <2>2, SeqEqual
  <2>4. Clears(a, b)
    BY <1>3, <2>3, SameClears
  <2> QED
    BY <2>4 DEF a, b
<1>6. CASE ~(j < k)
  <2>1. k \in DOMAIN a /\ Len(b) = Len(a) - 1
    BY <1>1, <1>2, <1>3, <1>6
  <2>2. \A m \in 1..(Len(a) - 1) : b[m] = IF m < k THEN a[m] ELSE a[m + 1]
    <3> SUFFICES ASSUME NEW m \in 1..(Len(a) - 1) PROVE b[m] = IF m < k THEN a[m] ELSE a[m + 1]
      OBVIOUS
    <3>1. m \in 1..(j - 1) /\ m \in 1..(i - 1) /\ m + 1 \in 1..(i - 1)
      BY <1>1, <1>2, <1>3, <1>6
    <3> QED
      BY <3>1, <1>3, <1>4
  <2>3. SizeOf(b) = SizeOf(a) - a[k].left
    BY <2>1, <2>2, <1>3, SizeOfOneOut
  <2>4. SizeOf(a) \in Nat /\ a[k].left \in Nat
    <3>1. SizeOf(a) \in Nat
      BY <1>3, SizeType
    <3>2. a[k].left \in 1..MaxQty
      BY <2>1, <1>3, LeftsOf
    <3> QED
      BY <3>1, <3>2, MaxQtyAssumption
  <2>5. \A m \in DOMAIN b : b[m] = a[m] \/ (m + 1 \in DOMAIN a /\ b[m] = a[m + 1])
    BY <1>1, <1>2, <1>3, <1>6, <2>2
  <2>6. \A m \in DOMAIN b : m \in DOMAIN a
    BY <1>1, <1>2, <1>3, <1>6
  <2>7. Ids(b) \subseteq Ids(a)
    BY <2>5, <2>6 DEF Ids
  <2>8. Clears(a, b)
    BY <2>3, <2>4, <2>7 DEF Clears
  <2> QED
    BY <2>8 DEF a, b
<1> QED
  BY <1>5, <1>6

\* A fill of the front order clears what it fills.
LEMMA FillingClears ==
  ASSUME NEW q \in Seq(Resting), q # <<>>, NoRepeats(q), NEW n \in 1..Head(q).left
  PROVE  OnlyClears(q, AfterFill(q, n))
<1>1. Len(q) \in Nat \ {0} /\ DOMAIN q = 1..Len(q) /\ Head(q) = q[1] /\ 1 \in DOMAIN q
      /\ Head(q) \in Resting
  BY EmptySeq, LenProperties, HeadTailProperties
<1>2. Head(q).left \in 1..MaxQty /\ n \in Int
  BY <1>1 DEF Resting
<1>3. CASE n = Head(q).left
  <2> DEFINE r == Tail(q)
  <2>1. r \in Seq(Resting) /\ Len(r) = Len(q) - 1 /\ \A j \in 1..Len(r) : r[j] = q[j + 1]
    BY HeadTailProperties
  <2>2. r = AfterFill(q, n)
    BY <1>3 DEF AfterFill
  <2> HIDE DEF r
  <2>3. \A j \in 1..(Len(q) - 1) : r[j] = IF j < 1 THEN q[j] ELSE q[j + 1]
    BY <2>1
  <2>4. OnlyClears(q, r)
    BY <2>1, <2>3, <1>1, TakingOutClears
  <2> QED
    BY <2>2, <2>4
<1>4. CASE n # Head(q).left
  <2> DEFINE o == [id |-> Head(q).id, left |-> Head(q).left - n]
             r == [q EXCEPT ![1] = o]
  <2>1. o \in Resting /\ o.id = q[1].id
    BY <1>1, <1>2, <1>4, MaxQtyAssumption DEF Resting
  <2>2. AfterFill(q, n) = r
    BY <1>4 DEF AfterFill
  <2>3. o = [id |-> q[1].id, left |-> q[1].left - n]
    BY <1>1
  <2> HIDE DEF o
  <2>4. r \in Seq(Resting) /\ Len(r) = Len(q) /\ \A j \in 1..Len(q) : r[j] = IF j = 1 THEN o ELSE q[j]
    BY <2>1, <1>1, ExceptSeq
  <2> HIDE DEF r
  <2>5. DOMAIN r = DOMAIN q
    BY <2>4, LenProperties
  <2> SUFFICES ASSUME NEW i \in DOMAIN q, NEW j \in DOMAIN r, q[i].id = r[j].id
               PROVE  Clears(InFront(q, i), InFront(r, j))
    BY <2>2 DEF OnlyClears
  <2>6. j = i
    BY <2>1, <2>4, <2>5, <1>1 DEF NoRepeats
  <2> DEFINE a == InFront(q, i)
             b == InFront(r, j)
  <2>7. /\ a \in Seq(Resting) /\ Len(a) = i - 1 /\ \A m \in 1..(i - 1) : a[m] = q[m]
        /\ b \in Seq(Resting) /\ Len(b) = i - 1 /\ \A m \in 1..(i - 1) : b[m] = r[m]
        /\ DOMAIN a = 1..(i - 1) /\ DOMAIN b = 1..(i - 1)
    <3>1. /\ a \in Seq(Resting) /\ Len(a) = i - 1 /\ \A m \in 1..(i - 1) : a[m] = q[m]
          /\ DOMAIN a = 1..(i - 1)
      BY InFrontProperties
    <3>2. /\ b \in Seq(Resting) /\ Len(b) = j - 1 /\ \A m \in 1..(j - 1) : b[m] = r[m]
          /\ DOMAIN b = 1..(j - 1)
      BY <2>4, InFrontProperties
    <3> QED
      BY <2>6, <3>1, <3>2
  <2> HIDE DEF a, b
  <2>8. i \in 1..Len(q)
    BY <1>1
  <2>9. CASE i = 1
    <3>1. a = b
      BY <2>7, <2>9, SeqEqual
    <3>2. Clears(a, b)
      BY <2>7, <3>1, SameClears
    <3> QED
      BY <3>2 DEF a, b
  <2>10. CASE i # 1
    <3>1. 1 \in 1..(i - 1) /\ a # <<>>
      BY <2>7, <2>8, <2>10, EmptySeq, <1>1
    <3>2. Head(a) = a[1] /\ a[1] = q[1]
      BY <2>7, <3>1
    <3> DEFINE c == [a EXCEPT ![1] = o]
    <3>3. AfterFill(a, n) = c
      BY <3>2, <2>3, <1>1, <1>4 DEF AfterFill
    <3>4. c \in Seq(Resting) /\ Len(c) = Len(a) /\ \A m \in 1..Len(a) : c[m] = IF m = 1 THEN o ELSE a[m]
      BY <2>1, <2>7, <3>1, ExceptSeq
    <3> HIDE DEF c
    <3>5. ASSUME NEW m \in 1..Len(b) PROVE b[m] = c[m]
      <4>1. m \in 1..(i - 1) /\ m \in 1..Len(q) /\ m \in 1..Len(a)
        BY <2>7, <2>8, <1>1
      <4>2. b[m] = r[m] /\ a[m] = q[m]
        BY <2>7, <4>1
      <4>3. r[m] = (IF m = 1 THEN o ELSE q[m]) /\ c[m] = (IF m = 1 THEN o ELSE a[m])
        BY <2>4, <3>4, <4>1
      <4> QED
        BY <4>2, <4>3
    <3>6. b = c
      BY <2>7, <3>4, <3>5, SeqEqual
    <3>7. SizeOf(b) = SizeOf(a) - n
      BY <2>7, <3>1, <3>2, <3>3, <3>6, <1>1, SizeOfAfterFill
    <3>8. SizeOf(a) \in Nat /\ n \in Nat
      BY <2>7, SizeType, <1>2
    <3>9. \A m \in DOMAIN b : m \in DOMAIN a /\ b[m].id = a[m].id
      BY <2>1, <2>7, <3>2, <3>4, <3>6
    <3>10. Ids(b) \subseteq Ids(a)
      BY <3>9 DEF Ids
    <3>11. Clears(a, b)
      BY <3>7, <3>8, <3>10 DEF Clears
    <3> QED
      BY <3>11 DEF a, b
  <2> QED
    BY <2>9, <2>10
<1> QED
  BY <1>3, <1>4

\* No id is in two places.
Apart(qs) ==
  \A l \in Location :
    /\ qs[l.side][l.px] \in Seq(Resting) /\ NoRepeats(qs[l.side][l.px])
    /\ \A k \in Location, id \in Ids(qs[l.side][l.px]) : id \in Ids(qs[k.side][k.px]) => k = l

\* In a whole book no order is in two queues, or twice in one.
LEMMA QueuesApart == BookStructure => Apart(queue)
<1> SUFFICES ASSUME BookStructure, NEW l \in Location
             PROVE  /\ QueueAt(l) \in Seq(Resting) /\ NoRepeats(QueueAt(l))
                    /\ \A k \in Location, id \in Ids(QueueAt(l)) : id \in Ids(QueueAt(k)) => k = l
  BY DEF Apart, QueueAt
<1>1. QueueAt(l) \in Seq(Resting) /\ NoRepeats(QueueAt(l))
  BY DEF BookStructure, BookTypeOK, LocateExact, QueueAt, Location
<1>2. \A id \in Ids(QueueAt(l)) : id \in OrderIds
  <2>1. \A i \in DOMAIN QueueAt(l) : QueueAt(l)[i] \in Resting
    BY <1>1, LenProperties, ElementOfSeq
  <2> QED
    BY <2>1 DEF Ids, Resting
<1>3. \A k \in Location, id \in Ids(QueueAt(l)) : id \in Ids(QueueAt(k)) => k = l
  BY <1>2 DEF BookStructure, LocateExact, IdsAt
<1> QED
  BY <1>1, <1>3

\* What is ahead of an id, wherever it is.
LEMMA AheadFound ==
  ASSUME NEW qs, Apart(qs), NEW l \in Location, NEW i \in DOMAIN qs[l.side][l.px]
  PROVE  AheadIn(qs, qs[l.side][l.px][i].id) = InFront(qs[l.side][l.px], i)
<1> DEFINE q == qs[l.side][l.px]
           id == q[i].id
<1>1. NoRepeats(q) /\ id \in Ids(q)
  BY DEF Apart, Ids
<1>2. \A k \in Location : id \in Ids(qs[k.side][k.px]) => k = l
  BY <1>1 DEF Apart
<1>3. i \in DOMAIN q
  OBVIOUS
<1> HIDE DEF id
<1>4. q[i].id = id
  BY DEF id
<1>5. q = qs[l.side][l.px]
  OBVIOUS
<1> HIDE DEF q
<1>6. AheadIn(qs, id) = InFront(q, i)
  BY <1>1, <1>2, <1>3, <1>4, <1>5, AheadIs
<1> QED
  BY <1>6 DEF id, q

\* What is ahead of an order is a queue.
LEMMA AheadType ==
  ASSUME NEW qs, Apart(qs), NEW id
  PROVE  AheadIn(qs, id) \in Seq(Resting)
<1>1. CASE \A l \in Location : id \notin Ids(qs[l.side][l.px])
  BY <1>1, AheadOfNone, EmptySeq
<1>2. ASSUME NEW l \in Location, id \in Ids(qs[l.side][l.px])
      PROVE  AheadIn(qs, id) \in Seq(Resting)
  <2>1. PICK i \in DOMAIN qs[l.side][l.px] : id = qs[l.side][l.px][i].id
    BY <1>2 DEF Ids
  <2>2. AheadIn(qs, id) = InFront(qs[l.side][l.px], i)
    BY <2>1, AheadFound
  <2>3. qs[l.side][l.px] \in Seq(Resting)
    BY DEF Apart
  <2> QED
    BY <2>2, <2>3, InFrontProperties
<1> QED
  BY <1>1, <1>2

\* When every queue only clears and nobody turns up from elsewhere, what is
\* ahead of an order only clears.
LEMMA AheadClears ==
  ASSUME NEW qs, Apart(qs), NEW rs, Apart(rs), NEW id,
         \A l \in Location :
           /\ OnlyClears(qs[l.side][l.px], rs[l.side][l.px])
           /\ id \in Ids(rs[l.side][l.px]) => id \in Ids(qs[l.side][l.px])
  PROVE  Clears(AheadIn(qs, id), AheadIn(rs, id))
<1>1. CASE \A l \in Location : id \notin Ids(rs[l.side][l.px])
  <2>1. AheadIn(rs, id) = <<>> /\ SizeOf(AheadIn(qs, id)) \in Nat
    BY <1>1, AheadOfNone, AheadType, SizeType
  <2>2. Ids(<<>>) = {}
    BY DEF Ids
  <2> QED
    BY <2>1, <2>2, SizeOfEmpty DEF Clears
<1>2. ASSUME NEW l \in Location, id \in Ids(rs[l.side][l.px])
      PROVE  Clears(AheadIn(qs, id), AheadIn(rs, id))
  <2>1. PICK j \in DOMAIN rs[l.side][l.px] : id = rs[l.side][l.px][j].id
    BY <1>2 DEF Ids
  <2>2. PICK i \in DOMAIN qs[l.side][l.px] : id = qs[l.side][l.px][i].id
    BY <1>2 DEF Ids
  <2>3. AheadIn(rs, id) = InFront(rs[l.side][l.px], j)
    BY <2>1, AheadFound
  <2>4. AheadIn(qs, id) = InFront(qs[l.side][l.px], i)
    BY <2>2, AheadFound
  <2>5. Clears(InFront(qs[l.side][l.px], i), InFront(rs[l.side][l.px], j))
    BY <2>1, <2>2 DEF OnlyClears
  <2> QED
    BY <2>3, <2>4, <2>5
<1> QED
  BY <1>1, <1>2

\* One queue changed, and the others did not.
LEMMA OneClears ==
  ASSUME NEW qs, Apart(qs), NEW rs, NEW at \in Location,
         \A l \in Location : l # at => rs[l.side][l.px] = qs[l.side][l.px],
         OnlyClears(qs[at.side][at.px], rs[at.side][at.px])
  PROVE  \A l \in Location : OnlyClears(qs[l.side][l.px], rs[l.side][l.px])
<1> SUFFICES ASSUME NEW l \in Location, l # at
             PROVE  OnlyClears(qs[l.side][l.px], rs[l.side][l.px])
  OBVIOUS
<1> DEFINE q == qs[l.side][l.px]
<1>1. q \in Seq(Resting) /\ NoRepeats(q) /\ Len(q) \in Nat
  BY LenProperties DEF Apart
<1>2. rs[l.side][l.px] = q
  OBVIOUS
<1> HIDE DEF q
<1>3. OnlyClears(q, q)
  BY <1>1, JoiningClears
<1> QED
  BY <1>2, <1>3 DEF q

\* A step puts nobody in front of an order that rests, nor brings it back to a
\* queue it has left.
QueuesOnlyClear(qs, rs) ==
  \A l \in Location : OnlyClears(qs[l.side][l.px], rs[l.side][l.px])

NobodyTurnsUp(qs, rs) ==
  \A l \in Location, id \in OrderIds :
    IsResting(id) /\ id \in Ids(rs[l.side][l.px]) => id \in Ids(qs[l.side][l.px])

\* When one queue clears and the others stay, every queue has only cleared.
LEMMA OneQueueClears ==
  ASSUME BookStructure, NEW at \in Location, NEW r \in Seq(Resting),
         queue' = [queue EXCEPT ![at.side][at.px] = r],
         OnlyClears(queue[at.side][at.px], r),
         \A id \in OrderIds : IsResting(id) /\ id \in Ids(r) => id \in Ids(queue[at.side][at.px])
  PROVE  QueuesOnlyClear(queue, queue') /\ NobodyTurnsUp(queue, queue')
<1>1. queue \in [Side -> [Prices -> Seq(Resting)]]
  BY DEF BookStructure, BookTypeOK
<1>2. \A l \in Location : /\ l.side \in Side /\ l.px \in Prices
                          /\ l = at <=> l.side = at.side /\ l.px = at.px
  BY DEF Location
<1>3. \A l \in Location : queue'[l.side][l.px] = IF l = at THEN r ELSE queue[l.side][l.px]
  BY <1>1, <1>2
<1>4. Apart(queue)
  BY QueuesApart
<1>5. OnlyClears(queue[at.side][at.px], queue'[at.side][at.px])
  BY <1>3
<1>6. \A l \in Location : l # at => queue'[l.side][l.px] = queue[l.side][l.px]
  BY <1>3
<1>7. QueuesOnlyClear(queue, queue')
  BY <1>4, <1>5, <1>6, OneClears DEF QueuesOnlyClear
<1>8. NobodyTurnsUp(queue, queue')
  BY <1>3 DEF NobodyTurnsUp
<1> QED
  BY <1>7, <1>8

\* When no queue changes, every queue has only cleared.
LEMMA SameQueuesClear ==
  ASSUME BookStructure, queue' = queue
  PROVE  QueuesOnlyClear(queue, queue') /\ NobodyTurnsUp(queue, queue')
<1>1. ASSUME NEW l \in Location PROVE OnlyClears(queue[l.side][l.px], queue[l.side][l.px])
  <2> DEFINE q == queue[l.side][l.px]
  <2>1. q \in Seq(Resting) /\ NoRepeats(q) /\ Len(q) \in Nat
    BY QueuesApart, LenProperties DEF Apart
  <2> HIDE DEF q
  <2>2. OnlyClears(q, q)
    BY <2>1, JoiningClears
  <2> QED
    BY <2>2 DEF q
<1> QED
  BY <1>1 DEF QueuesOnlyClear, NobodyTurnsUp

\* A fill only clears the queue it takes from.
LEMMA FillFrontClears ==
  ASSUME BookStructure, FillFront
  PROVE  QueuesOnlyClear(queue, queue') /\ NobodyTurnsUp(queue, queue')
<1> DEFINE here == [side |-> Opp, px |-> level]
           q    == queue[Opp][level]
           qty  == IF taker.left < Head(q).left THEN taker.left ELSE Head(q).left
           r    == AfterFill(q, qty)
<1>1. /\ taker.left \in 1..MaxQty /\ Opp \in Side /\ level \in Prices /\ q # <<>>
  BY MaxQtyAssumption
     DEF BookStructure, BookTypeOK, FillFront, Idle, Opp, Opposite, Side, Taker
<1>2. here \in Location /\ here.side = Opp /\ here.px = level
  BY <1>1 DEF Location
<1>3. q \in Seq(Resting) /\ NoRepeats(q)
  BY <1>2, QueuesApart DEF Apart
<1>4. Head(q) \in Resting
  BY <1>1, <1>3, HeadTailProperties
<1>5. Head(q).left \in 1..MaxQty
  BY <1>4 DEF Resting
<1>6. qty \in 1..Head(q).left /\ (qty # Head(q).left => Head(q).left - qty \in 1..MaxQty)
  BY <1>1, <1>5, MaxQtyAssumption
<1>7. queue' = [queue EXCEPT ![here.side][here.px] = r]
  BY <1>2 DEF FillFront
<1> HIDE DEF qty
<1>8. OnlyClears(q, r)
  BY <1>1, <1>3, <1>6, FillingClears
<1>9. r \in Seq(Resting) /\ Ids(r) \subseteq Ids(q)
  <2>1. CASE qty = Head(q).left
    BY <2>1, <1>1, <1>3, IdsOfTail DEF AfterFill
  <2>2. CASE qty # Head(q).left
    BY <2>2, <1>1, <1>3, <1>6, IdsOfPartialFill DEF AfterFill
  <2> QED
    BY <2>1, <2>2
<1> HIDE DEF r
<1>10. /\ OnlyClears(queue[here.side][here.px], r)
       /\ \A id \in OrderIds : id \in Ids(r) => id \in Ids(queue[here.side][here.px])
  BY <1>2, <1>8, <1>9
<1> HIDE DEF here
<1> QED
  BY <1>2, <1>7, <1>9, <1>10, OneQueueClears

\* An order that rests joins behind everybody in its queue.
LEMMA RestRemainderClears ==
  ASSUME BookStructure, RestRemainder
  PROVE  QueuesOnlyClear(queue, queue') /\ NobodyTurnsUp(queue, queue')
<1> DEFINE here == [side |-> taker.side, px |-> taker.limit]
           q    == queue[taker.side][taker.limit]
           r    == Append(q, Rested)
<1>1. /\ phase = "cross" /\ taker.id \in OrderIds /\ taker.side \in Side /\ taker.limit \in Prices
      /\ taker.left \in 1..MaxQty /\ locate[taker.id] = {}
  BY MaxQtyAssumption
     DEF BookStructure, BookTypeOK, LevelInProgress, IsResting, RestRemainder, Idle, Taker
<1>2. here \in Location /\ here.side = taker.side /\ here.px = taker.limit
  BY <1>1 DEF Location
<1>3. q \in Seq(Resting) /\ NoRepeats(q)
  BY <1>2, QueuesApart DEF Apart
<1>4. Rested \in Resting /\ Rested.id = taker.id
  BY <1>1 DEF Rested, Resting
<1>5. queue' = [queue EXCEPT ![here.side][here.px] = r]
  BY <1>2 DEF RestRemainder
<1>6. r \in Seq(Resting) /\ Ids(r) = Ids(q) \cup {taker.id}
  BY <1>3, <1>4, IdsOfAppend
<1>7. /\ Len(q) \in Nat /\ DOMAIN q = 1..Len(q) /\ Len(r) = Len(q) + 1 /\ DOMAIN r = 1..Len(r)
      /\ \A j \in 1..Len(q) : r[j] = q[j]
      /\ r[Len(q) + 1] = Rested
  <2> HIDE DEF q
  <2>1. Len(q) \in Nat /\ DOMAIN q = 1..Len(q)
    BY <1>3, LenProperties
  <2>2. Len(r) = Len(q) + 1 /\ (\A j \in 1..Len(q) : r[j] = q[j]) /\ r[Len(q) + 1] = Rested
    BY <1>3, <1>4, AppendProperties
  <2> HIDE DEF r
  <2>3. DOMAIN r = 1..Len(r)
    BY <1>6, LenProperties
  <2> QED
    BY <2>1, <2>2, <2>3
<1>8. taker.id \notin Ids(q)
  <2>1. here \notin locate[taker.id]
    BY <1>1
  <2>2. QueueAt(here) = q
    BY <1>2 DEF QueueAt
  <2> HIDE DEF here, q
  <2>3. taker.id \in Ids(QueueAt(here)) => here \in locate[taker.id]
    BY <1>1, <1>2 DEF BookStructure, LocateExact, IdsAt
  <2> QED
    BY <2>1, <2>2, <2>3
<1> HIDE DEF r
<1>9. \A j \in DOMAIN r \ DOMAIN q : r[j].id \notin Ids(q)
  <2>1. \A j \in DOMAIN r \ DOMAIN q : j = Len(q) + 1
    BY <1>7
  <2> QED
    BY <2>1, <1>4, <1>7, <1>8
<1> HIDE DEF q
<1>10. OnlyClears(q, r)
  BY <1>3, <1>6, <1>7, <1>9, JoiningClears
<1>11. \A id \in OrderIds : IsResting(id) /\ id \in Ids(r) => id \in Ids(q)
  BY <1>1, <1>6 DEF IsResting
<1>12. q = queue[here.side][here.px]
  BY DEF q
<1> HIDE DEF here
<1> QED
  BY <1>2, <1>5, <1>6, <1>10, <1>11, <1>12, OneQueueClears

\* A cancel only clears the queue it takes its order from.
LEMMA CancelClears ==
  ASSUME BookStructure, NEW id \in OrderIds, CancelResting(id)
  PROVE  QueuesOnlyClear(queue, queue') /\ NobodyTurnsUp(queue, queue')
<1>1. PICK at \in locate[id] : \E i \in Positions(queue[at.side][at.px], id) :
        queue' = [queue EXCEPT ![at.side][at.px] = RemoveAt(queue[at.side][at.px], i)]
  BY DEF CancelResting
<1> DEFINE q == queue[at.side][at.px]
<1>2. PICK i \in DOMAIN q : queue' = [queue EXCEPT ![at.side][at.px] = RemoveAt(q, i)]
  BY <1>1 DEF Positions
<1>3. at \in Location
  BY DEF BookStructure, BookTypeOK
<1>4. q \in Seq(Resting) /\ NoRepeats(q)
  BY <1>3, QueuesApart DEF Apart
<1> DEFINE r == RemoveAt(q, i)
<1>5. /\ r \in Seq(Resting) /\ Len(r) = Len(q) - 1
      /\ \A j \in 1..(Len(q) - 1) : r[j] = IF j < i THEN q[j] ELSE q[j + 1]
  BY <1>4, RemoveAtProperties
<1>6. Ids(r) = Ids(q) \ {q[i].id}
  BY <1>4, IdsOfRemoveAt
<1>7. queue' = [queue EXCEPT ![at.side][at.px] = r]
  BY <1>2
<1> HIDE DEF r
<1>8. i \in DOMAIN q /\ q = queue[at.side][at.px]
  BY <1>2
<1> HIDE DEF q
<1>9. OnlyClears(q, r)
  BY <1>4, <1>5, <1>8, TakingOutClears
<1> QED
  BY <1>3, <1>5, <1>6, <1>7, <1>8, <1>9, OneQueueClears

\* Every step of the book only clears its queues.
LEMMA StepClears ==
  ASSUME BookStructure, BookNext
  PROVE  QueuesOnlyClear(queue, queue') /\ NobodyTurnsUp(queue, queue')
<1>1. ASSUME NEW id \in OrderIds, CancelResting(id)
      PROVE  QueuesOnlyClear(queue, queue') /\ NobodyTurnsUp(queue, queue')
  BY <1>1, CancelClears
<1>2. CASE FillFront
  BY <1>2, FillFrontClears
<1>3. CASE RestRemainder
  BY <1>3, RestRemainderClears
<1>4. CASE queue' = queue
  BY <1>4, SameQueuesClear
<1>5. \/ FillFront \/ RestRemainder \/ queue' = queue
      \/ \E id \in OrderIds : CancelResting(id)
  BY DEF BookNext, Call, Submit, Cancel, CancelUnknown, SubmitStep, MatchStep, ReturnStep,
     EnterLevel, LeaveLevel, ReturnFilled, RejectRemainder, book
<1> QED
  BY <1>1, <1>2, <1>3, <1>4, <1>5

\* The position an order is told is what its queue holds ahead of it.
LEMMA RestToldAhead ==
  ASSUME BookStructure, RestRemainder, Apart(queue')
  PROVE  outcome'.ahead = SizeOf(AheadIn(queue', taker.id))
<1> DEFINE here == [side |-> taker.side, px |-> taker.limit]
           q    == queue[taker.side][taker.limit]
           r    == Append(q, Rested)
<1>1. /\ taker.id \in OrderIds /\ taker.side \in Side /\ taker.limit \in Prices
      /\ taker.left \in 1..MaxQty
  BY MaxQtyAssumption DEF BookStructure, BookTypeOK, RestRemainder, Idle, Taker
<1>2. here \in Location /\ here.side = taker.side /\ here.px = taker.limit
  BY <1>1 DEF Location
<1>3. q \in Seq(Resting) /\ total[taker.side][taker.limit] = SizeOf(q)
  <2>1. total[here.side][here.px] = SizeOf(QueueAt(here))
    BY <1>2 DEF BookStructure, CachedSizeExact
  <2> QED
    BY <2>1, <1>1 DEF BookStructure, BookTypeOK, QueueAt
<1>4. Rested \in Resting /\ Rested.id = taker.id
  BY <1>1 DEF Rested, Resting
<1>5. queue'[taker.side][taker.limit] = r
  BY <1>1 DEF RestRemainder, BookStructure, BookTypeOK
<1> HIDE DEF q
<1>6. /\ Len(q) \in Nat /\ r \in Seq(Resting) /\ Len(r) = Len(q) + 1
      /\ DOMAIN r = 1..(Len(q) + 1) /\ r[Len(q) + 1] = Rested
      /\ \A j \in 1..Len(q) : r[j] = q[j]
  <2>1. r \in Seq(Resting) /\ Len(r) = Len(q) + 1 /\ r[Len(q) + 1] = Rested
        /\ \A j \in 1..Len(q) : r[j] = q[j]
    BY <1>3, <1>4, AppendProperties
  <2>2. Len(q) \in Nat /\ DOMAIN r = 1..Len(r)
    BY <1>3, <2>1, LenProperties
  <2> QED
    BY <2>1, <2>2
<1> HIDE DEF r
<1> DEFINE a == InFront(r, Len(q) + 1)
<1>7. Len(q) + 1 \in DOMAIN r /\ r[Len(q) + 1].id = taker.id
  BY <1>4, <1>6
<1>8. AheadIn(queue', taker.id) = a
  BY <1>2, <1>5, <1>7, AheadFound
<1>9. a \in Seq(Resting) /\ Len(a) = Len(q) /\ \A j \in 1..Len(q) : a[j] = r[j]
  <2>1. /\ a \in Seq(Resting) /\ Len(a) = (Len(q) + 1) - 1
        /\ \A j \in 1..((Len(q) + 1) - 1) : a[j] = r[j]
    BY <1>6, <1>7, InFrontProperties
  <2> QED
    BY <2>1, <1>6
<1> HIDE DEF a
<1>10. a = q
  BY <1>3, <1>6, <1>9, SeqEqual
<1>11. outcome'.ahead = total[taker.side][taker.limit]
  BY DEF RestRemainder, Returned
<1> QED
  BY <1>3, <1>8, <1>10, <1>11

\* A resting order's place in its queue only improves: submit returns the
\* quantity ahead of it, nobody gets in front of it while it rests, and what is
\* in front never grows (order_book.rs:13-14).
THEOREM PositionsOnlyClear == BookSpec => QueuePosition
<1> DEFINE Step == \A id \in OrderIds : PositionTold(id) /\ PositionClears(id)
<1>1. ASSUME BookStructure, Apart(queue)', [BookNext]_bookVars
      PROVE  [Step]_bookVars
  <2> SUFFICES ASSUME BookNext, NEW id \in OrderIds
               PROVE  PositionTold(id) /\ PositionClears(id)
    BY <1>1
  <2>1. Apart(queue) /\ Apart(queue')
    BY <1>1, QueuesApart
  <2>2. PositionTold(id)
    <3> SUFFICES ASSUME ~Idle, taker.id = id, outcome'.kind = "rested"
                 PROVE  outcome'.ahead = SizeOf(Ahead(id))'
      BY DEF PositionTold
    <3>1. outcome.kind = "none"
      BY <1>1 DEF BookStructure, LevelInProgress
    <3>2. RestRemainder
      BY <3>1 DEF BookNext, Call, Submit, Cancel, CancelResting, CancelUnknown, SubmitStep,
         MatchStep, ReturnStep, EnterLevel, FillFront, LeaveLevel, ReturnFilled,
         RejectRemainder, Returned
    <3>3. outcome'.ahead = SizeOf(AheadIn(queue', id))
      BY <1>1, <2>1, <3>2, RestToldAhead
    <3> QED
      BY <3>3 DEF Ahead
  <2>3. PositionClears(id)
    <3> SUFFICES ASSUME IsResting(id)
                 PROVE  Clears(AheadIn(queue, id), AheadIn(queue', id))
      BY DEF PositionClears, Clears, IdsAhead, Ahead
    <3>1. QueuesOnlyClear(queue, queue') /\ NobodyTurnsUp(queue, queue')
      BY <1>1, StepClears
    <3>2. \A l \in Location :
            /\ OnlyClears(queue[l.side][l.px], queue'[l.side][l.px])
            /\ id \in Ids(queue'[l.side][l.px]) => id \in Ids(queue[l.side][l.px])
      BY <3>1 DEF QueuesOnlyClear, NobodyTurnsUp
    <3> QED
      BY <2>1, <3>2, AheadClears
  <2> QED
    BY <2>2, <2>3
<1>2. BookInvariant => BookStructure /\ Apart(queue)
  BY QueuesApart DEF BookInvariant
<1> QED
  BY <1>1, <1>2, BookInvariantHolds, PTL DEF BookSpec, QueuePosition

----------------------------------------------------------------------------
(* One queue *)

\* Which pairs a queue orders.
LEMMA PairsMembers ==
  ASSUME NEW q, NEW pair
  PROVE  pair \in PairsIn(q) <=>
           \E i, j \in DOMAIN q : i < j /\ pair = <<q[i].id, q[j].id>>
<1> DEFINE D == {xy \in (DOMAIN q) \X (DOMAIN q) : xy[1] < xy[2]}
<1>1. ASSUME NEW i \in DOMAIN q, NEW j \in DOMAIN q, i < j
      PROVE  <<q[i].id, q[j].id>> \in PairsIn(q)
  <2>1. <<i, j>> \in D /\ <<i, j>>[1] = i /\ <<i, j>>[2] = j
    BY <1>1
  <2> HIDE DEF D
  <2>2. PairsIn(q) = {<<q[ij[1]].id, q[ij[2]].id>> : ij \in D}
    BY DEF PairsIn, D
  <2> QED
    BY <2>1, <2>2
<1>2. ASSUME pair \in PairsIn(q)
      PROVE  \E i, j \in DOMAIN q : i < j /\ pair = <<q[i].id, q[j].id>>
  <2>1. PICK ij \in D : pair = <<q[ij[1]].id, q[ij[2]].id>>
    BY <1>2 DEF PairsIn
  <2>2. ij[1] \in DOMAIN q /\ ij[2] \in DOMAIN q /\ ij[1] < ij[2]
    OBVIOUS
  <2> QED
    BY <2>1, <2>2
<1> QED
  BY <1>1, <1>2

\* Taking one order out of a queue takes it and its pairs out, and no other.
LEMMA OneOut ==
  ASSUME NEW l, NEW q \in Seq(Resting), NEW i \in DOMAIN q, NoRepeats(q),
         NEW r \in Seq(Resting), Len(r) = Len(q) - 1,
         \A j \in 1..(Len(q) - 1) : r[j] = IF j < i THEN q[j] ELSE q[j + 1]
  PROVE  /\ OrdersIn(l, r) = OrdersIn(l, q) \ {OrderAt(l, q, i)}
         /\ PairsIn(r) = {pair \in PairsIn(q) : pair[1] # q[i].id /\ pair[2] # q[i].id}
<1> DEFINE from(j) == IF j < i THEN j ELSE j + 1
<1>1. Len(q) \in Nat /\ DOMAIN q = 1..Len(q) /\ DOMAIN r = 1..(Len(q) - 1)
  BY LenProperties
<1>2. \A j \in DOMAIN r : from(j) \in DOMAIN q /\ from(j) # i /\ r[j] = q[from(j)]
  BY <1>1
<1>3. \A j, k \in DOMAIN r : j < k => from(j) < from(k)
  BY <1>1
<1>4. \A k \in DOMAIN q : k # i => \E j \in DOMAIN r : from(j) = k
  <2> SUFFICES ASSUME NEW k \in DOMAIN q, k # i
               PROVE  \E j \in DOMAIN r : from(j) = k
    OBVIOUS
  <2>1. CASE k < i
    <3>1. k \in DOMAIN r /\ from(k) = k
      BY <2>1, <1>1
    <3> QED
      BY <3>1
  <2>2. CASE ~(k < i)
    <3>1. k - 1 \in DOMAIN r /\ from(k - 1) = k
      BY <2>2, <1>1
    <3> QED
      BY <3>1
  <2> QED
    BY <2>1, <2>2
<1>5. \A j, k \in DOMAIN r : from(j) < from(k) => j < k
  BY <1>1
<1> HIDE DEF from
<1>6. \A j, k \in DOMAIN q : q[j].id = q[k].id => j = k
  BY DEF NoRepeats
<1>7. OrdersIn(l, r) = OrdersIn(l, q) \ {OrderAt(l, q, i)}
  <2>1. \A j \in DOMAIN r : OrderAt(l, r, j) = OrderAt(l, q, from(j))
    BY <1>2 DEF OrderAt
  <2>2. \A j, k \in DOMAIN q : OrderAt(l, q, j) = OrderAt(l, q, k) => j = k
    BY <1>6 DEF OrderAt
  <2> QED
    BY <2>1, <2>2, <1>2, <1>4 DEF OrdersIn
<1>8. ASSUME NEW pair \in PairsIn(r)
      PROVE  pair \in PairsIn(q) /\ pair[1] # q[i].id /\ pair[2] # q[i].id
  <2>1. PICK j, k \in DOMAIN r : j < k /\ pair = <<r[j].id, r[k].id>>
    BY PairsMembers
  <2>2. /\ from(j) \in DOMAIN q /\ from(k) \in DOMAIN q /\ from(j) < from(k)
        /\ pair = <<q[from(j)].id, q[from(k)].id>>
    BY <2>1, <1>2, <1>3
  <2> QED
    BY <2>2, <1>2, <1>6, PairsMembers
<1>9. ASSUME NEW pair \in PairsIn(q), pair[1] # q[i].id, pair[2] # q[i].id
      PROVE  pair \in PairsIn(r)
  <2>1. PICK m, n \in DOMAIN q : m < n /\ pair = <<q[m].id, q[n].id>>
    BY PairsMembers
  <2>2. m # i /\ n # i
    BY <2>1, <1>9
  <2>3. PICK j \in DOMAIN r : from(j) = m
    BY <2>2, <1>4
  <2>4. PICK k \in DOMAIN r : from(k) = n
    BY <2>2, <1>4
  <2>5. j < k /\ pair = <<r[j].id, r[k].id>>
    BY <2>1, <2>3, <2>4, <1>2, <1>5
  <2> QED
    BY <2>5, PairsMembers
<1> QED
  BY <1>7, <1>8, <1>9

\* Filling the front order in part changes what is left of it, and no pair.
LEMMA OneReduced ==
  ASSUME NEW l, NEW q \in Seq(Resting), q # <<>>, NoRepeats(q), NEW n \in 1..MaxQty
  PROVE  LET r == [q EXCEPT ![1] = [id |-> Head(q).id, left |-> n]]
         IN  /\ OrdersIn(l, r) = (OrdersIn(l, q) \ {OrderAt(l, q, 1)})
                                   \cup {[OrderAt(l, q, 1) EXCEPT !.left = n]}
             /\ PairsIn(r) = PairsIn(q)
<1> DEFINE o == [id |-> Head(q).id, left |-> n]
           r == [q EXCEPT ![1] = o]
<1>1. Len(q) \in Nat \ {0} /\ DOMAIN q = 1..Len(q) /\ Head(q) = q[1]
  BY EmptySeq, LenProperties, HeadTailProperties
<1>2. o.id = q[1].id /\ o.left = n
  BY <1>1
<1> HIDE DEF o
<1>3. DOMAIN r = DOMAIN q /\ \A j \in DOMAIN q : r[j] = IF j = 1 THEN o ELSE q[j]
  BY <1>1
<1> HIDE DEF r
<1>4. \A j, k \in DOMAIN q : q[j].id = q[k].id => j = k
  BY DEF NoRepeats
<1>5. OrdersIn(l, r) = (OrdersIn(l, q) \ {OrderAt(l, q, 1)})
                         \cup {[OrderAt(l, q, 1) EXCEPT !.left = n]}
  <2>1. OrderAt(l, r, 1) = [OrderAt(l, q, 1) EXCEPT !.left = n]
    BY <1>1, <1>2, <1>3 DEF OrderAt
  <2>2. \A j \in DOMAIN q : j # 1 => OrderAt(l, r, j) = OrderAt(l, q, j)
    BY <1>3 DEF OrderAt
  <2>3. \A j, k \in DOMAIN q : OrderAt(l, q, j) = OrderAt(l, q, k) => j = k
    BY <1>4 DEF OrderAt
  <2>4. 1 \in DOMAIN q
    BY <1>1
  <2> QED
    BY <2>1, <2>2, <2>3, <2>4, <1>3 DEF OrdersIn
<1>6. PairsIn(r) = PairsIn(q)
  <2>1. \A j \in DOMAIN q : r[j].id = q[j].id
    BY <1>2, <1>3
  <2>2. \A pair : pair \in PairsIn(r) <=> pair \in PairsIn(q)
    BY <2>1, <1>3, PairsMembers
  <2> QED
    BY <2>2
<1> QED
  BY <1>5, <1>6 DEF r, o

\* An order that joins the back of a queue comes after everyone in it.
LEMMA OneMore ==
  ASSUME NEW l, NEW q \in Seq(Resting), NEW o \in Resting
  PROVE  /\ OrdersIn(l, Append(q, o)) =
              OrdersIn(l, q) \cup {[id |-> o.id, side |-> l.side, px |-> l.px, left |-> o.left]}
         /\ PairsIn(Append(q, o)) = PairsIn(q) \cup {<<x.id, o.id>> : x \in OrdersIn(l, q)}
<1> DEFINE r == Append(q, o)
<1>1. Len(q) \in Nat /\ DOMAIN q = 1..Len(q)
  BY LenProperties
<1>2. /\ r \in Seq(Resting) /\ Len(r) = Len(q) + 1
      /\ \A j \in 1..Len(q) : r[j] = q[j]
      /\ r[Len(q) + 1] = o
  BY AppendProperties
<1> HIDE DEF r
<1>3. DOMAIN r = 1..(Len(q) + 1)
  BY <1>2, LenProperties
<1>4. DOMAIN r = DOMAIN q \cup {Len(q) + 1}
  BY <1>1, <1>3
<1>5. OrdersIn(l, r) =
        OrdersIn(l, q) \cup {[id |-> o.id, side |-> l.side, px |-> l.px, left |-> o.left]}
  <2>1. \A j \in DOMAIN q : OrderAt(l, r, j) = OrderAt(l, q, j)
    BY <1>1, <1>2 DEF OrderAt
  <2>2. OrderAt(l, r, Len(q) + 1) =
          [id |-> o.id, side |-> l.side, px |-> l.px, left |-> o.left]
    BY <1>2 DEF OrderAt
  <2> QED
    BY <2>1, <2>2, <1>4 DEF OrdersIn
<1>6. ASSUME NEW pair
      PROVE  pair \in PairsIn(r) <=>
               pair \in PairsIn(q) \/ \E i \in DOMAIN q : pair = <<q[i].id, o.id>>
  <2>1. \A j, k \in DOMAIN r : j < k =>
          /\ j \in DOMAIN q /\ r[j] = q[j]
          /\ (k \in DOMAIN q /\ r[k] = q[k]) \/ r[k] = o
    BY <1>1, <1>2, <1>3
  <2>2. ASSUME pair \in PairsIn(r)
        PROVE  pair \in PairsIn(q) \/ \E i \in DOMAIN q : pair = <<q[i].id, o.id>>
    <3>1. PICK j, k \in DOMAIN r : j < k /\ pair = <<r[j].id, r[k].id>>
      BY <2>2, PairsMembers
    <3>2. CASE k \in DOMAIN q /\ r[k] = q[k]
      BY <3>1, <3>2, <2>1, PairsMembers
    <3>3. CASE r[k] = o
      BY <3>1, <3>3, <2>1
    <3> QED
      BY <3>1, <3>2, <3>3, <2>1
  <2>3. ASSUME pair \in PairsIn(q) PROVE pair \in PairsIn(r)
    <3>1. PICK j, k \in DOMAIN q : j < k /\ pair = <<q[j].id, q[k].id>>
      BY <2>3, PairsMembers
    <3>2. j \in DOMAIN r /\ k \in DOMAIN r /\ r[j] = q[j] /\ r[k] = q[k]
      BY <1>1, <1>2, <1>4
    <3> QED
      BY <3>1, <3>2, PairsMembers
  <2>4. ASSUME NEW i \in DOMAIN q, pair = <<q[i].id, o.id>> PROVE pair \in PairsIn(r)
    <3>1. i \in DOMAIN r /\ Len(q) + 1 \in DOMAIN r /\ i < Len(q) + 1 /\ r[i] = q[i]
      BY <1>1, <1>2, <1>4
    <3> QED
      BY <3>1, <2>4, <1>2, PairsMembers
  <2> QED
    BY <2>2, <2>3, <2>4
<1>7. PairsIn(r) = PairsIn(q) \cup {<<x.id, o.id>> : x \in OrdersIn(l, q)}
  <2>1. \A pair : pair \in {<<x.id, o.id>> : x \in OrdersIn(l, q)} <=>
                    \E i \in DOMAIN q : pair = <<q[i].id, o.id>>
    <3>1. \A i \in DOMAIN q : OrderAt(l, q, i) \in OrdersIn(l, q) /\ OrderAt(l, q, i).id = q[i].id
      BY DEF OrdersIn, OrderAt
    <3>2. \A x \in OrdersIn(l, q) : \E i \in DOMAIN q : x = OrderAt(l, q, i)
      BY DEF OrdersIn
    <3> QED
      BY <3>1, <3>2
  <2> QED
    BY <2>1, <1>6
<1> QED
  BY <1>5, <1>7 DEF r
----------------------------------------------------------------------------
(* The whole book, one queue apart from the others *)

Elsewhere(l) == Location \ {l}

OrdersElsewhere(l) == UNION {OrdersIn(k, QueueAt(k)) : k \in Elsewhere(l)}

PairsElsewhere(l) == UNION {PairsIn(QueueAt(k)) : k \in Elsewhere(l)}

\* The book's orders and their precedence: those of one queue, and the others.
LEMMA BookSplits ==
  ASSUME NEW l \in Location
  PROVE  /\ AbstractOrders = OrdersIn(l, QueueAt(l)) \cup OrdersElsewhere(l)
         /\ AbstractBefore = PairsIn(QueueAt(l)) \cup PairsElsewhere(l)
BY DEF AbstractOrders, AbstractBefore, OrdersElsewhere, PairsElsewhere, Elsewhere

\* A step that changes the queue at l only.
LEMMA OneQueueChanges ==
  ASSUME NEW l \in Location, NEW r,
         \A k \in Location : QueueAt(k)' = IF k = l THEN r ELSE QueueAt(k)
  PROVE  /\ AbstractOrders' = OrdersIn(l, r) \cup OrdersElsewhere(l)
         /\ AbstractBefore' = PairsIn(r) \cup PairsElsewhere(l)
BY DEF AbstractOrders, AbstractBefore, OrdersElsewhere, PairsElsewhere, Elsewhere

\* Every queue holds resting orders, none twice, and no id is in two of them.
LEMMA QueueApart ==
  ASSUME BookStructure, NEW l \in Location
  PROVE  /\ QueueAt(l) \in Seq(Resting)
         /\ NoRepeats(QueueAt(l))
         /\ \A k \in Location : IdsAt(l) \cap IdsAt(k) # {} => k = l
BY QueuesApart DEF Apart, QueueAt, IdsAt

\* The orders and pairs of the other queues have other ids.
LEMMA ElsewhereApart ==
  ASSUME BookStructure, NEW l \in Location, NEW id \in IdsAt(l)
  PROVE  /\ \A o \in OrdersElsewhere(l) : o.id # id
         /\ \A pair \in PairsElsewhere(l) : pair[1] # id /\ pair[2] # id
<1>1. \A k \in Elsewhere(l) : id \notin IdsAt(k)
  BY QueueApart DEF Elsewhere
<1>2. ASSUME NEW o \in OrdersElsewhere(l) PROVE o.id # id
  <2>1. PICK k \in Elsewhere(l) : o \in OrdersIn(k, QueueAt(k))
    BY DEF OrdersElsewhere
  <2>2. PICK i \in DOMAIN QueueAt(k) : o = OrderAt(k, QueueAt(k), i)
    BY <2>1 DEF OrdersIn
  <2>3. o.id \in IdsAt(k)
    BY <2>2 DEF OrderAt, IdsAt, Ids
  <2> QED
    BY <1>1, <2>3
<1>3. ASSUME NEW pair \in PairsElsewhere(l) PROVE pair[1] # id /\ pair[2] # id
  <2>1. PICK k \in Elsewhere(l) : pair \in PairsIn(QueueAt(k))
    BY DEF PairsElsewhere
  <2>2. PICK i, j \in DOMAIN QueueAt(k) : pair = <<QueueAt(k)[i].id, QueueAt(k)[j].id>>
    BY <2>1, PairsMembers
  <2>3. pair[1] \in IdsAt(k) /\ pair[2] \in IdsAt(k)
    BY <2>2 DEF IdsAt, Ids
  <2> QED
    BY <1>1, <2>3
<1> QED
  BY <1>2, <1>3

\* An order of the abstract book is in one queue, at its side and price.
LEMMA OrderIsSomewhere ==
  ASSUME NEW o \in AbstractOrders
  PROVE  \E l \in Location : \E i \in DOMAIN QueueAt(l) :
           o = OrderAt(l, QueueAt(l), i) /\ o.side = l.side /\ o.px = l.px /\ o.id \in IdsAt(l)
<1>1. PICK l \in Location : o \in OrdersIn(l, QueueAt(l))
  BY DEF AbstractOrders
<1>2. PICK i \in DOMAIN QueueAt(l) : o = OrderAt(l, QueueAt(l), i)
  BY <1>1 DEF OrdersIn
<1>3. o.side = l.side /\ o.px = l.px /\ o.id \in IdsAt(l)
  BY <1>2 DEF OrderAt, IdsAt, Ids
<1> QED
  BY <1>2, <1>3

\* A step that takes the order at one place out of the book does in the
\* abstract book what Trade and Withdraw do.
LEMMA TakenOut ==
  ASSUME BookStructure, NEW l \in Location, NEW i \in DOMAIN QueueAt(l),
         NEW r \in Seq(Resting), Len(r) = Len(QueueAt(l)) - 1,
         \A j \in 1..(Len(QueueAt(l)) - 1) :
           r[j] = IF j < i THEN QueueAt(l)[j] ELSE QueueAt(l)[j + 1],
         \A k \in Location : QueueAt(k)' = IF k = l THEN r ELSE QueueAt(k)
  PROVE  /\ OrderAt(l, QueueAt(l), i) \in AbstractOrders
         /\ AbstractOrders' = AbstractOrders \ {OrderAt(l, QueueAt(l), i)}
         /\ AbstractBefore' = PTP!Without({QueueAt(l)[i].id})
<1> DEFINE q == QueueAt(l)
           m == OrderAt(l, q, i)
<1>1. q \in Seq(Resting) /\ NoRepeats(q)
  BY QueueApart
<1>2. /\ OrdersIn(l, r) = OrdersIn(l, q) \ {m}
      /\ PairsIn(r) = {pair \in PairsIn(q) : pair[1] # q[i].id /\ pair[2] # q[i].id}
  BY <1>1, OneOut
<1>3. m.id = q[i].id /\ q[i].id \in IdsAt(l) /\ m \in OrdersIn(l, q)
  BY DEF OrderAt, IdsAt, Ids, OrdersIn
<1>4. /\ m \notin OrdersElsewhere(l)
      /\ \A pair \in PairsElsewhere(l) : pair[1] # q[i].id /\ pair[2] # q[i].id
  BY <1>3, ElsewhereApart
<1>5. /\ AbstractOrders' = OrdersIn(l, r) \cup OrdersElsewhere(l)
      /\ AbstractBefore' = PairsIn(r) \cup PairsElsewhere(l)
  BY OneQueueChanges
<1>6. /\ AbstractOrders = OrdersIn(l, q) \cup OrdersElsewhere(l)
      /\ AbstractBefore = PairsIn(q) \cup PairsElsewhere(l)
  BY BookSplits
<1> HIDE DEF m, q
<1>7. AbstractOrders' = AbstractOrders \ {m} /\ m \in AbstractOrders
  BY <1>2, <1>3, <1>4, <1>5, <1>6
<1>8. AbstractBefore' = PTP!Without({q[i].id})
  BY <1>2, <1>4, <1>5, <1>6 DEF PTP!Without
<1> QED
  BY <1>7, <1>8 DEF m, q

\* A step that leaves every queue alone leaves the abstract book alone.
LEMMA SameQueues ==
  ASSUME queue' = queue
  PROVE  AbstractOrders' = AbstractOrders /\ AbstractBefore' = AbstractBefore
BY DEF AbstractOrders, AbstractBefore, QueueAt, OrdersIn, OrderAt, PairsIn
----------------------------------------------------------------------------
(* Each step of the book, and the step of the abstract book it is *)

\* An empty book is an empty abstract book.
LEMMA InitImplements == BookInit => PTP!Init
<1> SUFFICES ASSUME BookInit PROVE PTP!Init
  OBVIOUS
<1>1. \A l \in Location : QueueAt(l) = <<>>
  BY DEF BookInit, QueueAt, Location
<1>2. AbstractOrders = {} /\ AbstractBefore = {}
  BY <1>1 DEF AbstractOrders, AbstractBefore, OrdersIn, PairsIn
<1>3. AbstractIncoming = None /\ AbstractPrint = None
  BY DEF BookInit, AbstractIncoming, AbstractPrint, Idle
<1> QED
  BY <1>2, <1>3 DEF PTP!Init

\* Whatever the caller's vector held, the order becomes the incoming one.
LEMMA SubmitBrings ==
  ASSUME BookStructure,
         NEW id \in OrderIds, NEW side \in Side, NEW limit \in Prices \cup {None},
         NEW qty \in 0..MaxQty, NEW sink, Submit(id, side, limit, qty, sink)
  PROVE  /\ AbstractOrders' = AbstractOrders /\ AbstractBefore' = AbstractBefore
         /\ AbstractIncoming = None
         /\ AbstractIncoming' = [id |-> id, side |-> side, limit |-> limit, left |-> qty]
         /\ \A o \in AbstractOrders : o.id # id
<1>1. AbstractOrders' = AbstractOrders /\ AbstractBefore' = AbstractBefore
  BY SameQueues DEF Submit, book
<1>2. AbstractIncoming = None
  BY DEF Submit, AbstractIncoming
<1>3. AbstractIncoming' = [id |-> id, side |-> side, limit |-> limit, left |-> qty]
  BY DEF Submit, AbstractIncoming, Idle
<1>4. \A o \in AbstractOrders : o.id # id
  <2> SUFFICES ASSUME NEW o \in AbstractOrders, o.id = id PROVE FALSE
    OBVIOUS
  <2>1. PICK l \in Location : id \in IdsAt(l)
    BY OrderIsSomewhere
  <2>2. l \in locate[id]
    BY <2>1 DEF BookStructure, LocateExact
  <2> QED
    BY <2>2 DEF Submit, IsResting
<1> QED
  BY <1>1, <1>2, <1>3, <1>4

\* A submit is the arrival of an order.
LEMMA SubmitArrives ==
  ASSUME BookStructure,
         NEW id \in OrderIds, NEW side \in Side, NEW limit \in Prices \cup {None},
         NEW qty \in 0..MaxQty, Submit(id, side, limit, qty, <<>>)
  PROVE  PTP!Arrive
<1>1. AbstractPrint' = None
  BY DEF Submit, AbstractPrint
<1>2. PTP!Sides = Side
  BY DEF PTP!Sides, Side
<1> QED
  BY <1>1, <1>2, SubmitBrings DEF PTP!Arrive

\* What the abstract book sees of a running submit.
LEMMA Matching ==
  ASSUME BookStructure, ~Idle
  PROVE  /\ taker \in Taker
         /\ AbstractIncoming = [id |-> taker.id, side |-> taker.side,
                                limit |-> taker.limit, left |-> taker.left]
         /\ AbstractIncoming # None
         /\ AbstractIncoming.id = taker.id /\ AbstractIncoming.side = taker.side
         /\ AbstractIncoming.limit = taker.limit /\ AbstractIncoming.left = taker.left
         /\ Opp \in Side
         /\ \A s \in Side : s # taker.side <=> s = Opp
<1>1. taker \in Taker
  BY DEF BookStructure, BookTypeOK
<1>2. taker.side \in Side /\ Opp \in Side /\ \A s \in Side : s # taker.side <=> s = Opp
  BY <1>1 DEF Taker, Opp, Opposite, Side
<1>3. AbstractIncoming = [id |-> taker.id, side |-> taker.side,
                          limit |-> taker.limit, left |-> taker.left]
  BY DEF AbstractIncoming
<1>4. AbstractIncoming \in [id : OrderIds, side : Side, limit : Prices \cup {None}, left : 0..MaxQty]
  BY <1>1, <1>3 DEF Taker
<1> QED
  BY <1>1, <1>2, <1>3, <1>4, NoneIsNoOrder

\* A resting order trades with the taker when it is on the other side at a
\* price the taker accepts.
LEMMA MatchesAcceptable ==
  ASSUME BookStructure, ~Idle, NEW o, o.side \in Side
  PROVE  PTP!Matches(o) <=> o.side = Opp /\ Acceptable(o.px)
BY Matching DEF PTP!Matches, Acceptable, Opp, Opposite, Side, Taker

\* With nothing to hit, the taker matches nobody.
LEMMA NobodyMatches ==
  ASSUME BookStructure, phase = "cross", NothingToHit
  PROVE  \A o \in AbstractOrders : ~PTP!Matches(o)
<1> SUFFICES ASSUME NEW o \in AbstractOrders, PTP!Matches(o) PROVE FALSE
  OBVIOUS
<1>1. PICK l \in Location : o.side = l.side /\ o.px = l.px /\ o.id \in IdsAt(l)
  BY OrderIsSomewhere
<1>2. ~Idle /\ l.side \in Side /\ l.px \in Prices
  BY DEF Idle, Location
<1>3. l.side = Opp /\ Acceptable(l.px)
  BY <1>1, <1>2, MatchesAcceptable
<1>4. QueueAt(l) # <<>>
  BY <1>1 DEF IdsAt, Ids
<1>5. l.px \in keys[Opp]
  BY <1>3, <1>4 DEF BookStructure, NoEmptyLevels, Consuming
<1>6. CASE taker.limit = None
  <2>1. keys[Opp] \in SUBSET Prices
    BY <1>2, <1>3 DEF BookStructure, BookTypeOK
  <2>2. PICK b \in keys[Opp] : \A p \in keys[Opp] : ~Better(Opp, p, b)
    BY <1>5, <2>1, BestExists DEF Better
  <2> QED
    BY <1>6, <2>2 DEF NothingToHit, BestOf, Acceptable
<1>7. CASE taker.limit # None
  BY <1>2, <1>3, <1>5, <1>7, NothingAcceptable DEF BookStructure
<1> QED
  BY <1>6, <1>7

\* The order at the front of the best level is preceded by nobody.
LEMMA FrontIsFirst ==
  ASSUME BookStructure, phase = "level", QueueAt([side |-> Opp, px |-> level]) # <<>>,
         NEW o \in AbstractOrders
  PROVE  ~PTP!Precedes(o, OrderAt([side |-> Opp, px |-> level],
                                  QueueAt([side |-> Opp, px |-> level]), 1))
<1> DEFINE here == [side |-> Opp, px |-> level]
           q == QueueAt(here)
           m == OrderAt(here, q, 1)
<1>1. ~Idle /\ here \in Location /\ here.side = Opp /\ here.px = level /\ level \in BestOf(Opp)
  BY Matching DEF Idle, Location, BookStructure, BookTypeOK, LevelInProgress
<1>2. q \in Seq(Resting) /\ NoRepeats(q) /\ 1 \in DOMAIN q
  BY <1>1, QueueApart, LenProperties, EmptySeq
<1>3. m.side = Opp /\ m.px = level /\ m.id = q[1].id /\ m.id \in IdsAt(here)
  BY <1>1, <1>2 DEF OrderAt, IdsAt, Ids
<1>4. PICK l \in Location : o.side = l.side /\ o.px = l.px /\ o.id \in IdsAt(l)
  BY OrderIsSomewhere
<1>5. l.side = Opp => l.px \in keys[Opp]
  <2> SUFFICES ASSUME l.side = Opp PROVE l.px \in keys[Opp]
    OBVIOUS
  <2>1. CASE l = here
    BY <2>1, <1>1 DEF BestOf
  <2>2. CASE l # here
    <3>1. ~Consuming(l) /\ QueueAt(l) # <<>>
      BY <2>2, <1>4 DEF Consuming, IdsAt, Ids
    <3> QED
      BY <3>1 DEF BookStructure, NoEmptyLevels
  <2> QED
    BY <2>1, <2>2
<1>6. <<o.id, m.id>> \notin AbstractBefore
  <2> SUFFICES ASSUME <<o.id, m.id>> \in AbstractBefore PROVE FALSE
    OBVIOUS
  <2>1. <<o.id, m.id>> \in PairsIn(q)
    BY <1>1, <1>3, BookSplits, ElsewhereApart
  <2>2. PICK i, j \in DOMAIN q : i < j /\ <<o.id, m.id>> = <<q[i].id, q[j].id>>
    BY <2>1, PairsMembers
  <2>3. j = 1
    BY <2>2, <1>2, <1>3 DEF NoRepeats
  <2>4. i \in 1..Len(q)
    BY <1>2, LenProperties
  <2> QED
    BY <2>2, <2>3, <2>4
<1>7. o.side = Opp => ~Better(Opp, o.px, level)
  BY <1>1, <1>4, <1>5 DEF BestOf
<1> HIDE DEF m
<1>8. ~PTP!Precedes(o, m)
  BY <1>3, <1>6, <1>7, Matching, <1>1 DEF PTP!Precedes, Better, Side
<1> QED
  BY <1>8 DEF m

\* A fill of the maker at the front is a trade with the order nobody precedes.
LEMMA FillTrades ==
  ASSUME BookStructure, FillFront
  PROVE  PTP!Trade
<1> DEFINE here == [side |-> Opp, px |-> level]
           q == QueueAt(here)
           m == OrderAt(here, q, 1)
           maker == Head(q)
           qty == IF taker.left < m.left THEN taker.left ELSE m.left
<1>1. /\ phase = "level" /\ ~Idle /\ taker.left > 0 /\ q # <<>>
      /\ here \in Location /\ here.side = Opp /\ here.px = level
      /\ q = queue[Opp][level] /\ level \in Prices /\ Opp \in Side /\ Acceptable(level)
  BY Matching DEF FillFront, Idle, Location, BookStructure, BookTypeOK, QueueAt, LevelInProgress
<1>2. q \in Seq(Resting) /\ NoRepeats(q) /\ 1 \in DOMAIN q /\ maker = q[1] /\ maker \in Resting
  BY <1>1, QueueApart, LenProperties, EmptySeq, HeadTailProperties
<1>3. /\ m.id = maker.id /\ m.side = Opp /\ m.px = level /\ m.left = maker.left
      /\ maker.left \in 1..MaxQty
      /\ m = [id |-> maker.id, side |-> Opp, px |-> level, left |-> maker.left]
  BY <1>1, <1>2 DEF OrderAt, Resting
<1>4. /\ taker' = [taker EXCEPT !.left = @ - qty]
      /\ fills' = Append(fills, FillOf(maker, qty))
      /\ queue' = [queue EXCEPT ![Opp][level] = AfterFill(q, qty)]
      /\ phase' = phase
  BY <1>1, <1>3 DEF FillFront
<1>5. taker \in Taker /\ taker.left \in 1..MaxQty /\ qty \in 1..MaxQty
      /\ qty <= maker.left /\ qty <= taker.left
  BY <1>1, <1>3, Matching, MaxQtyAssumption DEF Taker
<1>6. m \in AbstractOrders
  BY <1>1, <1>2, BookSplits DEF OrdersIn
<1>7. PTP!Matches(m) /\ \A o \in AbstractOrders : ~PTP!Precedes(o, m)
  BY <1>1, <1>3, FrontIsFirst, MatchesAcceptable
<1> DEFINE r == AfterFill(q, qty)
<1>8. \A k \in Location : QueueAt(k)' = IF k = here THEN r ELSE QueueAt(k)
  <2> HIDE DEF r
  <2> QED
    BY <1>1, <1>4 DEF QueueAt, Location, BookStructure, BookTypeOK, r
<1>9. /\ AbstractIncoming.left = taker.left /\ AbstractIncoming # None
      /\ AbstractIncoming' = [AbstractIncoming EXCEPT !.left = @ - qty]
  <2>1. AbstractIncoming' = [id |-> taker'.id, side |-> taker'.side,
                             limit |-> taker'.limit, left |-> taker'.left]
    BY <1>1, <1>4 DEF AbstractIncoming, Idle
  <2> HIDE DEF qty
  <2>2. /\ taker'.id = taker.id /\ taker'.side = taker.side /\ taker'.limit = taker.limit
        /\ taker'.left = taker.left - qty
    BY <1>4, <1>5 DEF Taker
  <2> QED
    BY <2>1, <2>2, <1>1, Matching
<1>10. AbstractPrint' = [maker |-> m.id, px |-> m.px, qty |-> qty]
  <2> DEFINE f == FillOf(maker, qty)
  <2> HIDE DEF m, maker, qty
  <2>1. f \in Fill /\ f.maker = m.id /\ f.px = m.px /\ f.qty = qty
    <3>1. taker.id \in OrderIds /\ maker.id \in OrderIds /\ taker.left - qty \in 0..MaxQty
      BY <1>2, <1>5, MaxQtyAssumption DEF Taker, Resting
    <3> QED
      BY <3>1, <1>1, <1>3, <1>5 DEF FillOf, Fill
  <2> HIDE DEF f
  <2>2. fills \in Seq(Fill) /\ fills' = Append(fills, f)
    BY <1>4 DEF f, BookStructure, BookTypeOK
  <2>3. fills' # <<>> /\ Len(fills') = Len(fills) + 1 /\ fills'[Len(fills) + 1] = f
    BY <2>1, <2>2, AppendProperties
  <2> QED
    BY <2>1, <2>3 DEF AbstractPrint, Last
<1>11. /\ OrdersIn(here, q) \cup OrdersElsewhere(here) = AbstractOrders
       /\ PairsIn(q) \cup PairsElsewhere(here) = AbstractBefore
  BY <1>1, BookSplits
<1>12. qty = m.left => AbstractOrders' = AbstractOrders \ {m} /\ AbstractBefore' = PTP!Without({m.id})
  <2> SUFFICES ASSUME qty = m.left
               PROVE  AbstractOrders' = AbstractOrders \ {m} /\ AbstractBefore' = PTP!Without({m.id})
    OBVIOUS
  <2>1. /\ Tail(q) \in Seq(Resting) /\ Len(Tail(q)) = Len(q) - 1
        /\ \A j \in 1..Len(Tail(q)) : Tail(q)[j] = q[j + 1]
    BY <1>1, <1>2, HeadTailProperties
  <2>2. r = Tail(q)
    BY <1>3 DEF AfterFill
  <2> HIDE DEF r, qty
  <2>3. /\ r \in Seq(Resting) /\ Len(r) = Len(q) - 1
        /\ \A j \in 1..(Len(q) - 1) : r[j] = IF j < 1 THEN q[j] ELSE q[j + 1]
    BY <2>1, <2>2
  <2> HIDE DEF here
  <2>4. AbstractOrders' = AbstractOrders \ {m} /\ AbstractBefore' = PTP!Without({q[1].id})
    BY <2>3, <1>1, <1>2, <1>8, TakenOut
  <2>5. q[1].id = m.id
    BY <1>2, <1>3
  <2> QED
    BY <2>4, <2>5
<1>13. qty # m.left =>
         /\ AbstractOrders' = (AbstractOrders \ {m}) \cup {[m EXCEPT !.left = @ - qty]}
         /\ AbstractBefore' = AbstractBefore
  <2> SUFFICES ASSUME qty # m.left
               PROVE  /\ AbstractOrders' = (AbstractOrders \ {m}) \cup {[m EXCEPT !.left = @ - qty]}
                      /\ AbstractBefore' = AbstractBefore
    OBVIOUS
  <2> DEFINE n == maker.left - qty
  <2>1. n \in 1..MaxQty
    BY <1>3, <1>5, MaxQtyAssumption
  <2>2. r = [q EXCEPT ![1] = [id |-> Head(q).id, left |-> n]]
    BY <1>3 DEF AfterFill
  <2> HIDE DEF n
  <2>3. /\ OrdersIn(here, r) = (OrdersIn(here, q) \ {m}) \cup {[m EXCEPT !.left = n]}
        /\ PairsIn(r) = PairsIn(q)
    BY <2>1, <2>2, <1>1, <1>2, OneReduced
  <2>4. m \notin OrdersElsewhere(here)
    <3>1. m.id \in IdsAt(here)
      BY <1>2, <1>3 DEF IdsAt, Ids
    <3> QED
      BY <3>1, <1>1, ElsewhereApart
  <2> HIDE DEF r
  <2>5. AbstractOrders' = OrdersIn(here, r) \cup OrdersElsewhere(here)
        /\ AbstractBefore' = PairsIn(r) \cup PairsElsewhere(here)
    BY <1>1, <1>8, OneQueueChanges
  <2>6. [m EXCEPT !.left = n] = [m EXCEPT !.left = @ - qty]
    BY <1>3 DEF n
  <2> HIDE DEF m, q, qty
  <2> QED
    BY <2>3, <2>4, <2>5, <2>6, <1>11
<1>14. qty = IF AbstractIncoming.left < m.left THEN AbstractIncoming.left ELSE m.left
  BY <1>9
<1> HIDE DEF m, q, qty
<1>15. AbstractIncoming.left > 0 /\ m \in AbstractOrders
  BY <1>1, <1>6, <1>9
<1>16. IF qty = m.left
       THEN AbstractOrders' = AbstractOrders \ {m} /\ AbstractBefore' = PTP!Without({m.id})
       ELSE /\ AbstractOrders' = (AbstractOrders \ {m}) \cup {[m EXCEPT !.left = @ - qty]}
            /\ UNCHANGED AbstractBefore
  BY <1>12, <1>13
<1> QED
  BY <1>7, <1>9, <1>10, <1>14, <1>15, <1>16 DEF PTP!Trade

\* A return that leaves the book alone is a leave.
LEMMA ReturnLeaves ==
  ASSUME BookStructure, ReturnFilled \/ RejectRemainder
  PROVE  PTP!Leave
<1>1. /\ phase = "cross" /\ ~Idle /\ Idle' /\ queue' = queue /\ fills' = fills
  BY DEF ReturnFilled, RejectRemainder, Return, book, Idle
<1>2. AbstractOrders' = AbstractOrders /\ AbstractBefore' = AbstractBefore
  BY <1>1, SameQueues
<1>3. AbstractIncoming' = None /\ AbstractPrint' = AbstractPrint
  BY <1>1 DEF AbstractIncoming, AbstractPrint
<1>4. \/ AbstractIncoming.left = 0
      \/ AbstractIncoming.limit = None /\ \A o \in AbstractOrders : ~PTP!Matches(o)
  BY <1>1, Matching, NobodyMatches DEF ReturnFilled, RejectRemainder
<1> QED
  BY <1>1, <1>2, <1>3, <1>4, Matching DEF PTP!Leave

\* A remainder that is queued rests behind all of its price.
LEMMA RestRests ==
  ASSUME BookStructure, RestRemainder
  PROVE  PTP!Rest
<1> DEFINE s == taker.side
           p == taker.limit
           here == [side |-> s, px |-> p]
           o == [id |-> taker.id, left |-> taker.left]
           q == QueueAt(here)
           new == [id |-> taker.id, side |-> s, px |-> p, left |-> taker.left]
<1>1. /\ phase = "cross" /\ ~Idle /\ taker.left > 0 /\ p # None /\ NothingToHit
      /\ Idle' /\ fills' = fills
      /\ queue' = [queue EXCEPT ![s][p] = Append(@, o)]
  BY DEF RestRemainder, Return, Rested, Idle
<1>2. /\ here \in Location /\ o \in Resting /\ s \in Side /\ p \in Prices
      /\ here.side = s /\ here.px = p /\ q = queue[s][p]
  BY <1>1, Matching, MaxQtyAssumption DEF Location, Taker, Resting, QueueAt
<1>3. q \in Seq(Resting)
  BY <1>2, QueueApart
<1> DEFINE r == Append(q, o)
<1>4. \A k \in Location : QueueAt(k)' = IF k = here THEN r ELSE QueueAt(k)
  <2>1. queue' = [queue EXCEPT ![s][p] = r]
    BY <1>1, <1>2
  <2> HIDE DEF r
  <2> QED
    BY <2>1, <1>2 DEF QueueAt, Location, BookStructure, BookTypeOK
<1>5. /\ OrdersIn(here, r) = OrdersIn(here, q) \cup {new}
      /\ PairsIn(r) = PairsIn(q) \cup {<<x.id, taker.id>> : x \in OrdersIn(here, q)}
  <2>1. o.id = taker.id /\ new = [id |-> o.id, side |-> here.side, px |-> here.px, left |-> o.left]
    OBVIOUS
  <2> HIDE DEF o, here, q, new
  <2>2. o \in Resting /\ q \in Seq(Resting)
    BY <1>2, <1>3
  <2> QED
    BY <2>1, <2>2, OneMore
<1> HIDE DEF r
<1>6. /\ AbstractOrders' = OrdersIn(here, r) \cup OrdersElsewhere(here)
      /\ AbstractBefore' = PairsIn(r) \cup PairsElsewhere(here)
  BY <1>2, <1>4, OneQueueChanges
<1>7. /\ AbstractOrders = OrdersIn(here, q) \cup OrdersElsewhere(here)
      /\ AbstractBefore = PairsIn(q) \cup PairsElsewhere(here)
  BY <1>2, BookSplits
<1>8. OrdersIn(here, q) = {x \in AbstractOrders : x.side = s /\ x.px = p}
  <2>1. \A x \in OrdersIn(here, q) : x.side = s /\ x.px = p
    BY <1>2 DEF OrdersIn, OrderAt
  <2>2. ASSUME NEW x \in OrdersElsewhere(here) PROVE ~(x.side = s /\ x.px = p)
    <3>1. PICK k \in Elsewhere(here) : x \in OrdersIn(k, QueueAt(k))
      BY DEF OrdersElsewhere
    <3>2. x.side = k.side /\ x.px = k.px
      <4>1. PICK i \in DOMAIN QueueAt(k) : x = OrderAt(k, QueueAt(k), i)
        BY <3>1 DEF OrdersIn
      <4> QED
        BY <4>1 DEF OrderAt
    <3>3. k \in Location /\ k # here
      BY DEF Elsewhere
    <3> QED
      BY <3>2, <3>3 DEF Location
  <2> QED
    BY <2>1, <2>2, <1>7
<1>9. \A x \in AbstractOrders : ~PTP!Matches(x)
  BY <1>1, NobodyMatches
<1>10. AbstractIncoming' = None /\ AbstractPrint' = AbstractPrint
  BY <1>1 DEF AbstractIncoming, AbstractPrint
<1>11. /\ AbstractIncoming # None /\ AbstractIncoming.left > 0 /\ AbstractIncoming.limit # None
       /\ AbstractIncoming.id = taker.id /\ AbstractIncoming.side = s
       /\ AbstractIncoming.limit = p /\ AbstractIncoming.left = taker.left
  BY <1>1, Matching
<1> HIDE DEF here, q
<1>12. AbstractOrders' = AbstractOrders \cup {new}
  BY <1>5, <1>6, <1>7
<1>13. AbstractBefore' = AbstractBefore \cup
         {<<x.id, taker.id>> : x \in {y \in AbstractOrders : y.side = s /\ y.px = p}}
  BY <1>5, <1>6, <1>7, <1>8
<1> QED
  BY <1>9, <1>10, <1>11, <1>12, <1>13 DEF PTP!Rest

\* A cancel takes the order, and only it, out of the book.
LEMMA CancelTakesOut ==
  ASSUME BookStructure, NEW id \in OrderIds, CancelResting(id)
  PROVE  \E o \in AbstractOrders :
           o.id = id /\ AbstractOrders' = AbstractOrders \ {o} /\ AbstractBefore' = PTP!Without({id})
<1>1. PICK at \in locate[id] : \E i \in Positions(queue[at.side][at.px], id) :
        queue' = [queue EXCEPT ![at.side][at.px] = RemoveAt(queue[at.side][at.px], i)]
  BY DEF CancelResting
<1>2. PICK i \in Positions(queue[at.side][at.px], id) :
        queue' = [queue EXCEPT ![at.side][at.px] = RemoveAt(queue[at.side][at.px], i)]
  BY <1>1
<1> DEFINE q == QueueAt(at)
           r == RemoveAt(q, i)
           m == OrderAt(at, q, i)
<1>3. at \in Location /\ at.side \in Side /\ at.px \in Prices
  BY DEF BookStructure, BookTypeOK, Location
<1>4. i \in DOMAIN q /\ q[i].id = id
  BY DEF Positions, QueueAt
<1>5. q \in Seq(Resting)
  BY <1>3, QueueApart
<1>6. /\ r \in Seq(Resting) /\ Len(r) = Len(q) - 1
      /\ \A j \in 1..(Len(q) - 1) : r[j] = IF j < i THEN q[j] ELSE q[j + 1]
  BY <1>4, <1>5, RemoveAtProperties
<1>7. \A k \in Location : QueueAt(k)' = IF k = at THEN r ELSE QueueAt(k)
  <2>1. queue' = [queue EXCEPT ![at.side][at.px] = r]
    BY <1>2 DEF QueueAt
  <2>2. \A k \in Location :
          k.side \in Side /\ k.px \in Prices /\ (k = at <=> k.side = at.side /\ k.px = at.px)
    BY <1>3 DEF Location
  <2>3. queue \in [Side -> [Prices -> Seq(Resting)]]
    BY DEF BookStructure, BookTypeOK
  <2> HIDE DEF r
  <2> QED
    BY <2>1, <2>2, <2>3, <1>3 DEF QueueAt
<1>8. m.id = id
  BY <1>4 DEF OrderAt
<1> HIDE DEF r
<1>9. m \in AbstractOrders /\ AbstractOrders' = AbstractOrders \ {m}
      /\ AbstractBefore' = PTP!Without({q[i].id})
  BY <1>3, <1>4, <1>6, <1>7, TakenOut
<1> HIDE DEF m, q
<1> QED
  BY <1>4, <1>8, <1>9

\* Taking an order out of its queue withdraws it.
LEMMA CancelWithdraws ==
  ASSUME BookStructure, NEW id \in OrderIds, CancelResting(id), UNCHANGED fills
  PROVE  PTP!Withdraw
<1>1. AbstractIncoming = None /\ AbstractIncoming' = None /\ AbstractPrint' = AbstractPrint
  BY DEF CancelResting, Idle, call, AbstractIncoming, AbstractPrint
<1> QED
  BY <1>1, CancelTakesOut DEF PTP!Withdraw

\* Entering and leaving a level and a refused cancel are the book's own business.
LEMMA RestIsStuttering ==
  ASSUME BookStructure,
         \/ EnterLevel \/ LeaveLevel \/ UNCHANGED bookVars
         \/ UNCHANGED fills /\ \E id \in OrderIds : CancelUnknown(id)
  PROVE  UNCHANGED PTP!vars
<1>1. queue' = queue /\ taker' = taker /\ fills' = fills /\ (Idle' <=> Idle)
  BY DEF EnterLevel, LeaveLevel, CancelUnknown, bookVars, book, call, Idle
<1>2. AbstractOrders' = AbstractOrders /\ AbstractBefore' = AbstractBefore
  BY <1>1, SameQueues
<1>3. AbstractIncoming' = AbstractIncoming /\ AbstractPrint' = AbstractPrint
  BY <1>1 DEF AbstractIncoming, AbstractPrint
<1> QED
  BY <1>2, <1>3 DEF PTP!vars

----------------------------------------------------------------------------
(* The theorem *)

\* Every behaviour of the book is one of the price-time priority book: each
\* fill is a trade at the maker's price with the order nobody precedes, and the
\* remainder of a submit rests, last at its price, or leaves, only when it
\* matches nobody.  (That a matched order is settled at all is liveness.)
THEOREM ImplementsPriority == BookSpec => PTP!Init /\ [][PTP!Next]_PTP!vars
<1>1. BookInvariant /\ [BookNext]_bookVars => [PTP!Next]_PTP!vars
  <2> SUFFICES ASSUME BookInvariant, [BookNext]_bookVars PROVE [PTP!Next]_PTP!vars
    OBVIOUS
  <2> USE DEF PTP!Next, PTP!Settle
  <2>0. BookStructure
    BY DEF BookInvariant
  <2>1. ASSUME NEW id \in OrderIds, NEW side \in Side, NEW limit \in Prices \cup {None},
               NEW qty \in 0..MaxQty, Submit(id, side, limit, qty, <<>>)
        PROVE  PTP!Next
    BY <2>0, <2>1, SubmitArrives
  <2>2. ASSUME NEW id \in OrderIds, Cancel(id), UNCHANGED fills PROVE [PTP!Next]_PTP!vars
    BY <2>0, <2>2, CancelWithdraws, RestIsStuttering DEF Cancel
  <2>3. CASE MatchStep
    BY <2>0, <2>3, FillTrades, RestIsStuttering DEF MatchStep
  <2>4. CASE ReturnStep
    BY <2>0, <2>4, ReturnLeaves, RestRests DEF ReturnStep
  <2>5. CASE UNCHANGED bookVars
    BY <2>0, <2>5, RestIsStuttering
  <2> QED
    BY <2>1, <2>2, <2>3, <2>4, <2>5 DEF BookNext, Call, SubmitStep
<1> QED
  BY <1>1, InitImplements, BookInvariantHolds, PTL DEF BookSpec
=============================================================================
