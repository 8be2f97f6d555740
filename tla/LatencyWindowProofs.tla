------------------------- MODULE LatencyWindowProofs -------------------------
(***************************************************************************)
(* Theorems about the latency recorder, for any windows, warm-up, buffer   *)
(* size and number of samples.                                             *)
(***************************************************************************)
EXTENDS LatencyWindow, SequenceTheorems, TLAPS

Batches == [label : Windows, samples : Seq(Nat)]

\* The thread has ended only after every sender was gone and the channel empty.
EndedClean == thread = "ended" => channel = <<>> /\ open = {} /\ owner # "held"

Rising(q) == \A i, j \in DOMAIN q : i < j => q[i] < q[j]

Within(q, n) == In(q) \subseteq (Warmup + 1)..n

Before(p, q) == \A x \in In(p), y \in In(q) : x < y

\* What a batch of w has to be, while b is in w's buffer and p is printed.
InPlace(b) ==
  /\ Rising(b.samples) /\ Within(b.samples, seen[b.label])
  /\ Before(printed[b.label], b.samples)
  /\ Before(b.samples, buf[b.label])

\* A window's samples rise from what is printed through the batch being reported,
\* the channel and the buffer.
OrderInv ==
  /\ \A w \in Windows :
       /\ Rising(printed[w]) /\ Within(printed[w], seen[w])
       /\ Rising(buf[w]) /\ Within(buf[w], seen[w])
       /\ Before(printed[w], buf[w])
  /\ \A i \in DOMAIN channel :
       /\ InPlace(channel[i])
       /\ \A j \in DOMAIN channel :
            i < j /\ channel[i].label = channel[j].label => Before(channel[i].samples, channel[j].samples)
  /\ thread = "report" =>
       /\ InPlace(batch)
       /\ \A i \in DOMAIN channel :
            channel[i].label = batch.label => Before(batch.samples, channel[i].samples)

----------------------------------------------------------------------------
\* The type invariant holds before the first window is handed out.
LEMMA TypeInitially == LatencyInit => TypeOK
<1> SUFFICES ASSUME LatencyInit PROVE TypeOK
  OBVIOUS
<1>1. \A w \in Windows : Len(buf[w]) < Flush
  <2>1. \A w \in Windows : buf[w] = <<>>
    BY DEF LatencyInit
  <2>2. Len(<<>>) = 0 /\ 0 < Flush
    BY LimitsAssumption
  <2> QED BY <2>1, <2>2
<1>2. seen \in [Windows -> Nat] /\ buf \in [Windows -> Seq(Nat)] /\ printed \in [Windows -> Seq(Nat)]
  BY DEF LatencyInit
<1>3. channel \in Seq([label : Windows, samples : Seq(Nat)])
  BY DEF LatencyInit
<1> QED BY <1>1, <1>2, <1>3 DEF LatencyInit, TypeOK

\* A sample leaves a buffer that is not full one shorter than its capacity, or is
\* flushed with it.
LEMMA TypePush ==
  ASSUME TypeOK, NEW w \in Windows, NEW overdue \in BOOLEAN, Push(w, overdue)
  PROVE  TypeOK'
<1>1. seen' = [seen EXCEPT ![w] = @ + 1] /\ seen' \in [Windows -> Nat] /\ seen'[w] \in Nat
  BY DEF Push, TypeOK
<1>2. UNCHANGED <<open, unused, owner, thread, batch, printed>>
  BY DEF Push, threadVars
<1> DEFINE b == Append(buf[w], seen'[w])
<1>3. b \in Seq(Nat) /\ buf[w] \in Seq(Nat)
  BY <1>1 DEF TypeOK
<1>4. /\ buf' \in [Windows -> Seq(Nat)] /\ \A v \in Windows : Len(buf'[v]) < Flush
      /\ channel' \in Seq(Batches)
  <2>1. CASE WarmingUp(seen'[w])
    BY <2>1 DEF Push, TypeOK, Batches
  <2>2. CASE ~WarmingUp(seen'[w]) /\ (Full(b) \/ overdue)
    <3>1. FlushBuffer(w)
      BY <2>2 DEF Push
    <3>2. Batch(w, b) \in Batches
      BY <1>3 DEF Batch, Batches
    <3>3. channel' \in Seq(Batches)
      <4>1. channel \in Seq(Batches)
        BY DEF TypeOK, Batches
      <4>2. Append(channel, Batch(w, b)) \in Seq(Batches)
        BY <4>1, <3>2, AppendProperties
      <4> QED BY <4>1, <4>2, <3>1 DEF FlushBuffer
    <3>4. Len(<<>>) < Flush /\ <<>> \in Seq(Nat)
      BY LimitsAssumption
    <3> QED BY <3>1, <3>3, <3>4 DEF FlushBuffer, TypeOK
  <2>3. CASE ~WarmingUp(seen'[w]) /\ ~(Full(b) \/ overdue)
    <3>1. buf' = [buf EXCEPT ![w] = b] /\ UNCHANGED channel
      BY <2>3 DEF Push
    <3>2. Len(b) < Flush
      BY <2>3, <1>3, LimitsAssumption DEF Full
    <3> QED BY <1>3, <3>1, <3>2 DEF TypeOK, Batches
  <2> QED BY <2>1, <2>2, <2>3
<1> QED BY <1>1, <1>2, <1>4 DEF TypeOK, Batches

\* Every other step keeps the types as well.
LEMMA TypeStep ==
  ASSUME TypeOK, [LatencyNext]_latencyVars
  PROVE  TypeOK'
<1>1. ASSUME NEW w \in Windows, HandOut(w) PROVE TypeOK'
  BY <1>1 DEF HandOut, TypeOK, threadVars
<1>2. ASSUME NEW w \in Windows, DropWindow(w) PROVE TypeOK'
  BY <1>2 DEF DropWindow, TypeOK, threadVars
<1>3. ASSUME Receive PROVE TypeOK'
  <2>1. channel \in Seq(Batches) /\ channel # <<>>
    BY <1>3 DEF Receive, TypeOK, Batches
  <2>2. Head(channel) \in Batches /\ Tail(channel) \in Seq(Batches)
    BY <2>1, HeadTailProperties
  <2>3. Head(channel) # None
    BY <2>2, NoneAssumption DEF Batches
  <2> QED BY <1>3, <2>2, <2>3 DEF Receive, TypeOK, stageVars, Batches
<1>4. ASSUME Report PROVE TypeOK'
  <2>1. batch \in Batches
    BY <1>4 DEF Report, TypeOK, Batches
  <2>2. batch.label \in Windows /\ batch.samples \in Seq(Nat)
    BY <2>1 DEF Batches
  <2>3. printed[batch.label] \o batch.samples \in Seq(Nat)
    BY <2>2 DEF TypeOK
  <2> QED BY <1>4, <2>2, <2>3 DEF Report, TypeOK, stageVars
<1>5. ASSUME ReportFails PROVE TypeOK'
  BY <1>5 DEF ReportFails, TypeOK, stageVars
<1>6. ASSUME Disconnected PROVE TypeOK'
  BY <1>6 DEF Disconnected, TypeOK, stageVars
<1>7. ASSUME Shutdown \/ Joined \/ DropHandle PROVE TypeOK'
  BY <1>7 DEF Shutdown, Joined, DropHandle, TypeOK, stageVars, threadVars
<1>8. ASSUME Exit PROVE TypeOK'
  BY <1>8 DEF Exit, TypeOK
<1>9. CASE UNCHANGED latencyVars
  BY <1>9 DEF TypeOK, latencyVars, stageVars, threadVars
<1> QED BY <1>1, <1>2, <1>3, <1>4, <1>5, <1>6, <1>7, <1>8, <1>9, TypePush DEF LatencyNext, StageStep, ThreadStep

\* latency_window.rs:70-76: every field keeps its type, and a buffer never outgrows
\* the capacity it was allocated with.
THEOREM TypeCorrect == LatencySpec => []TypeOK
BY TypeInitially, TypeStep, PTL DEF LatencySpec
----------------------------------------------------------------------------
(* Nothing is lost. *)

\* Appending a sample, or more samples, adds them to what a sequence holds.
LEMMA InAppend ==
  ASSUME NEW q \in Seq(Nat), NEW n \in Nat
  PROVE  In(Append(q, n)) = In(q) \cup {n}
<1>1. Append(q, n) \in Seq(Nat) /\ DOMAIN Append(q, n) = 1..(Len(q) + 1) /\ Len(q) \in Nat /\ DOMAIN q = 1..Len(q)
  OBVIOUS
<1>2. \A i \in 1..Len(q) : Append(q, n)[i] = q[i]
  OBVIOUS
<1>3. Append(q, n)[Len(q) + 1] = n
  OBVIOUS
<1> HIDE DEF In
<1>4. ASSUME NEW x \in In(Append(q, n)) PROVE x \in In(q) \cup {n}
  <2>1. PICK i \in 1..(Len(q) + 1) : x = Append(q, n)[i]
    BY <1>1 DEF In
  <2>2. CASE i = Len(q) + 1
    BY <2>1, <2>2, <1>3
  <2>3. CASE i # Len(q) + 1
    <3>1. i \in 1..Len(q)
      BY <2>3, <1>1
    <3> QED BY <3>1, <2>1, <1>1, <1>2 DEF In
  <2> QED BY <2>2, <2>3
<1>5. ASSUME NEW x \in In(q) PROVE x \in In(Append(q, n))
  <2>1. PICK i \in 1..Len(q) : x = q[i]
    BY <1>1 DEF In
  <2>2. i \in 1..(Len(q) + 1)
    BY <1>1
  <2> QED BY <2>1, <2>2, <1>1, <1>2 DEF In
<1>6. n \in In(Append(q, n))
  <2>1. Len(q) + 1 \in 1..(Len(q) + 1)
    BY <1>1
  <2> QED BY <2>1, <1>1, <1>3 DEF In
<1> QED BY <1>4, <1>5, <1>6

\* What is in one sequence after another is in one of them.
LEMMA InConcat ==
  ASSUME NEW p \in Seq(Nat), NEW q \in Seq(Nat)
  PROVE  In(p \o q) = In(p) \cup In(q)
<1>1. /\ p \o q \in Seq(Nat) /\ Len(p \o q) = Len(p) + Len(q)
      /\ \A i \in 1..(Len(p) + Len(q)) : (p \o q)[i] = IF i <= Len(p) THEN p[i] ELSE q[i - Len(p)]
  BY ConcatProperties
<1>2. /\ Len(p) \in Nat /\ Len(q) \in Nat /\ DOMAIN p = 1..Len(p) /\ DOMAIN q = 1..Len(q)
      /\ DOMAIN (p \o q) = 1..(Len(p) + Len(q))
  BY <1>1, LenProperties
<1>3. ASSUME NEW i \in 1..(Len(p) + Len(q)) PROVE (p \o q)[i] \in In(p) \cup In(q)
  <2>1. CASE i <= Len(p)
    BY <2>1, <1>1, <1>2 DEF In
  <2>2. CASE i > Len(p)
    <3>1. i - Len(p) \in 1..Len(q) /\ (p \o q)[i] = q[i - Len(p)]
      BY <2>2, <1>1, <1>2
    <3> QED BY <3>1, <1>2 DEF In
  <2> QED BY <2>1, <2>2, <1>2
<1>4. ASSUME NEW i \in 1..Len(p) PROVE p[i] \in In(p \o q)
  <2>1. i \in 1..(Len(p) + Len(q)) /\ (p \o q)[i] = p[i]
    BY <1>1, <1>2
  <2> QED BY <2>1, <1>2 DEF In
<1>5. ASSUME NEW i \in 1..Len(q) PROVE q[i] \in In(p \o q)
  <2>1. Len(p) + i \in 1..(Len(p) + Len(q)) /\ (p \o q)[Len(p) + i] = q[i]
    BY <1>1, <1>2
  <2> QED BY <2>1, <1>2 DEF In
<1> QED BY <1>2, <1>3, <1>4, <1>5 DEF In

\* A batch joins what is sent; the first one leaves it.
LEMMA SentAppend ==
  ASSUME NEW batches \in Seq(Batches), NEW b \in Batches, NEW w
  PROVE  Sent(Append(batches, b), w) = Sent(batches, w) \cup Carried(b, w)
<1>1. /\ DOMAIN Append(batches, b) = 1..(Len(batches) + 1) /\ DOMAIN batches = 1..Len(batches) /\ Len(batches) \in Nat
      /\ \A i \in 1..Len(batches) : Append(batches, b)[i] = batches[i]
      /\ Append(batches, b)[Len(batches) + 1] = b
  OBVIOUS
<1> DEFINE more == Append(batches, b)
<1> HIDE DEF more
<1>2. ASSUME NEW i \in 1..(Len(batches) + 1)
      PROVE  Carried(more[i], w) \subseteq Sent(batches, w) \cup Carried(b, w)
  <2>1. CASE i = Len(batches) + 1
    BY <2>1, <1>1 DEF more
  <2>2. CASE i # Len(batches) + 1
    <3>1. i \in 1..Len(batches)
      BY <2>2, <1>1
    <3>2. more[i] = batches[i]
      BY <3>1, <1>1 DEF more
    <3> QED BY <3>1, <3>2, <1>1 DEF Sent
  <2> QED BY <2>1, <2>2
<1>3. Sent(more, w) \subseteq Sent(batches, w) \cup Carried(b, w)
  BY <1>1, <1>2 DEF Sent, more
<1>4. Sent(batches, w) \subseteq Sent(more, w)
  <2>1. ASSUME NEW i \in 1..Len(batches) PROVE Carried(batches[i], w) \subseteq Sent(more, w)
    <3>1. i \in 1..(Len(batches) + 1) /\ more[i] = batches[i]
      BY <1>1 DEF more
    <3>2. DOMAIN more = 1..(Len(batches) + 1)
      BY <1>1 DEF more
    <3> QED BY <3>1, <3>2 DEF Sent
  <2> QED BY <2>1, <1>1 DEF Sent
<1>5. Carried(b, w) \subseteq Sent(more, w)
  <2>1. Len(batches) + 1 \in DOMAIN more /\ more[Len(batches) + 1] = b
    BY <1>1 DEF more
  <2> QED BY <2>1 DEF Sent
<1> QED BY <1>3, <1>4, <1>5 DEF more

\* The samples on the way are those of the first batch and of the rest.
LEMMA SentTail ==
  ASSUME NEW batches \in Seq(Batches), batches # <<>>, NEW w
  PROVE  Sent(batches, w) = Carried(Head(batches), w) \cup Sent(Tail(batches), w)
<1>1. /\ Len(batches) \in Nat /\ Len(batches) >= 1
      /\ DOMAIN batches = 1..Len(batches) /\ DOMAIN Tail(batches) = 1..(Len(batches) - 1)
      /\ Head(batches) = batches[1]
      /\ \A i \in 1..(Len(batches) - 1) : Tail(batches)[i] = batches[i + 1]
  OBVIOUS
<1> DEFINE rest == Tail(batches)
           first == Head(batches)
<1> HIDE DEF rest, first
<1>2. ASSUME NEW i \in 1..Len(batches)
      PROVE  Carried(batches[i], w) \subseteq Carried(first, w) \cup Sent(rest, w)
  <2>1. CASE i = 1
    BY <2>1, <1>1 DEF first
  <2>2. CASE i # 1
    <3>1. i - 1 \in 1..(Len(batches) - 1) /\ (i - 1) + 1 = i
      BY <2>2, <1>1
    <3>2. i - 1 \in DOMAIN rest /\ rest[i - 1] = batches[i]
      BY <3>1, <1>1 DEF rest
    <3> QED BY <3>2 DEF Sent
  <2> QED BY <2>1, <2>2
<1>3. ASSUME NEW i \in DOMAIN rest PROVE Carried(rest[i], w) \subseteq Sent(batches, w)
  <2>1. i + 1 \in DOMAIN batches /\ rest[i] = batches[i + 1]
    BY <1>1 DEF rest
  <2> QED BY <2>1 DEF Sent
<1>4. Carried(first, w) \subseteq Sent(batches, w)
  <2>1. 1 \in DOMAIN batches /\ batches[1] = first
    BY <1>1 DEF first
  <2> QED BY <2>1 DEF Sent
<1>5. Sent(batches, w) \subseteq Carried(first, w) \cup Sent(rest, w)
  BY <1>1, <1>2 DEF Sent
<1>6. Sent(rest, w) \subseteq Sent(batches, w)
  BY <1>3 DEF Sent
<1> QED BY <1>4, <1>5, <1>6 DEF rest, first

\* The thread ends after its senders, and nobody can send or be handed a window then.
LEMMA EndedStep ==
  ASSUME EndedClean, [LatencyNext]_latencyVars
  PROVE  EndedClean'
<1>1. ASSUME NEW w \in Windows, HandOut(w) PROVE EndedClean'
  BY <1>1 DEF HandOut, EndedClean, threadVars
<1>2. ASSUME NEW w \in Windows, DropWindow(w) PROVE EndedClean'
  BY <1>2 DEF DropWindow, EndedClean, threadVars
<1>3. ASSUME NEW w \in Windows, NEW overdue \in BOOLEAN, Push(w, overdue) PROVE EndedClean'
  <2>1. thread # "ended" /\ thread' = thread
    BY <1>3 DEF Push, EndedClean, threadVars
  <2> QED BY <2>1 DEF EndedClean
<1>4. ASSUME Receive \/ Report \/ ReportFails PROVE EndedClean'
  BY <1>4 DEF Receive, Report, ReportFails, EndedClean
<1>5. ASSUME Disconnected PROVE EndedClean'
  BY <1>5 DEF Disconnected, SendersGone, EndedClean, stageVars
<1>6. ASSUME Shutdown \/ Joined \/ DropHandle PROVE EndedClean'
  BY <1>6 DEF Shutdown, Joined, DropHandle, EndedClean, stageVars, threadVars
<1>7. ASSUME Exit PROVE EndedClean'
  BY <1>7 DEF Exit, EndedClean
<1>8. CASE UNCHANGED latencyVars
  BY <1>8 DEF EndedClean, latencyVars, stageVars, threadVars
<1> QED BY <1>1, <1>2, <1>3, <1>4, <1>5, <1>6, <1>7, <1>8 DEF LatencyNext, StageStep, ThreadStep

\* A pushed sample is in the buffer or, flushed, in the channel.
LEMMA NothingLostPush ==
  ASSUME TypeOK, NothingLost, NEW w \in Windows, NEW overdue \in BOOLEAN, Push(w, overdue)
  PROVE  NothingLost'
<1> SUFFICES ASSUME thread' \notin {"panicked", "killed"}, NEW v \in Windows
             PROVE  ((Warmup + 1)..seen[v] = In(printed[v]) \cup Underway(v) \cup In(buf[v]))'
  BY DEF NothingLost
<1>1. UNCHANGED <<thread, batch, printed>>
  BY DEF Push, threadVars
<1>2. (Warmup + 1)..seen[v] = In(printed[v]) \cup Underway(v) \cup In(buf[v])
  BY <1>1 DEF NothingLost
<1>3. /\ seen' = [seen EXCEPT ![w] = @ + 1] /\ seen \in [Windows -> Nat]
      /\ buf \in [Windows -> Seq(Nat)] /\ channel \in Seq(Batches)
  BY DEF Push, TypeOK, Batches
<1> DEFINE n == seen[w] + 1
           b == Append(buf[w], n)
<1>4. b \in Seq(Nat) /\ In(b) = In(buf[w]) \cup {n} /\ seen'[w] = n
  <2>1. buf[w] \in Seq(Nat) /\ n \in Nat /\ seen'[w] = n
    BY <1>3
  <2> QED BY <2>1, InAppend
<1>5. v # w => seen'[v] = seen[v]
  BY <1>3
<1>6. ASSUME ~WarmingUp(n) PROVE (Warmup + 1)..n = ((Warmup + 1)..seen[w]) \cup {n}
  <2>1. Warmup \in Nat /\ seen[w] \in Nat /\ Warmup < n
    BY <1>3, <1>6, LimitsAssumption DEF WarmingUp
  <2>2. \A x \in Int : Warmup + 1 <= x /\ x <= n <=> (Warmup + 1 <= x /\ x <= seen[w]) \/ x = n
    BY <2>1
  <2> QED BY <2>1, <2>2
<1>7. CASE WarmingUp(n)
  <2>1. UNCHANGED <<buf, channel>>
    BY <1>4, <1>7 DEF Push
  <2>2. Underway(v)' = Underway(v)
    BY <1>1, <2>1 DEF Underway
  <2>3. v = w => (Warmup + 1)..n = {} /\ (Warmup + 1)..seen[w] = {}
    BY <1>3, <1>7, LimitsAssumption DEF WarmingUp
  <2> QED BY <1>1, <1>2, <1>4, <1>5, <2>1, <2>2, <2>3
<1>8. CASE ~WarmingUp(n) /\ ~(Full(b) \/ overdue)
  <2>1. buf' = [buf EXCEPT ![w] = b] /\ UNCHANGED channel
    BY <1>4, <1>8 DEF Push
  <2>2. Underway(v)' = Underway(v)
    BY <1>1, <2>1 DEF Underway
  <2>3. buf'[w] = b /\ (v # w => buf'[v] = buf[v])
    BY <2>1, <1>3
  <2> HIDE DEF b, n
  <2>4. CASE v = w
    BY <2>4, <1>1, <1>2, <1>4, <1>6, <1>8, <2>2, <2>3
  <2>5. CASE v # w
    BY <2>5, <1>1, <1>2, <1>5, <2>2, <2>3
  <2> QED BY <2>4, <2>5
<1>9. CASE ~WarmingUp(n) /\ (Full(b) \/ overdue)
  <2>1. buf' = [buf EXCEPT ![w] = <<>>] /\ channel' = Append(channel, Batch(w, b))
    BY <1>1, <1>4, <1>9 DEF Push, FlushBuffer
  <2>2. Batch(w, b) \in Batches
    BY <1>4 DEF Batch, Batches
  <2>3. Sent(channel', v) = Sent(channel, v) \cup Carried(Batch(w, b), v)
    BY <1>3, <2>1, <2>2, SentAppend
  <2>4. Carried(Batch(w, b), v) = IF v = w THEN In(b) ELSE {}
    BY DEF Carried, Batch
  <2>5. Underway(v)' = Underway(v) \cup (IF v = w THEN In(b) ELSE {})
    BY <1>1, <2>3, <2>4 DEF Underway
  <2>6. buf'[w] = <<>> /\ (v # w => buf'[v] = buf[v]) /\ In(<<>>) = {}
    BY <2>1, <1>3 DEF In
  <2> HIDE DEF b, n
  <2>7. CASE v = w
    BY <2>7, <1>1, <1>2, <1>4, <1>6, <1>9, <2>5, <2>6
  <2>8. CASE v # w
    BY <2>8, <1>1, <1>2, <1>5, <2>5, <2>6
  <2> QED BY <2>7, <2>8
<1> QED BY <1>7, <1>8, <1>9

\* Every step keeps account of every sample.
LEMMA NothingLostStep ==
  ASSUME TypeOK, NothingLost, [LatencyNext]_latencyVars
  PROVE  NothingLost'
<1>1. ASSUME NEW w \in Windows, HandOut(w) \/ DropWindow(w) PROVE NothingLost'
  <2>1. UNCHANGED <<seen, buf, channel, thread, batch, printed>>
    BY <1>1 DEF HandOut, DropWindow, threadVars
  <2>2. \A v \in Windows : Underway(v)' = Underway(v)
    BY <2>1 DEF Underway
  <2> QED BY <2>1, <2>2 DEF NothingLost
<1>2. ASSUME Receive PROVE NothingLost'
  <2>1. channel \in Seq(Batches) /\ channel # <<>>
    BY <1>2 DEF Receive, TypeOK, Batches
  <2>2. thread = "receive" /\ thread' = "report" /\ batch' = Head(channel) /\ channel' = Tail(channel)
    BY <1>2 DEF Receive
  <2>3. \A w \in Windows : Underway(w)' = Underway(w)
    BY <2>1, <2>2, SentTail DEF Underway
  <2> QED BY <1>2, <2>2, <2>3 DEF Receive, NothingLost, stageVars
<1>3. ASSUME Report PROVE NothingLost'
  <2>1. batch \in Batches /\ thread = "report" /\ thread' = "receive"
    BY <1>3 DEF Report, TypeOK, Batches
  <2>2. /\ batch.label \in Windows /\ batch.samples \in Seq(Nat) /\ printed \in [Windows -> Seq(Nat)]
        /\ printed' = [printed EXCEPT ![batch.label] = @ \o batch.samples]
    BY <1>3, <2>1 DEF Report, TypeOK, Batches
  <2>3. UNCHANGED <<seen, buf, channel>>
    BY <1>3 DEF Report, stageVars
  <2>4. ASSUME NEW w \in Windows
        PROVE  In(printed'[w]) \cup Underway(w)' = In(printed[w]) \cup Underway(w)
    <3>1. Underway(w) = Carried(batch, w) \cup Sent(channel, w) /\ Underway(w)' = Sent(channel, w)
      BY <2>1, <2>3 DEF Underway
    <3>2. CASE w = batch.label
      <4>1. In(printed'[w]) = In(printed[w]) \cup In(batch.samples)
        BY <3>2, <2>2, InConcat
      <4> QED BY <3>1, <3>2, <4>1 DEF Carried
    <3>3. CASE w # batch.label
      BY <3>1, <3>3, <2>2 DEF Carried
    <3> QED BY <3>2, <3>3
  <2> QED BY <2>1, <2>3, <2>4 DEF NothingLost
<1>4. ASSUME ReportFails \/ Exit PROVE NothingLost'
  BY <1>4 DEF ReportFails, Exit, NothingLost
<1>5. ASSUME Disconnected PROVE NothingLost'
  <2>1. UNCHANGED <<seen, buf, channel, batch, printed>> /\ thread = "receive" /\ thread' = "ended"
    BY <1>5 DEF Disconnected, stageVars
  <2>2. \A v \in Windows : Underway(v)' = Underway(v)
    BY <2>1 DEF Underway
  <2> QED BY <2>1, <2>2 DEF NothingLost
<1>6. ASSUME Shutdown \/ Joined \/ DropHandle PROVE NothingLost'
  <2>1. UNCHANGED <<seen, buf, channel, thread, batch, printed>>
    BY <1>6 DEF Shutdown, Joined, DropHandle, stageVars, threadVars
  <2>2. \A v \in Windows : Underway(v)' = Underway(v)
    BY <2>1 DEF Underway
  <2> QED BY <2>1, <2>2 DEF NothingLost
<1>7. CASE UNCHANGED latencyVars
  <2>1. \A v \in Windows : Underway(v)' = Underway(v)
    BY <1>7 DEF Underway, latencyVars, stageVars, threadVars
  <2> QED BY <1>7, <2>1 DEF NothingLost, latencyVars, stageVars, threadVars
<1> QED BY <1>1, <1>2, <1>3, <1>4, <1>5, <1>6, <1>7, NothingLostPush DEF LatencyNext, StageStep, ThreadStep

\* No window has a sample yet, and nothing is on its way.
LEMMA NothingLostInitially == LatencyInit => NothingLost /\ EndedClean
<1> SUFFICES ASSUME LatencyInit PROVE NothingLost /\ EndedClean
  OBVIOUS
<1>1. EndedClean
  BY DEF LatencyInit, EndedClean
<1>2. ASSUME NEW w \in Windows
      PROVE  (Warmup + 1)..seen[w] = In(printed[w]) \cup Underway(w) \cup In(buf[w])
  <2>1. seen[w] = 0 /\ printed[w] = <<>> /\ buf[w] = <<>> /\ channel = <<>> /\ thread = "receive"
    BY DEF LatencyInit
  <2>2. (Warmup + 1)..0 = {}
    BY LimitsAssumption
  <2>3. In(<<>>) = {} /\ Sent(<<>>, w) = {}
    BY DEF In, Sent
  <2> QED BY <2>1, <2>2, <2>3 DEF Underway
<1> QED BY <1>1, <1>2 DEF NothingLost

\* latency_window.rs:84-108 and 135-137: until the thread dies, every sample after
\* the warm-up is printed, on its way, or in its window's buffer.
THEOREM NothingIsLost == LatencySpec => []NothingLost
BY TypeCorrect, NothingLostInitially, NothingLostStep, PTL DEF LatencySpec

----------------------------------------------------------------------------
(* Nothing is printed out of order. *)

\* A sample later than all of a rising sequence can be appended to it.
LEMMA RisingAppend ==
  ASSUME NEW q \in Seq(Nat), NEW n \in Nat, Rising(q), \A x \in In(q) : x < n
  PROVE  Rising(Append(q, n))
<1>1. /\ DOMAIN Append(q, n) = 1..(Len(q) + 1) /\ DOMAIN q = 1..Len(q) /\ Len(q) \in Nat
      /\ \A i \in 1..Len(q) : Append(q, n)[i] = q[i]
      /\ Append(q, n)[Len(q) + 1] = n
  OBVIOUS
<1> DEFINE r == Append(q, n)
<1> HIDE DEF r
<1>2. ASSUME NEW i \in 1..(Len(q) + 1), NEW j \in 1..(Len(q) + 1), i < j PROVE r[i] < r[j]
  <2>1. i \in 1..Len(q) /\ r[i] = q[i]
    BY <1>1, <1>2 DEF r
  <2>2. CASE j = Len(q) + 1
    <3>1. r[j] = n /\ q[i] \in In(q)
      BY <2>1, <2>2, <1>1 DEF r, In
    <3> QED BY <2>1, <3>1
  <2>3. CASE j # Len(q) + 1
    <3>1. j \in 1..Len(q)
      BY <2>3, <1>1
    <3>2. r[j] = q[j]
      BY <3>1, <1>1 DEF r
    <3> QED BY <2>1, <3>1, <3>2, <1>1, <1>2 DEF Rising
  <2> QED BY <2>2, <2>3
<1> QED BY <1>1, <1>2 DEF Rising, r

\* So can a rising sequence that comes after it.
LEMMA RisingConcat ==
  ASSUME NEW p \in Seq(Nat), NEW q \in Seq(Nat), Rising(p), Rising(q), Before(p, q)
  PROVE  Rising(p \o q)
<1>1. /\ Len(p \o q) = Len(p) + Len(q) /\ p \o q \in Seq(Nat)
      /\ \A i \in 1..(Len(p) + Len(q)) : (p \o q)[i] = IF i <= Len(p) THEN p[i] ELSE q[i - Len(p)]
  BY ConcatProperties
<1>2. /\ Len(p) \in Nat /\ Len(q) \in Nat /\ DOMAIN p = 1..Len(p) /\ DOMAIN q = 1..Len(q)
      /\ DOMAIN (p \o q) = 1..(Len(p) + Len(q))
  BY <1>1, LenProperties
<1> DEFINE r == p \o q
<1> HIDE DEF r
<1>3. ASSUME NEW i \in 1..(Len(p) + Len(q)), NEW j \in 1..(Len(p) + Len(q)), i < j
      PROVE  r[i] < r[j]
  <2>1. CASE j <= Len(p)
    <3>1. i \in DOMAIN p /\ j \in DOMAIN p /\ r[i] = p[i] /\ r[j] = p[j]
      BY <1>1, <1>2, <1>3, <2>1 DEF r
    <3> QED BY <3>1, <1>3 DEF Rising
  <2>2. CASE i > Len(p)
    <3>1. i - Len(p) \in DOMAIN q /\ j - Len(p) \in DOMAIN q /\ i - Len(p) < j - Len(p)
      BY <1>2, <1>3, <2>2
    <3>2. r[i] = q[i - Len(p)] /\ r[j] = q[j - Len(p)]
      BY <1>1, <1>2, <1>3, <2>2 DEF r
    <3> QED BY <3>1, <3>2 DEF Rising
  <2>3. CASE i <= Len(p) /\ j > Len(p)
    <3>1. i \in DOMAIN p /\ j - Len(p) \in DOMAIN q
      BY <1>2, <1>3, <2>3
    <3>2. r[i] = p[i] /\ r[j] = q[j - Len(p)]
      BY <1>1, <1>2, <1>3, <2>3 DEF r
    <3> QED BY <3>1, <3>2 DEF Before, In
  <2> QED BY <2>1, <2>2, <2>3, <1>2
<1> QED BY <1>1, <1>2, <1>3 DEF Rising, r

\* No window has a sample yet.
LEMMA OrderInitially == LatencyInit => OrderInv
<1> SUFFICES ASSUME LatencyInit PROVE OrderInv
  OBVIOUS
<1>1. Rising(<<>>) /\ In(<<>>) = {}
  BY DEF Rising, In
<1>2. channel = <<>> /\ thread = "receive" /\ \A w \in Windows : printed[w] = <<>> /\ buf[w] = <<>>
  BY DEF LatencyInit
<1> QED BY <1>1, <1>2 DEF OrderInv, Within, Before

\* What is in place stays there when its window sees one more sample and buffers
\* some of what it had and that one.
LEMMA StaysInPlace ==
  ASSUME TypeOK, NEW b \in Batches, NEW w \in Windows, InPlace(b), UNCHANGED printed,
         seen' = [seen EXCEPT ![w] = @ + 1],
         \A v \in Windows \ {w} : buf'[v] = buf[v],
         In(buf'[w]) \subseteq In(buf[w]) \cup {seen[w] + 1}
  PROVE  InPlace(b)'
<1>1. b.label \in Windows /\ seen \in [Windows -> Nat]
  BY DEF Batches, TypeOK
<1>2. seen[b.label] \in Nat /\ seen'[b.label] \in Nat /\ seen[b.label] <= seen'[b.label]
  BY <1>1
<1>3. In(b.samples) \subseteq (Warmup + 1)..seen[b.label] /\ Warmup \in Nat
  BY LimitsAssumption DEF InPlace, Within
<1>4. In(b.samples) \subseteq (Warmup + 1)..seen'[b.label]
  BY <1>2, <1>3
<1>5. ASSUME NEW x \in In(b.samples), NEW y \in In(buf'[b.label]) PROVE x < y
  <2>1. x \in Int /\ x <= seen[b.label]
    BY <1>2, <1>3
  <2>2. CASE b.label = w
    <3>1. y \in In(buf[w]) \/ y = seen[w] + 1
      BY <2>2, <1>5
    <3>2. CASE y \in In(buf[w])
      BY <2>2, <3>2, <1>5 DEF InPlace, Before
    <3>3. CASE y = seen[w] + 1
      BY <1>2, <2>1, <2>2, <3>3
    <3> QED BY <3>1, <3>2, <3>3
  <2>3. CASE b.label # w
    BY <1>1, <1>5, <2>3 DEF InPlace, Before
  <2> QED BY <2>2, <2>3
<1> QED BY <1>4, <1>5 DEF InPlace, Within, Before

\* A flushed buffer is in place, and comes after every batch that was.
LEMMA FlushedInPlace ==
  ASSUME TypeOK, NEW w \in Windows, UNCHANGED printed,
         seen' = [seen EXCEPT ![w] = @ + 1], Warmup < seen[w] + 1,
         Rising(buf[w]), Within(buf[w], seen[w]),
         Within(printed[w], seen[w]), Before(printed[w], buf[w])
  PROVE  LET full == Append(buf[w], seen[w] + 1)
         IN  /\ full \in Seq(Nat)
             /\ In(full) = In(buf[w]) \cup {seen[w] + 1}
             /\ Rising(full) /\ Within(full, seen'[w]) /\ Before(printed'[w], full)
             /\ \A b \in Batches : InPlace(b) /\ b.label = w => Before(b.samples, full)
<1> DEFINE n == seen[w] + 1
           full == Append(buf[w], n)
<1>1. /\ seen[w] \in Nat /\ n \in Nat /\ seen'[w] = n /\ n > seen[w]
      /\ buf[w] \in Seq(Nat) /\ printed[w] \in Seq(Nat) /\ Warmup \in Nat
  BY LimitsAssumption DEF TypeOK
<1>2. full \in Seq(Nat) /\ In(full) = In(buf[w]) \cup {n}
  BY <1>1, InAppend
<1>3. \A x \in (Warmup + 1)..seen[w] : x < n
  BY <1>1
<1>4. Rising(full)
  <2>1. \A x \in In(buf[w]) : x < n
    BY <1>3 DEF Within
  <2> QED BY <1>1, <2>1, RisingAppend
<1> HIDE DEF full
<1>5. Within(full, seen'[w])
  <2>1. (Warmup + 1)..seen[w] \subseteq (Warmup + 1)..n /\ n \in (Warmup + 1)..n
    BY <1>1
  <2> QED BY <1>1, <1>2, <2>1 DEF Within
<1>6. Before(printed'[w], full)
  BY <1>2, <1>3 DEF Within, Before
<1>7. ASSUME NEW b \in Batches, InPlace(b), b.label = w PROVE Before(b.samples, full)
  BY <1>2, <1>3, <1>7 DEF InPlace, Within, Before
<1> QED BY <1>2, <1>4, <1>5, <1>6, <1>7 DEF full

\* A pushed sample is the latest of its window, in the buffer or flushed.
LEMMA OrderPush ==
  ASSUME TypeOK, OrderInv, NEW w \in Windows, NEW overdue \in BOOLEAN, Push(w, overdue)
  PROVE  OrderInv'
<1>1. UNCHANGED <<thread, batch, printed>>
  BY DEF Push, threadVars
<1>2. /\ seen' = [seen EXCEPT ![w] = @ + 1] /\ seen \in [Windows -> Nat] /\ seen' \in [Windows -> Nat]
      /\ buf \in [Windows -> Seq(Nat)] /\ channel \in Seq(Batches) /\ Warmup \in Nat
  BY LimitsAssumption DEF Push, TypeOK, Batches
<1> DEFINE n == seen[w] + 1
           full == Append(buf[w], n)
<1>3. seen'[w] = n /\ \A v \in Windows : seen[v] \in Nat /\ seen'[v] \in Nat /\ seen[v] <= seen'[v]
  BY <1>2
<1>4. \A v \in Windows : Rising(printed[v]) /\ Within(printed[v], seen[v])
                         /\ Rising(buf[v]) /\ Within(buf[v], seen[v]) /\ Before(printed[v], buf[v])
  BY DEF OrderInv
<1>5. \A v \in Windows, q \in Seq(Nat) : Within(q, seen[v]) => Within(q, seen'[v])
  <2>1. \A v \in Windows : (Warmup + 1)..seen[v] \subseteq (Warmup + 1)..seen'[v]
    BY <1>2, <1>3
  <2> QED BY <2>1 DEF Within
<1>6. ~WarmingUp(n) => /\ full \in Seq(Nat) /\ In(full) = In(buf[w]) \cup {n}
                       /\ Rising(full) /\ Within(full, seen'[w]) /\ Before(printed'[w], full)
                       /\ \A b \in Batches : InPlace(b) /\ b.label = w => Before(b.samples, full)
  <2>1. ~WarmingUp(n) => Warmup < n
    BY <1>2, <1>3 DEF WarmingUp
  <2> QED BY <1>1, <1>2, <1>4, <2>1, FlushedInPlace
<1>7. \/ WarmingUp(n) /\ UNCHANGED <<buf, channel>>
      \/ ~WarmingUp(n) /\ buf' = [buf EXCEPT ![w] = full] /\ UNCHANGED channel
      \/ ~WarmingUp(n) /\ buf' = [buf EXCEPT ![w] = <<>>] /\ UNCHANGED channel
      \/ ~WarmingUp(n) /\ buf' = [buf EXCEPT ![w] = <<>>] /\ channel' = Append(channel, Batch(w, full))
  BY <1>3 DEF Push, FlushBuffer
<1> HIDE DEF full
<1>8. (\A v \in Windows \ {w} : buf'[v] = buf[v]) /\ In(buf'[w]) \subseteq In(buf[w]) \cup {n}
  <2>1. In(<<>>) = {}
    BY DEF In
  <2>2. buf'[w] \in {buf[w], <<>>} \/ (~WarmingUp(n) /\ buf'[w] = full)
    BY <1>2, <1>7
  <2>3. \A v \in Windows \ {w} : buf'[v] = buf[v]
    BY <1>2, <1>7
  <2> QED BY <1>6, <2>1, <2>2, <2>3
<1>9. \A b \in Batches : InPlace(b) => InPlace(b)'
  BY <1>1, <1>2, <1>8, StaysInPlace
<1>10. \A v \in Windows : (/\ Rising(printed[v]) /\ Within(printed[v], seen[v])
                           /\ Rising(buf[v]) /\ Within(buf[v], seen[v]) /\ Before(printed[v], buf[v]))'
  <2>1. Rising(<<>>) /\ \A v \in Windows : Within(<<>>, seen'[v]) /\ Before(printed[v], <<>>)
    BY DEF Rising, Within, Before, In
  <2>2. \A v \in Windows : Within(printed[v], seen'[v]) /\ Within(buf[v], seen'[v])
    BY <1>2, <1>4, <1>5 DEF TypeOK
  <2>3. \A v \in Windows : buf'[v] \in {buf[v], <<>>} \/ (v = w /\ ~WarmingUp(n) /\ buf'[v] = full)
    BY <1>2, <1>7
  <2> QED BY <1>1, <1>4, <1>6, <2>1, <2>2, <2>3
<1>11. thread' = "report" =>
         /\ batch \in Batches /\ InPlace(batch)
         /\ \A i \in DOMAIN channel : channel[i].label = batch.label => Before(batch.samples, channel[i].samples)
  BY <1>1 DEF OrderInv, TypeOK, Batches
<1>12. \A i \in DOMAIN channel :
         /\ channel[i] \in Batches /\ InPlace(channel[i])
         /\ \A j \in DOMAIN channel :
              i < j /\ channel[i].label = channel[j].label => Before(channel[i].samples, channel[j].samples)
  BY <1>2 DEF OrderInv
<1>13. CASE UNCHANGED channel
  <2>1. \A i \in DOMAIN channel : InPlace(channel[i])'
    BY <1>9, <1>12, <1>13
  <2>2. thread' = "report" => InPlace(batch)'
    BY <1>9, <1>11, <1>1
  <2> QED BY <1>1, <1>10, <1>11, <1>12, <1>13, <2>1, <2>2 DEF OrderInv
<1>14. CASE ~WarmingUp(n) /\ buf' = [buf EXCEPT ![w] = <<>>] /\ channel' = Append(channel, Batch(w, full))
  <2>1. PICK b \in Batches : b = Batch(w, full) /\ b.label = w /\ b.samples = full
    BY <1>6, <1>14 DEF Batch, Batches
  <2>2. InPlace(b)'
    <3>1. buf'[w] = <<>> /\ Before(full, <<>>)
      BY <1>2, <1>14 DEF Before, In
    <3>2. Rising(b.samples) /\ Within(b.samples, seen'[w]) /\ Before(printed'[w], b.samples) /\ Before(b.samples, buf'[w])
      BY <1>6, <1>14, <2>1, <3>1
    <3> QED BY <2>1, <3>2 DEF InPlace
  <2>3. /\ Len(channel) \in Nat /\ DOMAIN channel = 1..Len(channel) /\ DOMAIN channel' = 1..(Len(channel) + 1)
        /\ \A i \in DOMAIN channel : channel'[i] = channel[i]
        /\ channel'[Len(channel) + 1] = b
    BY <1>2, <1>14, <2>1
  <2>4. \A i \in DOMAIN channel' : \/ i \in DOMAIN channel /\ channel'[i] = channel[i]
                                   \/ i = Len(channel) + 1 /\ channel'[i] = b
    BY <2>3
  <2>5. ASSUME NEW i \in DOMAIN channel' PROVE InPlace(channel[i])'
    <3>1. CASE i \in DOMAIN channel /\ channel'[i] = channel[i]
      <4>1. PICK c \in Batches : c = channel[i] /\ InPlace(c)
        BY <1>12, <3>1
      <4> QED BY <1>9, <3>1, <4>1
    <3>2. CASE channel'[i] = b
      BY <2>2, <3>2
    <3> QED BY <2>4, <3>1, <3>2
  <2>6. ASSUME NEW i \in DOMAIN channel', NEW j \in DOMAIN channel', i < j, channel'[i].label = channel'[j].label
        PROVE  Before(channel'[i].samples, channel'[j].samples)
    <3>1. i \in DOMAIN channel /\ channel'[i] = channel[i]
      BY <2>3, <2>6
    <3>2. CASE j \in DOMAIN channel
      BY <1>12, <2>3, <2>6, <3>1, <3>2
    <3>3. CASE j = Len(channel) + 1
      BY <1>6, <1>12, <1>14, <2>1, <2>3, <2>6, <3>1, <3>3
    <3> QED BY <2>4, <3>2, <3>3
  <2>7. ASSUME thread' = "report"
        PROVE  /\ InPlace(batch)'
               /\ \A i \in DOMAIN channel' : channel'[i].label = batch'.label => Before(batch'.samples, channel'[i].samples)
    <3>1. InPlace(batch)'
      BY <1>1, <1>9, <1>11, <2>7
    <3>2. Before(batch.samples, full) \/ batch.label # w
      BY <1>6, <1>11, <1>14, <2>7
    <3> QED BY <1>1, <1>11, <2>1, <2>4, <2>7, <3>1, <3>2
  <2> QED BY <1>10, <2>5, <2>6, <2>7 DEF OrderInv
<1> QED BY <1>7, <1>13, <1>14

\* What leaves the channel is its oldest batch.
LEMMA OrderReceive ==
  ASSUME TypeOK, OrderInv, Receive
  PROVE  OrderInv'
<1>1. /\ UNCHANGED <<seen, buf, printed>> /\ channel # <<>> /\ channel \in Seq(Batches)
      /\ batch' = Head(channel) /\ channel' = Tail(channel)
  BY DEF Receive, stageVars, TypeOK, Batches
<1>2. /\ batch' = channel[1] /\ 1 \in DOMAIN channel
      /\ \A i \in DOMAIN channel' : i + 1 \in DOMAIN channel /\ channel'[i] = channel[i + 1] /\ i \in Nat /\ 1 < i + 1
  BY <1>1
<1>3. \A b \in Batches : InPlace(b)' = InPlace(b)
  BY <1>1 DEF InPlace
<1>4. \A i \in DOMAIN channel :
        /\ channel[i] \in Batches /\ InPlace(channel[i])
        /\ \A j \in DOMAIN channel :
             i < j /\ channel[i].label = channel[j].label => Before(channel[i].samples, channel[j].samples)
  BY <1>1 DEF OrderInv
<1>5. InPlace(batch)'
  BY <1>2, <1>3, <1>4
<1>6. ASSUME NEW i \in DOMAIN channel' PROVE InPlace(channel[i])'
  <2>1. PICK b \in Batches : b = channel'[i] /\ InPlace(b)
    BY <1>2, <1>4
  <2> QED BY <1>3, <2>1
<1>7. ASSUME NEW i \in DOMAIN channel', channel'[i].label = batch'.label
      PROVE  Before(batch'.samples, channel'[i].samples)
  BY <1>2, <1>4, <1>7
<1>8. ASSUME NEW i \in DOMAIN channel', NEW j \in DOMAIN channel', i < j, channel'[i].label = channel'[j].label
      PROVE  Before(channel'[i].samples, channel'[j].samples)
  <2>1. i + 1 < j + 1
    BY <1>2, <1>8
  <2> QED BY <1>2, <1>4, <1>8, <2>1
<1> QED BY <1>1, <1>5, <1>6, <1>7, <1>8 DEF OrderInv

\* The batch that is printed comes after what is printed, and before the rest.
LEMMA OrderReport ==
  ASSUME TypeOK, OrderInv, Report
  PROVE  OrderInv'
<1> DEFINE l == batch.label
           q == batch.samples
<1>1. /\ UNCHANGED <<seen, buf, channel>> /\ thread = "report" /\ thread' = "receive"
      /\ printed \in [Windows -> Seq(Nat)] /\ channel \in Seq(Batches)
      /\ batch \in Batches /\ l \in Windows /\ q \in Seq(Nat)
      /\ printed' = [printed EXCEPT ![l] = @ \o q]
  BY DEF Report, stageVars, TypeOK, Batches
<1>2. InPlace(batch) /\ \A i \in DOMAIN channel : channel[i].label = l => Before(q, channel[i].samples)
  BY <1>1 DEF OrderInv
<1>3. In(printed'[l]) = In(printed[l]) \cup In(q) /\ \A v \in Windows \ {l} : printed'[v] = printed[v]
  BY <1>1, InConcat
<1>4. ASSUME NEW w \in Windows
      PROVE  (/\ Rising(printed[w]) /\ Within(printed[w], seen[w])
              /\ Rising(buf[w]) /\ Within(buf[w], seen[w]) /\ Before(printed[w], buf[w]))'
  <2>1. /\ Rising(printed[w]) /\ Within(printed[w], seen[w])
        /\ Rising(buf[w]) /\ Within(buf[w], seen[w]) /\ Before(printed[w], buf[w])
    BY DEF OrderInv
  <2>2. CASE w = l
    <3>1. Rising(printed'[l])
      BY <1>1, <1>2, <2>1, <2>2, RisingConcat DEF InPlace
    <3>2. Within(printed'[l], seen[l]) /\ Before(printed'[l], buf[l])
      BY <1>2, <1>3, <2>1, <2>2 DEF InPlace, Within, Before
    <3> QED BY <1>1, <2>1, <2>2, <3>1, <3>2
  <2>3. CASE w # l
    BY <1>1, <1>3, <2>1, <2>3
  <2> QED BY <2>2, <2>3
<1>5. ASSUME NEW i \in DOMAIN channel PROVE InPlace(channel[i])'
  <2>1. PICK b \in Batches : b = channel[i] /\ InPlace(b)
    BY <1>1 DEF OrderInv
  <2>2. b.label \in Windows
    BY DEF Batches
  <2>3. CASE b.label = l
    <3>1. Before(printed'[l], b.samples)
      BY <1>2, <1>3, <2>1, <2>3 DEF InPlace, Before
    <3>2. InPlace(b)'
      BY <1>1, <2>1, <2>3, <3>1 DEF InPlace
    <3> QED BY <1>1, <2>1, <3>2
  <2>4. CASE b.label # l
    <3>1. InPlace(b)'
      BY <1>1, <1>3, <2>1, <2>2, <2>4 DEF InPlace
    <3> QED BY <1>1, <2>1, <3>1
  <2> QED BY <2>3, <2>4
<1> QED BY <1>1, <1>4, <1>5 DEF OrderInv

\* Every step keeps the order.
LEMMA OrderStep ==
  ASSUME TypeOK, OrderInv, [LatencyNext]_latencyVars
  PROVE  OrderInv'
<1>1. ASSUME NEW w \in Windows, HandOut(w) \/ DropWindow(w) PROVE OrderInv'
  <2>1. UNCHANGED <<seen, buf, channel, thread, batch, printed>>
    BY <1>1 DEF HandOut, DropWindow, threadVars
  <2> QED BY <2>1 DEF OrderInv, InPlace
<1>2. ASSUME ReportFails \/ Exit PROVE OrderInv'
  BY <1>2 DEF ReportFails, Exit, OrderInv, stageVars
<1>3. ASSUME Disconnected PROVE OrderInv'
  BY <1>3 DEF Disconnected, OrderInv, InPlace, stageVars
<1>4. ASSUME Shutdown \/ Joined \/ DropHandle PROVE OrderInv'
  <2>1. UNCHANGED <<seen, buf, channel, thread, batch, printed>>
    BY <1>4 DEF Shutdown, Joined, DropHandle, stageVars, threadVars
  <2> QED BY <2>1 DEF OrderInv, InPlace
<1>5. CASE UNCHANGED latencyVars
  BY <1>5 DEF OrderInv, InPlace, latencyVars, stageVars, threadVars
<1> QED BY <1>1, <1>2, <1>3, <1>4, <1>5, OrderPush, OrderReceive, OrderReport DEF LatencyNext, StageStep, ThreadStep

\* Hence the order holds of every behaviour.
LEMMA InOrder == LatencySpec => []OrderInv
  BY TypeCorrect, OrderInitially, OrderStep, PTL DEF LatencySpec

\* latency_window.rs:79-108 and 135-137: what is printed of a window is its samples
\* after the warm-up, each once and in the order they were pushed, and until the
\* thread dies the others are on their way or in the window's buffer.
THEOREM SamplesAreAccounted == LatencySpec => []SamplesAccounted
<1>1. TypeOK /\ OrderInv => ReportedInOrder
  <2> SUFFICES ASSUME TypeOK, OrderInv, NEW w \in Windows, NEW i \in DOMAIN printed[w], NEW j \in DOMAIN printed[w]
               PROVE  /\ printed[w][i] \in (Warmup + 1)..seen[w]
                      /\ i < j => printed[w][i] < printed[w][j]
    BY DEF ReportedInOrder
  <2>1. Rising(printed[w]) /\ Within(printed[w], seen[w])
    BY DEF OrderInv
  <2>2. printed[w][i] \in (Warmup + 1)..seen[w]
    BY <2>1 DEF Within, In
  <2> QED BY <2>1, <2>2 DEF Rising
<1>2. NothingLost /\ ReportedInOrder => SamplesAccounted
  BY DEF SamplesAccounted
<1> QED BY <1>1, <1>2, TypeCorrect, InOrder, NothingIsLost, PTL

\* latency_window.rs:156-167: when shutdown returns from a thread that ended, every
\* batch sent is printed, and what is not is exactly what was left in the buffers.
THEOREM DrainsAtShutdown == LatencySpec => ShutdownDrains
<1>1. LatencyInit => EndedClean
  BY NothingLostInitially
<1>2. LatencySpec => []EndedClean
  BY <1>1, EndedStep, PTL DEF LatencySpec
<1>3. ASSUME EndedClean, NothingLost, OrderInv, owner = "joining", owner' = "gone", thread = "ended"
      PROVE  /\ open = {}
             /\ \A w \in Windows : ((Warmup + 1)..seen[w]) \ In(printed[w]) = In(buf[w])
  <2>1. channel = <<>> /\ open = {}
    BY <1>3 DEF EndedClean
  <2>2. \A w \in Windows : Underway(w) = {}
    BY <2>1, <1>3 DEF Underway, Sent
  <2>3. \A w \in Windows : (Warmup + 1)..seen[w] = In(printed[w]) \cup In(buf[w])
    BY <2>2, <1>3 DEF NothingLost
  <2>4. ASSUME NEW w \in Windows PROVE In(printed[w]) \cap In(buf[w]) = {}
    <3>1. Before(printed[w], buf[w]) /\ In(buf[w]) \subseteq Int
      BY <1>3 DEF OrderInv, Within
    <3>2. \A x \in In(printed[w]), y \in In(buf[w]) : x # y
      BY <3>1 DEF Before
    <3> QED BY <3>2
  <2> QED BY <2>1, <2>3, <2>4
<1> QED BY <1>2, <1>3, InOrder, NothingIsLost, PTL DEF ShutdownDrains
=============================================================================
