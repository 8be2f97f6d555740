--------------------------- MODULE LatencyWindow ---------------------------
(***************************************************************************)
(* The latency recorder: src/src/latency_window.rs.                        *)
(*                                                                         *)
(* A stage pushes samples into its windows; a window hands a full or old   *)
(* buffer to the reporter thread over one channel, and the thread prints   *)
(* it.  A sample is its number in its window.  How long ago a window was   *)
(* flushed is a choice at every push.                                      *)
(*                                                                         *)
(* Left out: sorting and percentiles, the label's text, core pinning.      *)
(***************************************************************************)
EXTENDS Integers, Sequences

CONSTANTS
  Windows,   \* labels; one window each
  Warmup,    \* WARMUP_SAMPLES
  Flush,     \* FLUSH_SAMPLES
  MaxSeen,   \* bound: samples pushed into a window
  None       \* no batch

ASSUME LimitsAssumption == Warmup \in Nat /\ Flush \in Nat \ {0} /\ MaxSeen \in Nat
ASSUME NoneAssumption == None \notin [label : Windows, samples : Seq(Nat)]

VARIABLES
  open,       \* windows handed out and not dropped
  unused,     \* windows not handed out yet
  seen, buf,  \* LatencyWindow: samples consumed, samples not yet flushed
  channel,    \* batches sent and not received
  owner,      \* the LatencyReporter: "held", "joining" in shutdown, or "gone"
  thread,     \* the reporter thread: "receive", "report", or how it ended: "ended" by
              \* itself, "panicked", or "killed" with its process
  batch,      \* the batch it holds
  printed     \* history: samples whose batch was reported, per window

stageVars  == <<open, unused, seen, buf>>
threadVars == <<thread, batch, printed>>
latencyVars == <<stageVars, channel, owner, threadVars>>

Batch(w, samples) == [label |-> w, samples |-> samples]

LatencyInit ==
  /\ open = {} /\ unused = Windows
  /\ seen = [w \in Windows |-> 0] /\ buf = [w \in Windows |-> <<>>]
  /\ channel = <<>>
  /\ owner = "held"
  /\ thread = "receive" /\ batch = None
  /\ printed = [w \in Windows |-> <<>>]

\* LatencyReporter::window
HandOut(w) ==
  /\ owner = "held"
  /\ w \in unused
  /\ unused' = unused \ {w}
  /\ open' = open \cup {w}
  /\ UNCHANGED <<seen, buf, channel, owner, threadVars>>

WarmingUp(n) == n <= Warmup

\* Variant: flushed one sample late.
FullLate(b) == Len(b) > Flush

Full(b) == Len(b) >= Flush

\* Variant: the buffer is handed over and kept.
CopiedOnFlush(w) ==
  /\ buf' = [buf EXCEPT ![w] = Append(@, seen'[w])]
  /\ channel' = IF thread = "panicked" THEN channel ELSE Append(channel, Batch(w, buf'[w]))

\* The buffer, the new sample included, is swapped for an empty one and sent.
\* A send to a thread that died is lost, and its error ignored.
FlushBuffer(w) ==
  /\ buf' = [buf EXCEPT ![w] = <<>>]
  /\ channel' = IF thread = "panicked" THEN channel
                ELSE Append(channel, Batch(w, Append(buf[w], seen'[w])))

\* LatencyWindow::push.  overdue: FLUSH_INTERVAL has passed since the last flush.
Push(w, overdue) ==
  /\ w \in open
  /\ seen[w] < MaxSeen
  /\ seen' = [seen EXCEPT ![w] = @ + 1]
  /\ IF WarmingUp(seen'[w])
     THEN UNCHANGED <<buf, channel>>
     ELSE LET b == Append(buf[w], seen'[w])
          IN  IF Full(b) \/ overdue
              THEN FlushBuffer(w)
              ELSE buf' = [buf EXCEPT ![w] = b] /\ UNCHANGED channel
  /\ UNCHANGED <<open, unused, owner, threadVars>>

\* A window has no Drop of its own: what it has buffered is never sent.
DropWindow(w) ==
  /\ w \in open
  /\ open' = open \ {w}
  /\ UNCHANGED <<unused, seen, buf, channel, owner, threadVars>>

\* rx.recv() returns a batch.
Receive ==
  /\ thread = "receive"
  /\ channel # <<>>
  /\ batch' = Head(channel)
  /\ channel' = Tail(channel)
  /\ thread' = "report"
  /\ UNCHANGED <<stageVars, owner, printed>>

Report ==
  /\ thread = "report"
  /\ printed' = [printed EXCEPT ![batch.label] = @ \o batch.samples]
  /\ batch' = None
  /\ thread' = "receive"
  /\ UNCHANGED <<stageVars, channel, owner>>

\* println! panics when nobody reads the output any more: the thread unwinds,
\* and what the channel holds goes with its receiver.
ReportFails ==
  /\ thread = "report"
  /\ thread' = "panicked"
  /\ batch' = None
  /\ channel' = <<>>
  /\ UNCHANGED <<stageVars, owner, printed>>

\* Variant: the windows' senders are not counted.
HandleDropped == owner # "held"

\* Variant: shutdown joins with its own sender alive.
HandleKept == owner = "gone" /\ open = {}

\* rx.recv() fails when every sender is gone: the handle's and the windows'.
SendersGone == owner # "held" /\ open = {}

Disconnected ==
  /\ thread = "receive"
  /\ channel = <<>>
  /\ SendersGone
  /\ thread' = "ended"
  /\ UNCHANGED <<stageVars, channel, owner, batch, printed>>

\* LatencyReporter::shutdown drops the sender, and then joins the thread.
Shutdown ==
  /\ owner = "held"
  /\ owner' = "joining"
  /\ UNCHANGED <<stageVars, channel, threadVars>>

Joined ==
  /\ owner = "joining"
  /\ thread \in {"ended", "panicked"}
  /\ owner' = "gone"
  /\ UNCHANGED <<stageVars, channel, threadVars>>

\* Dropped without shutdown: nothing joins the thread.
DropHandle ==
  /\ owner = "held"
  /\ owner' = "gone"
  /\ UNCHANGED <<stageVars, channel, threadVars>>

\* The stage's main returns, as every stage's does, without shutdown: what it
\* owns is dropped, and the process ends under its thread.
Exit ==
  /\ owner # "joining"
  /\ thread \in {"receive", "report"}
  /\ open' = {} /\ owner' = "gone"
  /\ thread' = "killed"
  /\ batch' = None /\ channel' = <<>>
  /\ UNCHANGED <<unused, seen, buf, printed>>

StageStep ==
  \/ \E w \in Windows : HandOut(w) \/ DropWindow(w) \/ \E overdue \in BOOLEAN : Push(w, overdue)
  \/ Shutdown \/ DropHandle \/ Exit

ThreadStep == Receive \/ Report \/ ReportFails \/ Disconnected

LatencyNext == StageStep \/ ThreadStep \/ Joined

\* The thread has a core no hot loop owns; the stage owes nothing.
LatencySpec ==
  /\ LatencyInit
  /\ [][LatencyNext]_latencyVars
  /\ WF_latencyVars(ThreadStep) /\ WF_latencyVars(Joined)

----------------------------------------------------------------------------
\* Every variable has its type; the thread holds a batch exactly while it
\* reports it, and a buffer never outgrows the capacity it was allocated with.
TypeOK ==
  /\ open \subseteq Windows /\ unused \subseteq Windows /\ open \cap unused = {}
  /\ seen \in [Windows -> Nat]
  /\ buf \in [Windows -> Seq(Nat)] /\ \A w \in Windows : Len(buf[w]) < Flush
  /\ channel \in Seq([label : Windows, samples : Seq(Nat)])
  /\ owner \in {"held", "joining", "gone"}
  /\ thread \in {"receive", "report", "ended", "panicked", "killed"}
  /\ batch \in [label : Windows, samples : Seq(Nat)] \cup {None}
  /\ (batch # None) <=> (thread = "report")
  /\ printed \in [Windows -> Seq(Nat)]

In(q) == {q[i] : i \in DOMAIN q}

\* The samples of w that a batch carries, or a sequence of batches.
Carried(b, w) == IF b.label = w THEN In(b.samples) ELSE {}
Sent(batches, w) == UNION {Carried(batches[i], w) : i \in DOMAIN batches}

\* The samples of w that are on their way to being printed.
Underway(w) == (IF thread = "report" THEN Carried(batch, w) ELSE {}) \cup Sent(channel, w)

\* Every sample after the warm-up is printed, on its way, or in its window's
\* buffer, a dropped window's included, unless the thread died.
NothingLost ==
  thread \notin {"panicked", "killed"} =>
    \A w \in Windows : (Warmup + 1)..seen[w] = In(printed[w]) \cup Underway(w) \cup In(buf[w])

\* No sample is printed twice, before an earlier one of its window, or under the
\* label of another: the death of the thread included.
ReportedInOrder ==
  \A w \in Windows : \A i, j \in DOMAIN printed[w] :
    /\ printed[w][i] \in (Warmup + 1)..seen[w]
    /\ i < j => printed[w][i] < printed[w][j]

\* Both: what is printed is exactly the samples pushed, each once and in order.
SamplesAccounted == NothingLost /\ ReportedInOrder

\* latency_window.rs:156-158: shutdown waits "for the thread to drain and exit".
\* Every batch sent is printed then, and what is unprinted is exactly what was left
\* in the windows' buffers: not one sample of them, where Makefile:139 says that
\* "windows also print on shutdown".
ShutdownDrains ==
  [][owner = "joining" /\ owner' = "gone" /\ thread = "ended" =>
       /\ open = {}
       /\ \A w \in Windows : ((Warmup + 1)..seen[w]) \ In(printed[w]) = In(buf[w])]_latencyVars

\* ... and it returns, once the windows are dropped.
ShutdownReturns == owner = "joining" /\ open = {} ~> owner = "gone"
=============================================================================
