# rust-hotpath-ipc in TLA+

Modules, TLC configurations and machine-checked proofs for the trading
pipeline in `src/`: a price-time priority order book, the exchange process
around it, a strategy process and an execution process, joined by a
shared-memory bus. Every definition is translated from the Rust source;
`PROJECT.json` gives the lines of each one (`map`).

Paths below are relative to the repository's root, which holds `README.md`,
`Makefile`, `webui/` and the Rust code in `src/`; `PROJECT.json` writes the same
files with the checkout directory in front (`src/src/order_book.rs`).

## 1. The system

| Part | Code | State | Operations |
|---|---|---|---|
| Order book | `src/order_book.rs` | two `BTreeMap`s of price levels (a queue and a cached total each), `locate` (id to side and price) | `submit` (match, then rest or reject), `cancel`, `best_bid`, `best_ask`, `size_at`, `is_resting` |
| Exchange | `src/bin/exchange.rs` | the book, the synthetic participants (`live`, the next id, the fair value), the reused `fills` vector, the top last published | drain and match orders, a paced round of participants, publish fills, maker fills, top of book, notify |
| Strategy process | `src/bin/strategy.rs` | the intended `position`, `order_id`, its strategy, waiting mode | a tick in, position limit, an order out; poll or block; stop after `MAX_ORDERS` |
| Execution process | `src/bin/execution.rs` | `order_ctx` (id to side and price), `position`, P&L, `completed_orders` | drain orders, book or skip a report, stop after `MAX_FILLS` |
| Bus, message types | `src/hot_path.rs` | iceoryx2 services with safe overflow, events | send, receive, notify, wait |
| Composite strategy | `src/strategy.rs` | two averages, the momentum buffer, the reversion window with its sums, the last trade | `on_price` |
| Strategy VM | `src/bytecode.rs` | 32-cell stack, a state per indicator instruction (an average, or a ring buffer) | `new`, `run` |
| Graph compiler | `src/compiler.rs`, `src/bin/disasm.rs` | while it compiles: the program, the next state slot, the nodes being emitted | `parse`, `compile` |
| Control server | `src/bin/control_server.rs` | `Hub`: the running pipeline, the log, under a lock | `/run`, `/stop`, `/events`; launch and kill stages |
| Latency windows | `src/latency_window.rs` | per-window samples, a channel, a reporter thread | `push`, flush, `shutdown` |
| TSC calibration | `src/tsc_calibration.rs` | a calibration under a lock, its frequency in an atomic | calibrate, refresh, convert |
| Runtime setup | `src/runtime.rs` | none | core pinning, scheduling class, memory locking |
| Console | `webui/index.html` | what the buttons allow, `finishing`, the event stream | Run, Stop, stop at the end of a run |
| Benchmark, build | `src/bin/bench-*.rs`, `Makefile`, `Dockerfile` | none | |

How they interact. The strategy publishes `OrderCommand`s on one service, which
two processes receive: the exchange, which matches them, and the execution
process, which only wants to know each order's side. The exchange publishes
`ExecutionReport`s to the execution process and `MarketTick`s to the strategy,
with an event the strategy can block on. Inside the exchange the book is called
by one thread. The strategy process asks either the composite strategy or the VM,
which runs a program compiled from a graph at the start, about each price. Each
stage hands its latency samples to a reporter thread of its own. The control server starts
the three as child processes and kills them.

What is hard here:

- `submit` keeps five things in step (keys, queues, cached totals, the index,
  the caller's fills) through two nested loops with several exits;
- an order may arrive before, between or after the reads of another process, and
  queues that are full lose their oldest sample without a word;
- the exchange's thread shares one `fills` vector and one book among strategy
  orders, quotes, cancels and crosses, and must report each fill once;
- the strategy's position counts orders when they are sent, the execution
  process's counts fills, and they are allowed to differ;
- a strategy blocked without a timeout depends on an event it cannot miss;
- the VM and the composite strategy keep rolling state by index arithmetic and
  running sums, and must agree with the definition of each indicator for ever;
- the compiler walks a graph that may share nodes, have cycles and nest gates, and
  its programs run on a stack that drops what does not fit;
- a sample is handed from a stage's thread to the reporter's, which may die, and the
  shutdown waits for senders that others hold;
- concurrent `/run` and `/stop` requests, half-started pipelines.

What makes each part correct: the book is uncrossed, indexed and totalled exactly,
fills the best price and the oldest order first, and its loops end; the exchange
reports every fill once, publishes the top it has, and handles every command; the
execution process books each report once with the side the order was sent with;
the strategy keeps to its limit and does not sleep on data; a program decides what
the graph it was compiled from means, and the cooldown delays without silencing; a
latency sample is printed once, in order. `PROJECT.json` lists
under `hazards` where each of these could go wrong, at its line.

## 2. Modules

```
PriceTimePriority <---- implemented by ---- OrderBook + OrderBookProps
                                                  |
        Bus          Settings                     v
         +-------------- | --------------------> Exchange <- ExchangeClient <- MCExchange
         +--> StrategyProcess (PositionLimit) --+ |
         +--> Execution ------------------------+-+-> Pipeline <- MCPipeline

        Readings <- StrategyVM <- Compiler ------+
        Readings <- CompositeStrategy -----------+-> StrategyRunner <- MCStrategyRunner
                                 PositionLimit --+

        LatencyWindow         ControlServer <- Console

Proofs (TLAPS):

        Sums <- OrderBookProofs <- ExchangeLemmas <- ExchangeProofs   of ExchangeClient
         |      of OrderBookProps  of Exchange    <- PipelineProofs   of Pipeline
         +--- StrategyProofs of StrategyRunner
        LatencyWindowProofs of LatencyWindow      ConsoleProofs of Console
```

**OrderBook.** `Book::submit` is broken into the steps of its loops, so that the
books in the middle of a call are states as well: `Submit` (the call),
`EnterLevel` (the outer loop takes the best opposite level if its price is
acceptable), `FillFront` (one turn of the inner loop), `LeaveLevel` (the makers
that were cleared leave `locate`, an empty level leaves the map), and the three
exits `ReturnFilled`, `RejectRemainder`, `RestRemainder`. `Book::cancel` is one
step, since it has no loop that another property looks into. A `BTreeMap` side is
`keys[s]` with `queue[s][p]` and `total[s][p]`; `locate[id]` is `{}` or one
location; a market order is a taker whose `limit` is `None`. Ids are values that
are only compared, and one may come back when its order is gone: the code numbers
them from counters that do not run out. `submit` requires a fresh id and so does
`Submit`; that its callers keep to this is `FreshOrders` in Pipeline.

**OrderBookProps.** The invariants of the book, the inductive one
(`BookInvariant`), and the refinement mapping to **PriceTimePriority**: a set of
resting orders, the relation "rests at the same price and came first", the one
order being matched and its last trade. It has no levels, maps or index.

**Exchange.** The process's loop with a program counter `xpc`; a call into the
book runs as OrderBook's own steps before the loop goes on (`At`). `orders`,
`replace` and `fills` are `match_strategy_order` and `publish_fills` (a modify is a
cancel and then a submit, with both outcomes dropped); `ask`, `churn`, `cross`,
`prune` are `Participants::act`; `makers` is `publish_strategy_maker_fills`; `top`
and `notify` are the market data. The random walk of the fair value is any member
of `Quotes`, the 50% and 25% draws are choices, and the cadence may elapse at any
turn. `tally` is a history variable: what the book executed for each strategy order,
what was reported of it, and what a full queue lost.

**ExchangeClient.** The exchange under any client of the order service: new orders
of both types at any price, cancels and modifies of orders old and new. The strategy
in this repository sends new orders only, but the wire format and
`match_strategy_order` accept the rest. A client sends when the book is idle: a call
into the book does not read the queue, so a send during one is the same as one right
after it.

**StrategyProcess, Execution.** One action per exit of the loops in
`src/bin/strategy.rs` and `src/bin/execution.rs`. What the signals say of a price is
any of buy, sell and hold. The heartbeat, every 50,000th tick, may find the time cap
reached (`OutOfTime`). `booked` is a history variable. **Settings** holds the
environment variables, chosen once in `Init`; **PositionLimit** the risk check.

**Bus.** A queue per subscriber. Services are opened with safe overflow, so a send
always succeeds and a full queue loses its oldest sample. iceoryx2 is external: it is
modelled from how the stages open and use it.

**Pipeline.** The three processes interleaved step by step.

**Readings.** The arithmetic that `src/strategy.rs` and `src/bytecode.rs` each write
out, and the definition of each indicator as a function of all prices so far. An f64
is an integer that counts tenths: what is kept is sign, order, saturation and the
guards against zero; `tanh` is a clamp, and the deviation of the reversion is compared
by squares, to the tenth. What the f64 version rounds, the model does not.

**CompositeStrategy.** `Strategy::on_price` as one action: the averages, the trimmed
buffers, the window's running sums (which is where a slip would stay for ever), the
blend, the threshold, the cooldown. `past` is a history variable.

**StrategyVM, Compiler.** Pure functions: `Run` folds a program over a machine
`[stack, states, decision, panicked]`, with the code's own rule for a push beyond the
last cell and a pop from an empty stack; `Compile` threads a `Lowerer`
`[prog, nextSlot, onStack, err]` through `EmitNode`, and an error stays. `emit_node` is
recursive: `EmitNode(g)` is the function it is when its calls may nest as deep as the
graph has nodes, built level by level, since a call that nests deeper has met a node
that is being emitted. `Meaning` is the reference: the value of a graph, computed in
passes over its nodes, with no program, stack, slot or rolling state; and `WellFormed`
is what `compile` says it accepts, with no walk: what a value is made of is the least set
of nodes that is closed under reading (`MadeOf`), and no node has more inputs than it has
a use for. `emit_node` does not look at what is wired into an indicator or a data source;
`Unread` are these types, and `WellFormedBut(g, Unread)` is well-formedness with their
inputs exempted, which is what it accepts (section 4).

**StrategyRunner.** The strategy process between a tick and an order: a graph whose
connections are chosen as they are read is compiled, or refused, and then run; without
one the composite strategy runs. The position limit applies to either.

**LatencyWindow.** Windows that push, flush into a channel by count or by age, and are
dropped; the reporter thread that receives and prints, and may panic at a print; the
handle that is shut down or dropped. A sample is its number in its window, so that
order and loss can be told. `LatencyReporter::shutdown` is offered to callers and used
by none of the stages: each returns from `main` with its windows and its handle, and the
process ends under the reporter thread wherever that is (`Exit`).

**ControlServer.** The threads of `src/bin/control_server.rs` and the stages they
start and kill. A request is announced, takes the running pipeline out of the Hub,
kills it with the lock held (its children, then a sweep by name, which kills every
stage whoever started it), and, for a run, sweeps again, spawns three stages without
the lock and stores them. `lock` is the Hub's guard while it is held over several steps;
a `log_line` needs it free for an instant. A launch may fail at each stage, and what
it has spawned then lives on without a handle. A stage that runs may leave `main` by an
error at any time (`StageFails`); a strategy that does prints no summary. Of the lines
the stages print, the one modelled is the strategy's summary, since the page acts on it.

**Console.** The Run and Stop buttons of `webui/index.html` in one browser: which is
enabled when, the stop that the page sends at the end of a run, and what it does when
the server answers. It is enough for starts and stops to overlap: Stop is enabled
while a launch is under way, and Run again once that stop is answered.

Definitions whose comment begins with "Variant:" are what a plausible slip would
have made of the definition after them (a test `<` for `<=`, a map entry not
removed, a vector not cleared). Nothing in the specifications uses them;
`PROJECT.json` (`mutants`) names, for every property of every run, the variant that
breaks it, so that no property holds whatever the code does.

## 3. What is checked

| Run | Bounds | States | What it shows |
|---|---|---|---|
| `orderbook` | 4 ids, 2 prices, quantities up to 2 | 135,717 | `BookTypeOK`; `BookUncrossed`, `LocateExact`, `NoEmptyLevels`, `CachedSizeExact`, `FillsAccount`, `SubmitInProgress` in every state, those inside a submit included; `QueuePosition`: a resting order's queue position only clears; `SubmitReturns`; `ImplementsPriceTimePriority`, its fairness included |
| `exchange` | 2 client ids, 2 commands of any kind, 2 rounds, queues of 1 | 922,710 | `LiveExact`, `TopIsCurrent`, `ReportsComplete`, `ExecutedWithinOrdered`, `CommandsHandled` |
| `pipeline` | 2 orders of 2, 2 rounds, queues of 1; market orders in poll mode, or passive ones in waitset mode with the market event, a time cap and an execution stage that stops after 1 | 1,008,245 | `FillsConserved`, `HeldIsBooked`, `FreshOrders`, `MarketTerminalIsFinal`, `TicksAreRead`, `FillsSettle` |
| `decision` | six families of graphs (below), a stack of 4, windows of 2 and 3, 3 prices, 9 ticks of the composite strategy | 113,336 | `AcceptsWellFormed`, `ProgramBalanced`, `RunsTheGraph`; `SignalsExact`, `CooldownKept`, `WantedIsTraded` |
| `latency` | 2 windows, 1 warm-up sample, buffers of 2, 5 samples each | 162,350 | `SamplesAccounted`, `ShutdownDrains`, `ShutdownReturns` |
| `console` | 2 runs, 1 stop at a time | 28,803 | `CleanStart`, `WithinReach`, `StopStops`, `RequestsAnswered`, `RunEnds`, whatever overlaps and whichever stage fails, at its start or later |

Why the bounds are enough. The book: with four orders two can queue at one price,
a third rest at the next and the fourth walk both, and a partial fill, a fill in full
and a rest can follow one another in one submit; a quantity of 2 against orders of 1
ends a sweep at each of its exits. The exchange: one round primes the book, the
next trades with what the commands left; two quotes of which one crosses the other let
a quote itself trade; a queue of one sample overflows at the second report or tick;
two commands are enough for a modify or a cancel of an order in any state. The
pipeline: quantity 2 against quotes of 1 gives partial fills, two orders, and the reports
of two rounds, overflow queues of one, and price 0 is in range because an empty side is
published as 0 and a passive order may be priced from it. One clause asks for longer
queues than the run has, that of `FreshOrders` by which no id is in the exchange's queue
twice: it is the theorem `OrdersAreFresh`, for queues of any length, that says so.

The decision: every wiring, with up to four connections, of a momentum, a condition, a
gate and a signal (chains, cycles, self loops, shared nodes, doubled wires, wires into
an indicator, a signal behind a signal); unknown types and ends, and an id given twice;
the repository's `examples/graph.json` with smaller windows, for six ticks, in which
each ring wraps; one indicator behind both inputs of a gate; gates nested on their last
input, which need one cell more than a stack of 4 has; and a reversion over an empty
window, which panics. Prices are 0, where the guards are, and two that differ by less
than a full-scale momentum. Nine ticks of the composite strategy fill its window of 3,
trim it, and leave room for three cooldowns of 3. The latency windows: five samples
are a warm-up, two full buffers, or an early flush and a full buffer; two windows
interleave in the channel. The console: two runs give every overlap of two launches, of
a launch and a kill, and of a launch and what a failed one left; a page has one stop on
its way at most.

Runs whose system may come to rest, since nobody has to press a button, send a command
or push a sample, say so with `CHECK_DEADLOCK FALSE`.

Fairness. `WF_bookVars(SubmitStep)`: a call, once made, runs to its return. The
exchange and the pipeline have weak fairness of each process's turn and of nothing
finer: the stages are pinned to a core of their own and spin (`src/runtime.rs`,
and the main loops, which have no exit but the ones modelled). Nothing is assumed
of the choices: the signals may say hold for ever, the rounds stop at their bound.
The bound on rounds does not make liveness easier: `NotDue` and the turns of the
loop go on without them, so a process that could loop for ever still can.

In LatencyWindow the reporter thread is weakly fair (`new` asks for a core that no hot
loop owns), and so is the return of `join`; pushing and dropping are not, so
`ShutdownReturns` is about a shutdown whose windows are dropped. The decision is one
thread and has no fairness.

In Console every thread, the page, and the threads that forward output are weakly
fair, and a strategy that gets ticks ends (`MAX_ORDERS`, `MAX_SECONDS`); pressing a
button is not, and a stage is neither made to fail nor kept from it. With finitely many
runs the lock is taken finitely often, so that no fairness of the mutex is assumed.

`CleanStart` and `StopStops` are about a request that has had the server to itself
(`alone`), `RunEnds` excepts the runs in which a launch or a stage failed (`failure`):
without these conditions they do not hold, see section 4 and the hazards of
`control_server.rs`.

The bounds on length are `MaxRounds`, `MaxCommands`, `maxOrders` (the code's own
`MAX_ORDERS`), `MaxSeen`, `FixedTicks` and `ticks` of a graph, and the set `Runs`.

## 4. Where the code and its words part

Six runs check one property each, taken from a comment or a document, and TLC
finds it violated by what the code does.

- `fill_finds_context`. `src/bin/execution.rs:106` drains orders first "so a fill
  always finds its context". Orders and reports are two queues polled in turn: an
  order and its fill can both arrive after the drain and before the receive. The
  report is skipped and its quantity never reaches the position.
- `terminal_passive`. A status of 2 is a filled order (`src/hot_path.rs:66`), one per
  order (`src/bin/execution.rs:103`). Every fill of a resting strategy order is
  reported with status 2, the partial ones as well; the execution process then drops
  the order's context and skips the rest of its fills.
- `position_bounded`. `src/bin/strategy.rs:133-136`: the limit "keeps the book bounded
  regardless". It bounds the position the strategy intends. With passive orders a buy
  that rests makes room for sells that fill.
- `same_side_spaced`. `src/strategy.rs:58` and `src/bin/strategy.rs:116`: the cooldown is
  the minimum number of ticks between two orders of one side. It is counted from the last
  trade of either side: after a flip the first side may trade again at once.
- `ticks_unread`. `README.md:154` describes `WAIT_MODE=waitset` as fed by an event
  after each tick. The exchange sends it only with `MARKET_NOTIFY=1`, which is off by
  default: the strategy blocks once and stays blocked.
- `stop_tears_down`. `src/bin/control_server.rs:15`: the server tears the pipeline down
  on `/stop`. A pipeline under launch is not in the Hub yet: a stop pressed during the
  launch kills nothing, and the pipeline comes up on a page that shows it stopped.

In four places a passing property states what the code does where a comment or a
document says something else; the condition or the exemption that makes the property
hold is the disagreement.

- `RunEnds`: a studio run ends by itself. `Makefile:60` says "studio stays unbounded
  regardless", and `src/bin/strategy.rs:140-142` that running until Ctrl-C is right for
  the live studio demo. The control server starts every studio strategy with
  `MAX_ORDERS=300` and `MAX_SECONDS=30`, as `README.md:24` has it, and the page stops the
  run at its summary.
- `RunEnds` again, by what it excepts. `src/bin/control_server.rs:37-39`: the run ends
  "so the UI never hangs 'running' forever". The page learns of an end by the strategy's
  summary only. A launch that fails, which the page takes for success, and a stage that
  fails later leave it running until somebody presses Stop: without `failure`, TLC finds
  `shown ~> ~shown` violated.
- `ShutdownDrains`: at the return of `shutdown()` what a window still had in its buffer
  is unprinted, exactly that, and will not be printed. `Makefile:139` says that the
  windows "also print on shutdown". A window is flushed from `push` alone, has no `Drop`,
  and no stage calls `shutdown()`.
- `AcceptsWellFormed`: a graph is accepted if it is well formed, and also if its only
  fault is in the inputs of an indicator or a data source. `src/compiler.rs:44-47` and
  `README.md:201` say that surplus inputs are rejected rather than silently dropped; these
  are dropped. Without the exemption TLC finds the property violated by a graph of the
  run.

`ReportsComplete` also has an exception worth knowing: when a strategy order fills
against another strategy order only the taker is reported, so the maker's side is
counted apart (`selfMade`). And two that are not stated anywhere, but follow from what
the runs say of programs: a graph that nests deeper than 32 cells is accepted and trades
on wrong operands (`RunsTheGraph` is about programs that fit), and one with a reversion
window of 0 is accepted and panics at the first tick.

## 5. What is proved

Eight modules of theorems, for every value of the constants that meets the assumptions
named in the modules that declare them. TLC checked each inductive invariant on the run
of its module before it was proved.

### The order book

`OrderBookProofs` proves, for every set of ids, every range of prices and every quantity
bound:

| Theorem | Statement |
|---|---|
| `BookInvariantHolds` | `BookSpec => []BookInvariant` |
| `TypeCorrect` | `BookSpec => []BookTypeOK` |
| `NeverCrossed` | `BookSpec => []BookUncrossed` |
| `IndexExact` | `BookSpec => []LocateExact` |
| `LevelsInhabited` | `BookSpec => []NoEmptyLevels` |
| `FillsExact` | `BookSpec => []FillsAccount` |
| `CachedSizes` | `BookSpec => []CachedSizeExact` |
| `SubmitSound` | `BookSpec => []SubmitInProgress` |
| `PositionsOnlyClear` | `BookSpec => QueuePosition` |
| `ImplementsPriority` | `BookSpec => PTP!Init /\ [][PTP!Next]_PTP!vars` |

They assume `PricesAssumption` (the ends of the price range are integers),
`MaxQtyAssumption` (a positive quantity bound), `NoneAssumption` and `NoneIsNoOrder`
(`None` is neither a price nor an order); nothing of `OrderIds`, which may be infinite.

The argument. `BookInvariant` is `BookStructure` (types, uncrossed, index, levels, cached
sizes, and `SubmitInProgress` but for its half about fills) with `FillsAccount` and
`NothingBetter`. It is split so because the exchange calls the book with a vector that
holds the fills of earlier calls: the structure is kept whatever vector is passed, the
account of the fills only by a call that starts with an empty one. Each part leans on
others:

- `BookUncrossed` is at risk only when a remainder rests. The exit is taken when no
  best price of the other side is acceptable (`NothingToHit`); to conclude that no
  price at all is acceptable one needs that a side with a level has a best price.
  That is `BestExists`, from `LeastNatural` and the finite range of prices;
  `NothingAcceptable` combines them.
- `FillsAccount` says that prices only get worse along a sweep. For the step that
  adds a fill one needs that the level consumed is no better than the last fill:
  the level is the best one and nothing better than the last fill is left on the
  other side (`NothingBetter`).
- `LocateExact` has an exception for the level being consumed: between a pop and
  `LeaveLevel` the popped makers are in `cleared` and still in the index. To leave
  the level one needs that they are not in the queue, its fourth conjunct, which in
  turn needs that no id is twice in a queue (`NoRepeats`) and that an order is in one
  place. That a resting order's id is new to its queue is `~IsResting(taker.id)`, in
  `SubmitInProgress` again.
- `NoEmptyLevels` gives the witness that a maker is at the front of the level being
  entered, and keeps keys and queues in step for `LocateExact`.
- `CachedSizeExact` follows the sum of a queue through a fill that reduces the front
  order, a pop, a rest at the back and a removal from the middle: a lemma of `Sums` each.
  That the cached total never wraps below zero is a consequence, the sum being one of
  naturals.

`PositionsOnlyClear` is an action property: what is ahead of a resting order, in its
queue, only ever shrinks. `ImplementsPriority` has a lemma per step: `Submit` is an
`Arrive`, `FillFront` a `Trade`, `ReturnFilled` and `RejectRemainder` a `Leave`,
`RestRemainder` a `Rest`, `CancelResting` a `Withdraw`, and the rest stutter (entering
and leaving a level, a refused cancel). `FrontIsFirst` is the heart: nobody precedes the
order at the front of the best level, because a better price would have an order behind
it and hence a level (`NoEmptyLevels`), and a pair in which the front order comes second
would be in its own queue (`LocateExact`: no id is in two places). `NobodyMatches` is
its counterpart for a remainder that rests or leaves. `OneOut`, `OneReduced` and
`OneMore` say what an operation on one queue does to its orders and pairs, and
`BookSplits` with `ElsewhereApart` keeps the other queues out of it. The fairness in
`PTP!Spec` stays with TLC.

`Sums` holds what these proofs need of a sum along a sequence, which the library defines
as a fold by a recursive function. The library's induction theorems take an operator as a
parameter, which no installed prover can instantiate; `NaturalsIn` is induction over a
*set* of naturals, first-order, from the well-foundedness of `<`. From it follow that the
recursive function exists and is unique (`FoldExists`, `FoldUnique`), that a sum unfolds
at any member (`SumRemove`, `SumAdd`), and what appending, updating or removing an entry
does to the sum of a sequence.

### The exchange

`ExchangeProofs` proves of the exchange process under any client (`ExchangeClient`), for
any quotes, sizes, number of rounds and queue capacity:

| Theorem | Statement |
|---|---|
| `ExchangeInvariantHolds` | `Spec => []ExchangeInvariant` |
| `BookStaysWhole` | `Spec => [](BookUncrossed /\ LocateExact /\ NoEmptyLevels /\ CachedSizeExact)` |
| `ProcessTypeCorrect` | `Spec => []TypeOK` |
| `LiveTracksBook` | `Spec => []LiveExact` |
| `TopPublished` | `Spec => []TopIsCurrent` |
| `AllFillsReported` | `Spec => []ReportsComplete` |
| `NothingBeyondOrdered` | `Spec => []ExecutedWithinOrdered` |

They assume the book's assumptions, those of `Exchange` (synthetic ids are ids, quotes are
uncrossed prices, sizes are positive and within the bound), `CapacityAssumption` and
`ClientAssumption` (ordered quantities are within the bound; there is a price).

The lemmas are in `ExchangeLemmas`, and know nothing of the client. A step is a `Turn`:
a step of the loop, or one `Outside` it, which may put a command in the queue and take
from the queues the loop publishes to. The same lemmas serve the pipeline, where the
others are the strategy and the execution process. The parts of the invariant:

- `BookStructure`, kept because every action of the loop is a call into the book, a
  step of a running call, or leaves the book alone (`Steps`, `StructureKept`). This is
  where the book's own theorems are composed with the loop.
- `ControlHolds`: at which point of the loop a call may be running, and whose fills are
  in the reused vector, a strategy order's or a synthetic one's.
- `ReportsHold`: what was executed for an order is what it made for another strategy
  order, what was reported, and what is *owed*: the fills after `sent` in the vector that
  are due to it (`Due`: as their taker, or as the maker of a synthetic taker's). Each
  book step adds to what is executed and to what is owed, each publishing step moves from
  one to the other, and a point where nothing is owed is where `ReportsComplete` says
  they agree. `PrimingHolds` is needed because the fills of the priming rounds are
  dropped: no strategy order is in the book yet.
- `LiveHolds`: a resting synthetic order is in `live`, the one being submitted included,
  and a `cross` is a market order, so that its id need not be.
- `TopHolds`: at the end of a turn the last published top is the book's.
- `Within(ordered)`: what is *committed* under an id is never more than was ordered under
  it, where committed is what was executed, what the running submit has left
  (`Running`), what the second half of a modify is about to submit (`Returning`), what is
  in the queue of commands (`Asked`), and what rests. A cancel only lowers it, a modify
  moves the resting quantity out before the new one is submitted, a queue that loses a
  command loses a commitment.

### The pipeline

`PipelineProofs` proves of the three processes together, for every set of settings,
queue capacity and order quantity:

| Theorem | Statement |
|---|---|
| `PipelineInvariantHolds` | `Spec => []PipelineInvariant` |
| `StagesTypeCorrect` | `Spec => []TypeOK` |
| `NoFillInvented` | `Spec => []FillsConserved` |
| `PositionIsBooked` | `Spec => []HeldIsBooked` |
| `TerminalEndsMarketOrder` | `Spec => []MarketTerminalIsFinal` |
| `OrdersAreFresh` | `Spec => []FreshOrders` |

They assume besides `PipelineAssumption` (the strategy has ids for all its orders) and
`OrderAssumption`: the order quantity is within the bound, and 0 is among the prices. The
second is a fact of the code: an empty side of the book is published as price 0, and a
passive order may be priced from it. The argument:

- `FillsConserved` is `AccountsHold` (what was reported of an order is booked, skipped,
  lost or in flight), which every send into a full queue, every booking and every skip
  moves within, with `ReportsHold` and `Within(Placed)`.
- `FreshOrders` needs that an order at the head of the exchange's queue has executed
  nothing and rests nowhere. Ids are new when they are sent, but the queue may be long
  and may lose samples; `Within(Placed)` bounds everything committed under an id by one
  order's quantity, so while the order is in the queue nothing of it is executed or
  rests. A maker that was popped but is still in the index (`cleared`) would still be
  found by `is_resting`; `ClearedHolds` says that it has executed, so it is not the
  arriving order.
- `HeldIsBooked` needs that a context's side is that of the order sent (`ContextHolds`).
- `MarketTerminalIsFinal` holds of market orders only, the passive run violates it. A
  market order never rests, so it is never a maker (`NeverMakes`, which needs that no
  strategy order is); what a running one has left is what it has not executed, so only
  the last of its fills leaves nothing (`LeavesNothing`); hence when a terminal report
  goes out the whole order is reported, and no report of it can follow in the queue or
  after it was booked (`EndsIt`).

### The deciding process

`StrategyProofs` proves of `StrategyRunner`, which runs the composite strategy or a
compiled program, for every configuration, any prices and any graphs:

| Theorem | Statement |
|---|---|
| `CooldownHolds`, `WantsAreTraded` | `CompositeSpec => []CooldownKept`, `[]WantedIsTraded` |
| `BuffersHoldLatest` | `CompositeSpec => []BuffersInv` |
| `SumsFollowWindow` | `CompositeSpec => []SumsInv` |
| `SignalsAreExact` | `CompositeSpec => []SignalsExact` |
| `RunsComposite` | `Spec => CompositeSpec` |
| `CooldownHoldsInProcess`, `WantsAreTradedInProcess`, `SignalsAreExactInProcess` | the three for `Spec` |
| `ProcessTypeCorrect` | `Spec => []TypeOK` |
| `CompilesBalanced` | `Spec => []ProgramBalanced` |
| `AcceptsExactly` | `Spec => []AcceptsWellFormed` |
| `RunsWhatTheGraphMeans` | `Spec => []RunsTheGraph` |

`AcceptsExactly` is about both halves of the property: what is well formed is accepted, and
what is accepted is well formed but for the inputs that nothing reads.

They assume `CooldownAssumption`, `ConfigAssumption` (periods and lookback are naturals,
the window is positive), `LimitAssumption`, `SourcesAssumption` and `TicksAssumption`
(what graphs and prices are made of).

The composite strategy. `CooldownInv` ties the two variables the code has, the last
trade's tick and side, to the history (`LastTradeKnown`: at that tick that side was
traded, and nothing since), and says that a wanted side that was held back had been
traded less than a cooldown before (`DelaysOnly`). `BuffersInv` says that the momentum
buffer and the window are the last entries of the history, by position; `SumsInv` that
the two running sums are those of the window, the one that leaves subtracted when the
one that enters is added (`HeadLeaves`). So neither sum ever drifts, and both signals
are what they are defined to be over all prices. `RunsComposite` is a refinement: a tick
without a graph is an `OnPrice`, every other step stutters.

The compiler. `emit_node` is a function built by recursion on how deep its calls may
nest; `Recurs`, `RecursionExists`, `RecursionUnique` and `RecursionTyped` are about such
functions in general, and everything below is an induction on the depth. Two things are
carried through it:

- `Grows`: a step that succeeds appends to the program code that finds its operands and
  leaves one value more than was there (`Sound`: `Found`, and `Numbered` and `Placed`, by
  which each indicator has the state whose number is its place among the indicators). A
  gate needs an induction over its inputs within the one on the depth (`GateGrows`).
  `CompiledBalanced` concludes that between two terminals the stack is empty.
- `Admits`: for which sets of nodes being emitted, and which node, the call succeeds. It
  is a set of pairs that grows with the depth (`Layers`), and depends on nothing else of
  the lowerer. That what is let through is well formed, but for the inputs nothing reads,
  is because the nodes let through are closed under reading, and a node on a cycle would
  be on the stack when met again (`LetThroughIsProper`); that what is well formed is let
  through is because a path of calls that meets no node twice is no longer than there are
  nodes (`ProperIsLetThrough`).

The VM. `RunsTheGraph` compares three things that share no code: what the program does,
price by price, with rings, running sums and a stack; what the graph means for all prices
so far (`Values`, `Meaning`); and the compiler between them. The inductive invariant is
`VmFollows`: the program is the one the graph compiles to, and its states are those of the
prices so far (`TracksAll`), unless it has an instruction that no machine survives, a
reversion over no prices, which panics at the first tick. The argument has three parts:

- *What is remembered.* `Tracks` says of each indicator what its state is after any
  prices: the average after all of them; a ring that has the latest prices, the k-th
  latest found `k` places behind the head around the end of the array (`RingHolds`,
  `RingAdvances`, `OldestOfRing`); for a reversion also that its two sums are those of
  the ring's prices. The last is the lemma the composite strategy's window needed too.
  `StateReads` concludes that what an indicator pushes is what it is defined to be.
- *What the code of a node does.* In a program that finds its operands (`Found`, from
  `CompiledBalanced`) and fits the stack (`Fits`), no push is dropped and no pop comes up
  empty, so between the lowerer before a node and the one after it the stack gains the
  node's value and the decision is left alone (`Yields`). It is proved for every emitter
  and by induction on the depth of the calls of `emit_node`, in step with the passes of
  `Values` (`EmitNodeMeans`); a gate needs a second induction, over its inputs, that the
  values folded so far are those of the first inputs (`UptoGoesOn`, `GateYields`).
- *What is decided.* A terminal pops its value and decides if it is positive
  (`TerminalDecides`), so after all of them the decision is that of the last that fires,
  as `Meaning` has it (`CompiledMeans`).

Programs that do not fit are outside the property, and the compiler lets them through: see
the end of section 4.

### The latency windows

`LatencyWindowProofs` proves, for any set of windows, warm-up and buffer size:

| Theorem | Statement |
|---|---|
| `TypeCorrect` | `LatencySpec => []TypeOK` |
| `SamplesAreAccounted` | `LatencySpec => []SamplesAccounted` |
| `DrainsAtShutdown` | `LatencySpec => ShutdownDrains` |

They assume `LimitsAssumption` and `NoneAssumption` (`None` is not a batch). The argument:
`NothingLost` is inductive with the types; the cases that matter are the flush, where the
buffer with its new sample becomes the last batch of the channel, and the receive, where
the first becomes the thread's (`SentAppend`, `SentTail`). `OrderInv` strengthens
`ReportedInOrder`: within a window everything printed comes before the batch being
printed, that before the channel's batches in turn, and those before the buffer.
`EndedClean` says that a thread that ended left an empty channel and no sender, so at the
return of `shutdown` nothing is underway. Then what is printed and what is in the buffer
make up all samples after the warm-up, and being in order they share none (`InOrder`):
what is unprinted is exactly the buffer.

### The console and its server

`ConsoleProofs` proves of the control server and its page, for any sets of runs and
stops:

| Theorem | Statement |
|---|---|
| `ConsoleInvariantHolds` | `Spec => []ConsoleInvariant` |
| `LockDiscipline` | `Spec => []TypeOK` |
| `StagesWithinReach` | `Spec => []WithinReach` |
| `StartsClean` | `Spec => []CleanStart` |
| `StopIsClean` | `Spec => StopStops` |

They assume `RequestsAssumption`: runs are natural numbers, no request is both a run
and a stop, and `None` is neither. The argument: `WithinReach` says that a stage of a
stored pipeline is alive only while some pipeline is in the Hub or being killed. It
survives a store that overwrites another's handles, since the Hub is not empty then,
and a kill, since the sweep empties the machine before the lock is released. So a stop
that finds the Hub empty, and is alone, finds only stages of failed launches, which is
the second half of `Undisturbed`; `StopStops` follows when it answers, since nothing but
`StopDone` ends its thread. `CleanStart` rests on the first half of `Undisturbed`: nobody
is active beside a request that is alone, and its own sweep emptied the machine.

### Only model-checked

- Everything under fairness, which is out of the prover's reach: `SubmitReturns`,
  `CommandsHandled`, `TicksAreRead`, `FillsSettle`, `ShutdownReturns`, `RequestsAnswered`,
  `RunEnds`, and the fairness half of `ImplementsPriceTimePriority`.

## 6. Not modelled

Within the modelled parts: fees, timestamps and the book snapshot (which nothing in
the repository consumes); cash and P&L, which are further sums over the reports that
move the position; SIGINT; the order event, which only shortens a timed wait; iceoryx2's
history for late joiners. `size_at`, `bid_level_count` and `ask_level_count` only read.

Of the strategy: f64 rounding, the text of the JSON graph (a graph is what `parse` makes
of it), the byte encoding of a program and its disassembly. Of the latency windows:
sorting, percentiles, labels and the calibration of `rdtsc`.

Of the control server and its page: the parameters, the pages served, the other log
lines, `/events` subscriptions and their loss, shared-memory files, a child's stderr, a
second browser.

Not at all: the TSC calibration, which is f64 arithmetic around one calibration at first
use (`refresh` and `start_auto_refresh`, which could interleave, are called by nothing in
the repository); runtime setup, which is system calls; the transport benchmark and the
build files, which have no state of the system's own.

## 7. Plan

1. The event stream of the console can be allowed to drop, and a second page to connect.
2. Larger graphs for the compiler, should the time of the run allow.
