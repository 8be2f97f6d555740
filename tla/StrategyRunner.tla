--------------------------- MODULE StrategyRunner ---------------------------
(***************************************************************************)
(* How the strategy process decides: src/src/bin/strategy.rs, lines 179    *)
(* to 214 and 281 to 324.  At the start it reads a graph (STRATEGY_JSON)   *)
(* and compiles it; per tick it runs the program, or the composite         *)
(* strategy when there is none, and checks the position limit.             *)
(*                                                                         *)
(* The connections of the graph are chosen as they are read.               *)
(***************************************************************************)
EXTENDS Compiler, CompositeStrategy, PositionLimit

CONSTANTS
  Sources,     \* the graphs to start from: [nodes, connections, wires, extra,
               \* ticks], up to `extra` connections being added out of `wires`,
               \* and the program run for up to `ticks` ticks
  TickPrices,  \* prices of a tick
  FixedTicks   \* bound: ticks of a run of the composite strategy

ASSUME SourcesAssumption ==
  Sources \subseteq [nodes : Seq(Nodes), connections : Seq(STRING \X STRING),
                     wires : SUBSET (STRING \X STRING), extra : Nat, ticks : Nat]
ASSUME TicksAssumption == TickPrices \subseteq Nat /\ FixedTicks \in Nat

VARIABLES
  phase,      \* "read", "run" or "panicked"
  source,     \* what the graph is made from
  graph,      \* the GraphSpec; an empty one when the composite strategy runs
  prog,       \* the Vm's program, <<>> for no Vm
  states,     \* the Vm's indicator states
  position,   \* net units the strategy intends to hold
  feed,       \* history: the prices so far
  log         \* history, per tick: the side to trade, and whether the limit let
              \* the order out

graphVars  == <<source, graph, prog>>
runVars    == <<states, position, feed, log>>
runnerVars == <<phase, graphVars, compositeVars, runVars>>

NoSource == [nodes |-> <<>>, connections |-> <<>>, wires |-> {}, extra |-> 0, ticks |-> FixedTicks]

GraphOf(s) == [nodes |-> s.nodes, connections |-> s.connections]

Init ==
  /\ phase = "read"
  /\ source \in Sources /\ graph = GraphOf(source)
  /\ prog = <<>> /\ states = <<>>
  /\ CompositeInit
  /\ position = 0
  /\ feed = <<>> /\ log = <<>>

ReadConnection(c) ==
  /\ phase = "read"
  /\ Len(graph.connections) < Len(source.connections) + source.extra
  /\ graph' = [graph EXCEPT !.connections = Append(@, c)]
  /\ UNCHANGED <<phase, source, prog, compositeVars, runVars>>

UseFixedStrategy ==
  /\ prog' = <<>> /\ states' = <<>>
  /\ source' = NoSource /\ graph' = GraphOf(NoSource)

\* No STRATEGY_JSON, a file that cannot be read, or one that cannot be parsed.
NoGraph ==
  /\ phase = "read"
  /\ UseFixedStrategy
  /\ phase' = "run"
  /\ UNCHANGED <<compositeVars, position, feed, log>>

\* A graph that does not compile, or compiles to nothing, is reported and left.
LoadGraph ==
  /\ phase = "read"
  /\ LET lo == Compile(graph)
     IN  IF lo.err # NoError \/ lo.prog = <<>> THEN UseFixedStrategy
         ELSE /\ prog' = lo.prog /\ states' = NewStates(lo.prog)
              /\ UNCHANGED <<source, graph>>
  /\ phase' = "run"
  /\ UNCHANGED <<compositeVars, position, feed, log>>

\* Variant: the position is checked before the order and not after it.
SentWithin(side) == side # "none" /\ WithinLimit(position)

\* The limit suppresses an order that would pass it.
Sent(side) == side # "none" /\ WithinLimit(position + Delta(side))

Trade(side) ==
  /\ position' = IF Sent(side) THEN position + Delta(side) ELSE position
  /\ log' = Append(log, [side |-> side, sent |-> Sent(side)])

TickComes(price) ==
  /\ phase = "run"
  /\ Len(feed) < source.ticks
  /\ feed' = Append(feed, price)
  /\ UNCHANGED graphVars

RunFixed(price) ==
  /\ prog = <<>>
  /\ TickComes(price)
  /\ OnPrice(price)
  /\ Trade(Last(past').side)
  /\ UNCHANGED <<phase, states>>

RunVm(price) ==
  /\ prog # <<>>
  /\ TickComes(price)
  /\ LET m == Run(prog, states, price)
     IN  /\ states' = m.states
         /\ IF m.panicked
            THEN phase' = "panicked" /\ UNCHANGED <<position, log>>
            ELSE Trade(m.decision) /\ UNCHANGED phase
  /\ UNCHANGED compositeVars

Next ==
  \/ \E c \in source.wires : ReadConnection(c)
  \/ NoGraph
  \/ LoadGraph
  \/ \E price \in TickPrices : RunFixed(price) \/ RunVm(price)

Spec == Init /\ [][Next]_runnerVars

----------------------------------------------------------------------------
\* Every variable has its type; the buffers never outgrow their capacity, the
\* strategy traded at a tick it has seen, and its position is within the limit.
TypeOK ==
  /\ phase \in {"read", "run", "panicked"}
  /\ source \in Sources \cup {NoSource}
  /\ momentumBuf \in Seq(Nat) /\ Len(momentumBuf) <= Lookback + 1
  /\ window \in Seq(Nat) /\ Len(window) <= Window
  /\ windowSum \in Nat /\ windowSumSq \in Nat
  /\ lastSide \in Sides \cup {"none"} /\ lastTradeTick \in 0..ticksSeen
  /\ lastTradeTick = 0 <=> lastSide = "none"
  /\ position \in Int /\ WithinLimit(position)
  /\ feed \in Seq(TickPrices) /\ Len(feed) - Len(log) \in {0, IF phase = "panicked" THEN 1 ELSE 0}

\* compile accepts what is well formed behind its signals, a node that is merely
\* used twice included, and beyond that exactly the graphs that have surplus inputs
\* at indicators or data sources: those it drops, where compiler.rs:44-47 has it
\* "reject rather than silently drop inputs", as README.md:201 does.
AcceptsWellFormed ==
  phase = "read" =>
    /\ WellFormed(graph) => Compile(graph).err = NoError
    /\ Compile(graph).err = NoError <=> WellFormedBut(graph, Unread)

\* The code finds its operands on the stack, leaves nothing on it at the end of
\* a signal, and numbers the indicator states in program order.
ProgramBalanced ==
  phase = "read" =>
    LET lo    == Compile(graph)
        depth == Depths(lo.prog)
        slots == Stateful(lo.prog)
    IN  lo.err = NoError =>
          /\ \A i \in DOMAIN lo.prog :
               /\ Operands(lo.prog[i]) <= depth[i - 1]
               /\ lo.prog[i].op \in Sides => depth[i] = 0
          /\ depth[Len(lo.prog)] = 0
          /\ \A i \in DOMAIN slots : slots[i].slot = i - 1

\* What the program decides at a tick is what the graph means for the prices so
\* far, if the stack is deep enough; it panics only over an empty window.
RunsTheGraph ==
  prog # <<>> =>
    /\ Fits(prog) /\ log # <<>> => Last(log).side = Meaning(graph, SubSeq(feed, 1, Len(log)))
    /\ phase = "panicked" => \E i \in DOMAIN prog : prog[i].op = "reversion" /\ prog[i].n = 0

----------------------------------------------------------------------------
(* What a comment says, and the code does not do. *)

\* strategy.rs:58: "Minimum ticks between two orders in the same direction", and
\* bin/strategy.rs:116: "Minimum ticks between two same-side orders".
SameSideSpaced ==
  \A i, j \in DOMAIN log :
    i < j /\ log[i].sent /\ log[j].sent /\ log[i].side = log[j].side => j - i >= Cooldown
=============================================================================
