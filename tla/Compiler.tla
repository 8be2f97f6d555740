------------------------------ MODULE Compiler ------------------------------
(***************************************************************************)
(* The graph compiler: src/src/compiler.rs.  A graph is a sequence of      *)
(* nodes and a sequence of connections; each buy or sell node becomes the  *)
(* code of its input, inputs before the node that consumes them, and then  *)
(* the terminal instruction.                                               *)
(*                                                                         *)
(* Left out: the JSON text, so that a graph is what parse has made of it,  *)
(* with the defaults of missing properties filled in.                      *)
(***************************************************************************)
EXTENDS StrategyVM

\* n: the numeric property of the type (period, lookback, window, value); cmp:
\* the comparison of a condition.
Node(id, type, n, cmp) == [id |-> id, type |-> type, n |-> n, cmp |-> cmp]

Signals == {"buy_signal", "sell_signal"}
GateTypes == {"and_gate", "or_gate"}
KnownTypes == {"data_source", "ema", "momentum", "reversion", "condition"} \cup GateTypes \cup Signals

\* What parse makes of a graph.
Nodes == {node \in [id : STRING, type : STRING, n : Int, cmp : STRING] :
            /\ node.type \in Indicators => node.n \in Nat
            /\ node.type = "condition" => node.cmp \in Comparisons}

GraphSpecs == [nodes : Seq(Nodes), connections : Seq(STRING \X STRING)]

Ids(g) == {g.nodes[i].id : i \in DOMAIN g.nodes}

\* by_id: of two nodes with one id, the later.
NodeOf(g, id) == g.nodes[Max({i \in DOMAIN g.nodes : g.nodes[i].id = id})]

\* incoming: the sources wired into a node, in connection order.
Inputs(g, id) ==
  LET wires == g.connections
      wired == Filtered([i \in DOMAIN wires |-> wires[i][2] = id], wires)
  IN  [i \in DOMAIN wired |-> wired[i][1]]

----------------------------------------------------------------------------
(* Lowerer: [prog, nextSlot, onStack, err].  Every step leaves a lowerer    *)
(* with an error as it is: the error is returned.                          *)

NoError == "none"

Errors == {"unknown_node", "unknown_type", "too_many_inputs", "cycle"}

Lowerers(g) == [prog : Seq(Instructions), nextSlot : Nat, onStack : SUBSET Ids(g),
                err : {NoError} \cup Errors]

Start == [prog |-> <<>>, nextSlot |-> 0, onStack |-> {}, err |-> NoError]

Fail(lo, err) == [lo EXCEPT !.err = err]

Emit(lo, op) == IF lo.err # NoError THEN lo ELSE [lo EXCEPT !.prog = Append(@, op)]

\* An indicator reads the price itself, and nothing that is wired into it.
EmitIndicator(lo, node) ==
  [Emit(lo, Op(node.type, node.n, lo.nextSlot)) EXCEPT !.nextSlot = @ + 1]

\* The one input of a condition or a signal; 0 when there is none.  Here and
\* below, emit[id][lo] is what emit_node, which calls these, makes of a lowerer.
EmitUnaryInput(emit, g, lo, id) ==
  LET inputs == Inputs(g, id)
  IN  IF Len(inputs) > 1 THEN Fail(lo, "too_many_inputs")
      ELSE IF inputs = <<>> THEN Emit(lo, Const(0))
      ELSE emit[inputs[1]][lo]

EmitCondition(emit, g, lo, node) ==
  Emit(Emit(EmitUnaryInput(emit, g, lo, node.id), Const(node.n)), Plain(node.cmp))

FoldOf(node) == Plain(IF node.type = "and_gate" THEN "and" ELSE "or")

\* Variant: the fold is emitted after the first input too.
EmitGateEach(emit, g, lo, node) ==
  LET inputs == Inputs(g, node.id)
      after[i \in 0..Len(inputs)] ==
        IF i = 0 THEN lo ELSE Emit(emit[inputs[i]][after[i - 1]], FoldOf(node))
  IN  after[Len(inputs)]

\* All inputs, folded two at a time; a single one is passed on.
EmitGate(emit, g, lo, node) ==
  LET inputs == Inputs(g, node.id)
      after[i \in 0..Len(inputs)] ==
        IF i = 0 THEN lo
        ELSE LET next == emit[inputs[i]][after[i - 1]]
             IN  IF i = 1 THEN next ELSE Emit(next, FoldOf(node))
  IN  IF inputs = <<>> THEN Emit(lo, Const(0)) ELSE after[Len(inputs)]

EmitBody(emit, g, lo, id) ==
  LET node == NodeOf(g, id)
  IN  CASE node.type = "data_source" -> Emit(lo, Plain("price"))
        [] node.type \in Indicators  -> EmitIndicator(lo, node)
        [] node.type = "condition"   -> EmitCondition(emit, g, lo, node)
        [] node.type \in GateTypes   -> EmitGate(emit, g, lo, node)
        [] node.type \in Signals     -> EmitUnaryInput(emit, g, lo, id)
        [] node.type \notin KnownTypes -> Fail(lo, "unknown_type")

\* Variant: a node stays on the stack of those being emitted.
NeverLeft(lo, before) == lo

\* on_stack.pop()
LeaveNode(lo, before) == [lo EXCEPT !.onStack = before.onStack]

\* The code of a node, which leaves one value on the machine's stack.  The calls
\* nest no deeper than there are nodes: one that is being emitted is a cycle.
EmitNode(g) ==
  LET emit[depth \in 0..Len(g.nodes)] ==
        [id \in Ids(g) |-> [lo \in Lowerers(g) |->
           IF lo.err # NoError THEN lo
           ELSE IF id \in lo.onStack \/ depth = 0 THEN Fail(lo, "cycle")
           ELSE LeaveNode(EmitBody(emit[depth - 1], g, [lo EXCEPT !.onStack = @ \cup {id}], id), lo)]]
  IN  emit[Len(g.nodes)]

\* One terminal per signal node, in node order.
EmitTerminal(g, lo, node) ==
  IF lo.err # NoError \/ node.type \notin Signals THEN lo
  ELSE Emit(EmitUnaryInput(EmitNode(g), g, lo, node.id),
            Plain(IF node.type = "buy_signal" THEN "buy" ELSE "sell"))

Compile(g) ==
  IF \E i \in DOMAIN g.connections : ~(Range(g.connections[i]) \subseteq Ids(g))
  THEN Fail(Start, "unknown_node")
  ELSE LET after[i \in 0..Len(g.nodes)] ==
             IF i = 0 THEN Start ELSE EmitTerminal(g, after[i - 1], g.nodes[i])
       IN  after[Len(g.nodes)]

----------------------------------------------------------------------------
(* What a graph means, with no program, stack or slot.                     *)

GateValue(type, vals) ==
  IF vals = <<>> THEN 0
  ELSE IF Len(vals) = 1 THEN vals[1]
  ELSE IF type = "and_gate" THEN Bool(\A i \in DOMAIN vals : vals[i] > 0)
  ELSE Bool(\E i \in DOMAIN vals : vals[i] > 0)

\* The value of a node after the prices of feed, given those of its inputs.
ValueFrom(g, id, feed, values) ==
  LET node   == NodeOf(g, id)
      vals   == [i \in DOMAIN Inputs(g, id) |-> values[Inputs(g, id)[i]]]
      single == IF vals = <<>> THEN 0 ELSE vals[1]
  IN  CASE node.type = "data_source" -> One * Last(feed)
        [] node.type = "ema"         -> EmaOf(feed, node.n)
        [] node.type = "momentum"    -> MomentumOf(feed, node.n)
        [] node.type = "reversion"   -> ReversionOf(feed, node.n)
        [] node.type = "condition"   -> Combine(node.cmp, single, node.n)
        [] node.type \in Signals     -> single
        [] node.type \in GateTypes   -> GateValue(node.type, vals)
        [] node.type \notin KnownTypes -> 0

\* Passes over the graph, as many as it has nodes: then every value that is not
\* made of itself is that of its inputs.
Values(g, feed) ==
  LET pass[n \in 0..Len(g.nodes)] ==
        [id \in Ids(g) |-> IF n = 0 THEN 0 ELSE ValueFrom(g, id, feed, pass[n - 1])]
  IN  pass[Len(g.nodes)]

\* The last signal, in node order, whose input holds.
Meaning(g, feed) ==
  LET values == Values(g, feed)
      firing == {i \in DOMAIN g.nodes :
                   /\ g.nodes[i].type \in Signals /\ Inputs(g, g.nodes[i].id) # <<>>
                   /\ values[Inputs(g, g.nodes[i].id)[1]] > 0}
  IN  IF firing = {} THEN "none"
      ELSE IF g.nodes[Max(firing)].type = "buy_signal" THEN "buy" ELSE "sell"

\* The inputs of a node that its value depends on: an indicator's and a data
\* source's are dropped.
Reads(g, id) ==
  IF NodeOf(g, id).type \in {"condition"} \cup GateTypes \cup Signals THEN Range(Inputs(g, id)) ELSE {}

\* All nodes that the values of S are made of: whatever has S, and with a node
\* what that reads, has them.
MadeOf(g, S) ==
  {id \in Ids(g) : \A T \in SUBSET Ids(g) :
     S \subseteq T /\ (\A t \in T : Reads(g, t) \subseteq T) => id \in T}

\* The types of nodes whose inputs emit_node never looks at.
Unread == {"data_source"} \cup Indicators

\* Known ends, and behind each signal no unknown type, no value that is made of
\* itself, and no second input but into a gate, or into an exempt type.
WellFormedBut(g, exempt) ==
  LET roots == {g.nodes[i].id : i \in {j \in DOMAIN g.nodes : g.nodes[j].type \in Signals}}
      used  == MadeOf(g, UNION {Range(Inputs(g, r)) : r \in roots})
  IN  /\ \A i \in DOMAIN g.connections : Range(g.connections[i]) \subseteq Ids(g)
      /\ \A id \in roots : Len(Inputs(g, id)) <= 1
      /\ \A id \in used :
           /\ NodeOf(g, id).type \in KnownTypes
           /\ NodeOf(g, id).type \notin GateTypes \cup exempt => Len(Inputs(g, id)) <= 1
           /\ id \notin MadeOf(g, Reads(g, id))

\* Well formed as compiler.rs:44-47 has it: a node of a single value takes one
\* input, whatever its type.
WellFormed(g) == WellFormedBut(g, {})
=============================================================================
