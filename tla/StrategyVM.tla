----------------------------- MODULE StrategyVM -----------------------------
(***************************************************************************)
(* The interpreter: src/src/bytecode.rs.  A program is a sequence of       *)
(* instructions, run once per price over a stack of StackCap cells; each   *)
(* indicator instruction has a state of its own, a ring buffer that lives  *)
(* from tick to tick.                                                      *)
(*                                                                         *)
(* See Readings for the arithmetic.  Left out: the byte encoding and the   *)
(* disassembly, and the value a decision carries, which is only printed.   *)
(***************************************************************************)
EXTENDS Readings, SequencesExt

CONSTANT StackCap   \* STACK_CAP

ASSUME StackAssumption == StackCap \in Nat \ {0}

\* One instruction.  n: the period, lookback or window of an indicator, or the
\* value, in tenths, of a constant; slot: where an indicator's state is.
Op(name, n, slot) == [op |-> name, n |-> n, slot |-> slot]
Plain(name) == Op(name, 0, 0)
Const(v) == Op("const", v, 0)

Indicators  == {"ema", "momentum", "reversion"}
Comparisons == {"gt", "lt", "ge", "le", "eq"}
Gates       == {"and", "or"}
OpNames     == {"price", "const", "not", "buy", "sell"} \cup Indicators \cup Comparisons \cup Gates

Instructions == [op : OpNames, n : Int, slot : Nat]

\* What is kept of a sequence, in its order.
Filtered(keep, q) ==
  LET kept[i \in 0..Len(q)] ==
        IF i = 0 THEN <<>> ELSE IF keep[i] THEN Append(kept[i - 1], q[i]) ELSE kept[i - 1]
  IN  kept[Len(q)]

----------------------------------------------------------------------------
(* Indicator states.  A ring is [buf, filled, head]: head is the cell that *)
(* is written next.                                                        *)

Ring(size) == [buf |-> [i \in 0..(size - 1) |-> 0], filled |-> 0, head |-> 0, sum |-> 0, sumSq |-> 0]

\* IndState::for_op
StateFor(op) ==
  CASE op.op = "ema"       -> EmaStart
    [] op.op = "momentum"  -> Ring(op.n + 1)
    [] op.op = "reversion" -> Ring(op.n)

Stateful(prog) == Filtered([i \in DOMAIN prog |-> prog[i].op \in Indicators], prog)

\* Vm::new: one state per indicator, in program order.
NewStates(prog) == [i \in DOMAIN Stateful(prog) |-> StateFor(Stateful(prog)[i])]

Advanced(ring, size, price) ==
  [ring EXCEPT !.buf[ring.head] = price,
               !.head = (@ + 1) % size,
               !.filled = IF @ < size THEN @ + 1 ELSE @]

\* Variant: the newest price is taken for the oldest.
NewestPrice(ring, size) == ring.buf[(ring.head + size - 1) % size]

\* The cell about to be overwritten.
OldestPrice(ring, size) == ring.buf[ring.head]

\* momentum_update: a ring of lookback + 1 prices.
MomentumNext(ring, lookback, price) == Advanced(ring, lookback + 1, price)

MomentumValue(ring, lookback, price) ==
  IF ring.filled <= lookback THEN 0
  ELSE MomentumReading(price, OldestPrice(ring, lookback + 1))

\* reversion_update: what is about to be overwritten leaves the sums.
ReversionNext(ring, size, price) ==
  LET old == IF ring.filled = size THEN OldestPrice(ring, size) ELSE 0
  IN  [Advanced(ring, size, price) EXCEPT !.sum = @ - old + price,
                                          !.sumSq = @ - old * old + price * price]

ReversionValue(ring, size, price) ==
  IF ring.filled < size THEN 0 ELSE ReversionReading(price, size, ring.sum, ring.sumSq)

\* An indicator's next state, and the value it then pushes.
StateNext(op, state, price) ==
  CASE op.op = "ema"       -> EmaNext(state, op.n, price)
    [] op.op = "momentum"  -> MomentumNext(state, op.n, price)
    [] op.op = "reversion" -> ReversionNext(state, op.n, price)

StateValue(op, state, price) ==
  CASE op.op = "ema"       -> state.value
    [] op.op = "momentum"  -> MomentumValue(state, op.n, price)
    [] op.op = "reversion" -> ReversionValue(state, op.n, price)

----------------------------------------------------------------------------
(* The machine during a run: [stack, states, decision, panicked].          *)

\* A push beyond the last cell is dropped; a pop from an empty stack gives 0.
Push(stack, v) == IF Len(stack) < StackCap THEN Append(stack, v) ELSE stack
Top(stack)     == IF stack = <<>> THEN 0 ELSE Last(stack)
Popped(stack)  == IF stack = <<>> THEN stack ELSE Front(stack)

Bool(b) == IF b THEN One ELSE 0

\* a was pushed before b.
Combine(name, a, b) ==
  Bool(CASE name = "gt" -> a > b
         [] name = "lt" -> a < b
         [] name = "ge" -> a >= b
         [] name = "le" -> a <= b
         [] name = "eq" -> a = b
         [] name = "and" -> a > 0 /\ b > 0
         [] name = "or" -> a > 0 \/ b > 0)

Binary(m, name) ==
  LET rest == Popped(m.stack)
  IN  [m EXCEPT !.stack = Push(Popped(rest), Combine(name, Top(rest), Top(m.stack)))]

\* A reversion over no prices reads a cell of an empty buffer, and panics.
Indicator(m, op, price) ==
  IF op.op = "reversion" /\ op.n = 0 THEN [m EXCEPT !.panicked = TRUE]
  ELSE LET state == StateNext(op, m.states[op.slot + 1], price)
       IN  [m EXCEPT !.states[op.slot + 1] = state, !.stack = Push(@, StateValue(op, state, price))]

\* A terminal whose condition holds decides, over an earlier one too.
Terminal(m, side) ==
  [m EXCEPT !.stack = Popped(@), !.decision = IF Top(m.stack) > 0 THEN side ELSE @]

Execute(m, op, price) ==
  CASE op.op = "price"       -> [m EXCEPT !.stack = Push(@, One * price)]
    [] op.op = "const"       -> [m EXCEPT !.stack = Push(@, op.n)]
    [] op.op \in Indicators  -> Indicator(m, op, price)
    [] op.op \in Comparisons \cup Gates -> Binary(m, op.op)
    [] op.op = "not"         -> [m EXCEPT !.stack = Push(Popped(@), Bool(Top(m.stack) <= 0))]
    [] op.op \in {"buy", "sell"} -> Terminal(m, op.op)

\* Vm::run: the whole program, once, for one price.
Run(prog, states, price) ==
  LET start == [stack |-> <<>>, states |-> states, decision |-> "none", panicked |-> FALSE]
      after[i \in 0..Len(prog)] ==
        IF i = 0 THEN start
        ELSE LET m == after[i - 1]
             IN  IF m.panicked THEN m ELSE Execute(m, prog[i], price)
  IN  after[Len(prog)]

----------------------------------------------------------------------------
(* What a program does to the depth of the stack.                          *)

Operands(op) ==
  IF op.op \in Comparisons \cup Gates THEN 2 ELSE IF op.op \in {"not", "buy", "sell"} THEN 1 ELSE 0

Results(op) == IF op.op \in {"buy", "sell"} THEN 0 ELSE 1

\* The depth after each instruction, were the stack without a bound or a bottom.
Depths(prog) ==
  LET d[i \in 0..Len(prog)] == IF i = 0 THEN 0 ELSE d[i - 1] - Operands(prog[i]) + Results(prog[i])
  IN  d

Fits(prog) == \A i \in DOMAIN prog : Depths(prog)[i] <= StackCap
=============================================================================
