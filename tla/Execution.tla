----------------------------- MODULE Execution -----------------------------
(***************************************************************************)
(* The execution process: src/src/bin/execution.rs.  It reads the order    *)
(* stream to learn each order's side, and books the reports against it.    *)
(*                                                                         *)
(* Left out: cash, fees and P&L (sums over the same reports as the         *)
(* position), the latency window, SIGINT, and the printed lines.           *)
(***************************************************************************)
EXTENDS Bus, Settings

CONSTANT TrackedIds   \* ids of the orders whose reports arrive here

VARIABLES
  epc,        \* "drain" the order stream, "report", or "stopped"
  ctx,        \* order_ctx: set of [id, side]
  held,       \* position: net units held
  completed,  \* completed_orders
  booked      \* history: per order, the quantity booked, the quantity skipped
              \* for want of a context, and the terminal reports booked

executionVars == <<epc, ctx, held, completed, booked>>

ExecutionInit ==
  /\ epc = "drain" /\ ctx = {} /\ held = 0 /\ completed = 0
  /\ booked = [id \in TrackedIds |-> [qty |-> 0, skipped |-> 0, terminal |-> 0]]

\* HashMap::insert: a second command with the id would replace the first.
DrainOrder ==
  /\ epc = "drain"
  /\ toExecution # <<>>
  /\ LET c == Head(toExecution)
     IN  ctx' = {x \in ctx : x.id # c.id} \cup {[id |-> c.id, side |-> c.side]}
  /\ toExecution' = Tail(toExecution)
  /\ UNCHANGED <<epc, held, completed, booked, reports>>

Drained ==
  /\ epc = "drain"
  /\ toExecution = <<>>
  /\ epc' = "report"
  /\ UNCHANGED <<ctx, held, completed, booked, toExecution, reports>>

NoReport ==
  /\ epc = "report"
  /\ reports = <<>>
  /\ epc' = "drain"
  /\ UNCHANGED <<ctx, held, completed, booked, toExecution, reports>>

ReceiveReport ==
  /\ epc = "report"
  /\ reports # <<>>
  /\ reports' = Tail(reports)
  /\ UNCHANGED toExecution

\* Variant: an order without a context is taken for a buy.
BuyAssumed ==
  /\ ReceiveReport
  /\ LET r == Head(reports)
     IN  /\ \A x \in ctx : x.id # r.id
         /\ held' = held + r.qty
         /\ booked' = [booked EXCEPT ![r.id].qty = @ + r.qty]
  /\ epc' = "drain"
  /\ UNCHANGED <<ctx, completed>>

\* No context: the report's P&L is skipped rather than its side guessed.
SkipReport ==
  /\ ReceiveReport
  /\ LET r == Head(reports)
     IN  /\ \A x \in ctx : x.id # r.id
         /\ booked' = [booked EXCEPT ![r.id].skipped = @ + r.qty]
  /\ epc' = "drain"
  /\ UNCHANGED <<ctx, held, completed>>

Signed(side, qty) == IF side = "buy" THEN qty ELSE -qty

\* A partial fill moves the position; a terminal one also ends the order.
BookReport ==
  /\ ReceiveReport
  /\ LET r == Head(reports)
     IN  \E x \in ctx :
           /\ x.id = r.id
           /\ held' = held + Signed(x.side, r.qty)
           /\ IF r.status = 2
              THEN ctx' = ctx \ {x} /\ completed' = completed + 1
              ELSE UNCHANGED <<ctx, completed>>
           /\ booked' = [booked EXCEPT ![r.id].qty = @ + r.qty,
                                       ![r.id].terminal = @ + (IF r.status = 2 THEN 1 ELSE 0)]
  /\ epc' = IF env.maxFills # 0 /\ completed' >= env.maxFills THEN "stopped" ELSE "drain"

ExecutionNext == DrainOrder \/ Drained \/ NoReport \/ SkipReport \/ BookReport
=============================================================================
