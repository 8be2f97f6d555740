-------------------------------- MODULE Bus --------------------------------
(***************************************************************************)
(* The shared-memory bus between the stages: one queue per subscriber of   *)
(* each iceoryx2 service, and the market event.                            *)
(*                                                                         *)
(* iceoryx2 is a library; what is modelled is what the stages ask of it:   *)
(* every service is opened with enable_safe_overflow(true), so a send      *)
(* never blocks or fails, and a full subscriber queue loses its oldest     *)
(* sample.  A sample is delivered to all subscribers in one step: a stage  *)
(* that reads late covers the copy that arrives late.                      *)
(***************************************************************************)
EXTENDS Integers, Sequences

CONSTANT Capacity   \* samples a subscriber's queue holds

ASSUME CapacityAssumption == Capacity \in Nat \ {0}

VARIABLES
  toExchange,   \* ORDER_SERVICE as the exchange receives it
  toExecution,  \* ORDER_SERVICE as the execution stage receives it
  ticks,        \* MARKET_SERVICE, received by the strategy
  tickEvent,    \* MARKET_EVENT: a notification nobody has waited for yet
  reports       \* EXECUTION_SERVICE, received by the execution stage

channels == <<toExchange, toExecution, ticks, tickEvent, reports>>

BusInit ==
  /\ toExchange = <<>> /\ toExecution = <<>>
  /\ ticks = <<>> /\ tickEvent = FALSE
  /\ reports = <<>>

\* What a full queue loses when one more sample is sent into it.
Lost(q) == IF Len(q) < Capacity THEN <<>> ELSE <<Head(q)>>

Delivered(q, sample) ==
  Append(IF Len(q) < Capacity THEN q ELSE Tail(q), sample)
=============================================================================
