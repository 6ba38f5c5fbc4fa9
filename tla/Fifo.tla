-------------------------------- MODULE Fifo --------------------------------
(***************************************************************************)
(* What a Queue promises at its ports: a bounded FIFO seen once per clock  *)
(* cycle.  A flow FIFO lets an arriving element leave in the cycle it      *)
(* arrives, a pipe FIFO accepts one while it is full and being drained.    *)
(***************************************************************************)
EXTENDS Integers, Sequences

CONSTANTS
  T,     \* the elements
  N,     \* the capacity
  Mode   \* the instances: a set of [flow, pipe]

VARIABLES
  mode,    \* the instance, fixed
  clk,     \* the level of the clock
  items,   \* the elements inside, oldest first
  enq,     \* this cycle's input: [valid, bits]
  deq_rdy, \* the consumer takes an element this cycle
  port     \* the outputs the inputs and the contents call for

fifoVars == <<mode, clk, items, enq, deq_rdy, port>>

\* The element at the exit, as a sequence of at most one.
Front(m, c, e) ==
  IF c # <<>> THEN <<c[1]>> ELSE IF m.flow /\ e.valid THEN <<e.bits>> ELSE <<>>
Room(m, c, r) == Len(c) < N \/ (m.pipe /\ r)

Port(m, c, e, r) == [deq |-> Front(m, c, e), enq_rdy |-> Room(m, c, r), count |-> Len(c)]

Start ==
  /\ mode \in Mode /\ clk = FALSE /\ items = <<>>
  /\ enq \in [valid : {FALSE}, bits : T] /\ deq_rdy = FALSE
  /\ port = Port(mode, items, enq, deq_rdy)

Inputs ==
  /\ enq' \in [valid : BOOLEAN, bits : T] /\ deq_rdy' \in BOOLEAN
  /\ UNCHANGED <<items, clk>>

\* A rising clock: what was offered and accepted is in before what was at the
\* exit and taken is out.
Rise ==
  LET inside == IF enq.valid /\ port.enq_rdy THEN Append(items, enq.bits) ELSE items
  IN  /\ ~clk /\ clk' = TRUE
      /\ items' = IF port.deq # <<>> /\ deq_rdy THEN Tail(inside) ELSE inside
      /\ UNCHANGED <<enq, deq_rdy>>

Fall ==
  /\ clk /\ clk' = FALSE
  /\ UNCHANGED <<items, enq, deq_rdy>>

FifoNext ==
  /\ Inputs \/ Rise \/ Fall
  /\ mode' = mode /\ port' = Port(mode, items', enq', deq_rdy')

Spec == Start /\ [][FifoNext]_fifoVars
=============================================================================
