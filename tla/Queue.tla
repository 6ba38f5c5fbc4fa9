-------------------------------- MODULE Queue --------------------------------
(***************************************************************************)
(* Queue<T, N, Flow, Pipe> (include/wolvicmod/prefab/queue.h): a ring of N *)
(* slots in one Reg.  The ports announce what the state allows; fire()     *)
(* works it out a second time to decide what the clock does; and the gate  *)
(* w_chg keeps the Update asleep in a cycle in which nothing moves.        *)
(* Inputs are settled before the clock is pulsed.                          *)
(***************************************************************************)
EXTENDS Integers, Sequences, Channel

CONSTANTS
  N,     \* slots
  Mode   \* the instances of the template: a set of [flow, pipe]

ASSUME QueueAssumption ==
  /\ N \in Nat \ {0}
  /\ Mode \subseteq [flow : BOOLEAN, pipe : BOOLEAN]

VARIABLES mode, st, enq, deq_rdy

vars == <<mode, clk, st, enq, deq_rdy>>

Ptr == 0..(N - 1)
QState == [ram : [Ptr -> T], enq_ptr : Ptr, deq_ptr : Ptr, maybe_full : BOOLEAN]

Init ==
  /\ mode \in Mode /\ clk = FALSE
  /\ st = [ram |-> [i \in Ptr |-> Zero], enq_ptr |-> 0, deq_ptr |-> 0, maybe_full |-> FALSE]
  /\ enq = Silent /\ deq_rdy = FALSE

-----------------------------------------------------------------------------
\* The combinational actions.
Empty == st.enq_ptr = st.deq_ptr /\ ~st.maybe_full
Full == st.enq_ptr = st.deq_ptr /\ st.maybe_full

deq ==
  [valid |-> IF mode.flow THEN ~Empty \/ enq.valid ELSE ~Empty,
   bits |-> IF mode.flow /\ Empty THEN enq.bits ELSE st.ram[st.deq_ptr]]

enq_rdy == IF mode.pipe THEN ~Full \/ deq_rdy ELSE ~Full

count ==
  IF st.enq_ptr = st.deq_ptr THEN (IF st.maybe_full THEN N ELSE 0)
  ELSE IF st.enq_ptr > st.deq_ptr THEN st.enq_ptr - st.deq_ptr
  ELSE st.enq_ptr + N - st.deq_ptr

\* fire(): an element that flows through an empty queue leaves no copy inside.
\* (firePhantom and StepPastEnd are slips next to the operators they resemble; no
\* action uses them.)
firePhantom ==
  [do_enq |-> enq.valid /\ (IF mode.pipe THEN ~Full \/ deq_rdy ELSE ~Full),
   do_deq |-> deq_rdy /\ ~Empty]
fire ==
  [do_enq |-> /\ enq.valid
              /\ IF mode.pipe THEN ~Full \/ deq_rdy ELSE ~Full
              /\ ~(mode.flow /\ Empty /\ deq_rdy),
   do_deq |-> deq_rdy /\ ~Empty]

w_chg == fire.do_enq \/ fire.do_deq

-----------------------------------------------------------------------------
StepPastEnd(p) == p + 1
Step(p) == IF p + 1 = N THEN 0 ELSE p + 1

\* The Update of st, from one reading of st and of the inputs.
Advanced ==
  [ram |-> IF fire.do_enq THEN [st.ram EXCEPT ![st.enq_ptr] = enq.bits] ELSE st.ram,
   enq_ptr |-> IF fire.do_enq THEN Step(st.enq_ptr) ELSE st.enq_ptr,
   deq_ptr |-> IF fire.do_deq THEN Step(st.deq_ptr) ELSE st.deq_ptr,
   maybe_full |-> IF fire.do_enq # fire.do_deq THEN fire.do_enq ELSE st.maybe_full]

SetEnq ==
  /\ enq' \in Channel
  /\ UNCHANGED <<mode, clk, st, deq_rdy>>

SetDeqRdy ==
  /\ deq_rdy' \in BOOLEAN
  /\ UNCHANGED <<mode, clk, st, enq>>

\* posedge(clk), with the guard .en(w_chg).
Posedge ==
  /\ Rises
  /\ st' = IF w_chg THEN Advanced ELSE st
  /\ UNCHANGED <<mode, enq, deq_rdy>>

Negedge ==
  /\ Falls
  /\ UNCHANGED <<mode, st, enq, deq_rdy>>

Next == SetEnq \/ SetDeqRdy \/ Posedge \/ Negedge
Spec == Init /\ [][Next]_vars

-----------------------------------------------------------------------------
\* The pointers stay inside the ring, whatever is enqueued and dequeued.
TypeOK ==
  /\ mode \in Mode /\ clk \in BOOLEAN /\ st \in QState
  /\ enq \in Channel /\ deq_rdy \in BOOLEAN

\* The slot of the i-th oldest element.
Slot(i) == IF st.deq_ptr + i - 1 < N THEN st.deq_ptr + i - 1 ELSE st.deq_ptr + i - 1 - N

\* In every mode the ring is a FIFO of N elements: what the ports announce, what
\* they deliver and what the clock does to the ring agree, cycle for cycle;
\* a clock the gate suppresses is one that had nothing to do.
Ring == INSTANCE Fifo WITH
  items <- [i \in 1..count |-> st.ram[Slot(i)]],
  port <- [deq |-> IF deq.valid THEN <<deq.bits>> ELSE <<>>,
           enq_rdy |-> enq_rdy, count |-> count]
ImplementsFifo == Ring!Spec
=============================================================================
