----------------------------- MODULE DelayLine -----------------------------
(***************************************************************************)
(* What a ValidPipe promises: what enters in one cycle leaves N cycles     *)
(* later, gaps included, and the exit keeps showing the bits of the last   *)
(* element that reached it.                                                *)
(***************************************************************************)
EXTENDS Integers, Sequences

CONSTANTS
  T,     \* the elements
  Zero,  \* what the exit shows before the first one
  N      \* the delay in cycles

VARIABLES
  clk,   \* the level of the clock
  past,  \* the inputs of the last N cycles, the latest first; <<>> is a gap
  enq,   \* this cycle's input: [valid, bits]
  deq    \* the output: [valid, bits]

lineVars == <<clk, past, enq, deq>>

Entering == IF enq.valid THEN <<enq.bits>> ELSE <<>>

Start ==
  /\ clk = FALSE
  /\ past = [i \in 1..N |-> <<>>] /\ enq = [valid |-> FALSE, bits |-> Zero]
  /\ deq = [valid |-> FALSE, bits |-> Zero]

Rise ==
  /\ ~clk /\ clk' = TRUE
  /\ past' = [i \in 1..N |-> IF i = 1 THEN Entering ELSE past[i - 1]]
  /\ deq' = [valid |-> past'[N] # <<>>,
             bits |-> IF past'[N] # <<>> THEN past'[N][1] ELSE deq.bits]

Fall ==
  /\ clk /\ clk' = FALSE
  /\ UNCHANGED <<past, deq>>

LineNext ==
  /\ enq' \in [valid : BOOLEAN, bits : T]
  /\ Rise \/ Fall \/ UNCHANGED <<clk, past, deq>>

Spec == Start /\ [][LineNext]_lineVars
=============================================================================
