----------------------------- MODULE ValidPipe -----------------------------
(***************************************************************************)
(* ValidPipe<T, N> (include/wolvicmod/prefab/pipe.h): N stages of a valid  *)
(* bit and a word that only a valid element overwrites.  The gate w_live   *)
(* lets the Update sleep while nothing is under way.                       *)
(***************************************************************************)
EXTENDS Integers, Sequences, Channel

CONSTANT Stages   \* the template's N

ASSUME PipeAssumption == Stages \in Nat \ {0}

VARIABLES
  stages,
  feed      \* the channel at the entry, the port enq

pipeVars == <<clk, stages, feed>>

PipeInit ==
  /\ clk = FALSE
  /\ stages = [i \in 1..Stages |-> Silent]
  /\ feed = Silent

Exit == stages[Stages]

\* (w_liveEntry, a gate that looks at the two ends only, is a slip no action uses.)
w_liveEntry == feed.valid \/ Exit.valid
w_live == feed.valid \/ \E i \in 1..Stages : stages[i].valid

Behind(i) == IF i = 1 THEN feed ELSE stages[i - 1]
Shifted ==
  [i \in 1..Stages |->
     [valid |-> Behind(i).valid,
      bits |-> IF Behind(i).valid THEN Behind(i).bits ELSE stages[i].bits]]

\* posedge(clk), with the guard .en(w_live).
Shift == stages' = IF w_live THEN Shifted ELSE stages

\* The entry may change with the clock, when what feeds it runs on the same one.
PipeNext ==
  /\ feed' \in Channel
  /\ \/ Rises /\ Shift
     \/ Falls /\ UNCHANGED stages
     \/ UNCHANGED <<clk, stages>>
PipeSpec == PipeInit /\ [][PipeNext]_pipeVars

-----------------------------------------------------------------------------
\* Every stage holds a channel value.
PipeTypeOK == clk \in BOOLEAN /\ stages \in [1..Stages -> Channel] /\ feed \in Channel

\* The pipe delays by exactly N cycles, gaps included, its exit keeps the bits of
\* the last element (pipe.h:3-6), and a clock the gate suppresses is one that
\* would have shifted nothing.
Line == INSTANCE DelayLine WITH
  N <- Stages, enq <- feed, deq <- Exit,
  past <- [i \in 1..Stages |-> IF stages[i].valid THEN <<stages[i].bits>> ELSE <<>>]
ImplementsDelay == Line!Spec
=============================================================================
