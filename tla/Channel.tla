------------------------------ MODULE Channel ------------------------------
(***************************************************************************)
(* What the sequential prefab modules share (include/wolvicmod/prefab/     *)
(* valid.h): the payload Valid<T> of a channel, and the clock that is the  *)
(* first port of them all.                                                 *)
(***************************************************************************)

CONSTANTS
  T,     \* the elements; T{} is Zero
  Zero

ASSUME ChannelAssumption == Zero \in T

VARIABLE clk

Channel == [valid : BOOLEAN, bits : T]
Silent == [valid |-> FALSE, bits |-> Zero]

Rises == ~clk /\ clk' = TRUE
Falls == clk /\ clk' = FALSE
=============================================================================
