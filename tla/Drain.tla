-------------------------------- MODULE Drain --------------------------------
(***************************************************************************)
(* Two prefab modules wired by the channel convention of prefab/valid.h: a *)
(* Queue whose dequeue channel, with backpressure, feeds a ValidPipe, which*)
(* has none, so that the pipe is told of an element when it fires.  One    *)
(* clock runs both: at an edge the pipe takes what the queue showed before *)
(* it, while the queue moves on.                                           *)
(***************************************************************************)
EXTENDS Queue, ValidPipe

drainVars == <<vars, stages, feed>>

\* fire = valid && rdy (valid.h:7).
Fired == [valid |-> deq.valid /\ deq_rdy, bits |-> deq.bits]

DrainInit == Init /\ PipeInit

DrainNext ==
  /\ \/ (SetEnq \/ SetDeqRdy \/ Negedge) /\ UNCHANGED stages
     \/ Posedge /\ Shift
  /\ feed' = Fired'
DrainSpec == DrainInit /\ [][DrainNext]_drainVars
=============================================================================
