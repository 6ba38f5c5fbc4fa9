--------------------------- MODULE LinearExtension ---------------------------
(***************************************************************************)
(* What the Flat scan needs of the order of the components                 *)
(* (include/wolvicmod/elab/graph.h:226-228): any linear extension of the   *)
(* condensation.  A component may come next when all those that feed it    *)
(* are out.                                                                *)
(***************************************************************************)
EXTENDS Integers, Sequences

VARIABLES
  dag, \* the condensation: its components and, for each, those it feeds
  out  \* the components placed so far, in order

Placed == {out[k] : k \in DOMAIN out}
Feeds(c) == {b \in dag.comp : c \in dag.succ[b]}

Place(c) ==
  /\ c \notin Placed /\ Feeds(c) \subseteq Placed
  /\ out' = Append(out, c)
  /\ UNCHANGED dag

\* The condensation is handed over before the first component is placed.
Receive == out = <<>> /\ UNCHANGED out

AnyOrder == out = <<>> /\ [][Receive \/ \E c \in dag.comp : Place(c)]_<<dag, out>>
=============================================================================
