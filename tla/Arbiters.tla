------------------------------ MODULE Arbiters ------------------------------
(***************************************************************************)
(* FixedArb and RRArb (include/wolvicmod/prefab/arb.h) fed by the same     *)
(* requesters.  Each computes twice who wins: once as the index `chosen`,  *)
(* once as the vector in_rdy that tells every requester whether it is      *)
(* being served.  The payloads follow `chosen` and are left out.           *)
(***************************************************************************)
EXTENDS Integers

CONSTANT N   \* requesters

ASSUME ArbAssumption == N \in Nat \ {0}

VARIABLES
  in,         \* requester -> its valid
  out_rdy,
  last_grant, \* RRArb's Reg
  passed      \* grants RRArb gave to others while this one kept asking (history)

vars == <<in, out_rdy, last_grant, passed>>

Line == 0..(N - 1)
Requests == {i \in Line : in[i]}
Lowest(S) == CHOOSE i \in S : \A j \in S : i <= j

-----------------------------------------------------------------------------
\* The operators take the set of requesters whose valid is high.
\* (Names ending in Below, Past, First or Own are the operator after them with a
\* slip; no action uses them.)
FixedChosen(R) == IF R = {} THEN N - 1 ELSE Lowest(R)

FixedReadyBelow(R) == {i \in Line : out_rdy /\ \A j \in R : i < j}
FixedReady(R) == {i \in Line : out_rdy /\ \A j \in R : i <= j}

\* (last_grant + k) % N, for k up to N.
Wrap(i) == IF i < N THEN i ELSE i - N
RRChosenPast(R) ==
  IF R = {} THEN N - 1
  ELSE last_grant + Lowest({k \in 1..N : Wrap(last_grant + k) \in R})
RRChosenFirst(R) ==
  IF R = {} THEN N - 1
  ELSE Wrap(last_grant + Lowest({k \in 0..N : Wrap(last_grant + k) \in R}))
RRChosen(R) ==
  IF R = {} THEN N - 1
  ELSE Wrap(last_grant + Lowest({k \in 1..N : Wrap(last_grant + k) \in R}))

\* Two passes: behind the last grant, and if nobody asks there, all of them.
After(R) == {j \in R : j > last_grant}
RRReadyOwn(R) ==
  {i \in R : /\ out_rdy
             /\ \/ i > last_grant /\ \A j \in After(R) : i <= j
                \/ After(R) = {} /\ \A j \in R : i <= j}
RRReady(R) ==
  {i \in Line : /\ out_rdy
                /\ \/ i > last_grant /\ \A j \in After(R) : i <= j
                   \/ After(R) = {} /\ \A j \in R : i <= j}

w_out_fire == Requests # {} /\ out_rdy

-----------------------------------------------------------------------------
Init ==
  /\ in = [i \in Line |-> FALSE] /\ out_rdy = FALSE
  /\ last_grant = 0 /\ passed = [i \in Line |-> 0]

\* A requester raises or withdraws its valid.
SetIn(i) ==
  /\ in' = [in EXCEPT ![i] = ~@]
  /\ passed' = [passed EXCEPT ![i] = 0]
  /\ UNCHANGED <<out_rdy, last_grant>>

SetOutRdy ==
  /\ out_rdy' = ~out_rdy
  /\ UNCHANGED <<in, last_grant, passed>>

\* posedge(clk), with the guard .en(w_out_fire).
Posedge ==
  /\ w_out_fire
  /\ last_grant' = RRChosen(Requests)
  /\ passed' = [i \in Line |->
       IF i \in Requests /\ i # RRChosen(Requests) THEN passed[i] + 1 ELSE 0]
  /\ UNCHANGED <<in, out_rdy>>

Next == (\E i \in Line : SetIn(i)) \/ SetOutRdy \/ Posedge
Spec == Init /\ [][Next]_vars

-----------------------------------------------------------------------------
TypeOK ==
  /\ in \in [Line -> BOOLEAN] /\ out_rdy \in BOOLEAN
  /\ last_grant \in Line /\ passed \in [Line -> Nat]

Served(ready) == Requests \cap ready
Winner(chosen) == IF w_out_fire THEN {chosen} ELSE {}

\* FixedArb transfers exactly one request when its output fires, the one whose
\* payload it forwards, and none otherwise.
FixedOneWinner == Served(FixedReady(Requests)) = Winner(FixedChosen(Requests))

\* So does RRArb, whose two passes and whose scan are written independently.
RROneWinner == Served(RRReady(Requests)) = Winner(RRChosen(Requests))

\* A requester's ready does not depend on its own valid (arb.h:55-57, 110): a
\* requester that waits for ready before it raises valid is no cycle.
ReadyIgnoresOwnValid ==
  \A i \in Line :
    i \in RRReady(Requests \cup {i}) <=> i \in RRReady(Requests \ {i})

\* Round robin: whoever keeps asking is served before any other requester is
\* served twice, at the latest after N - 1 grants to others.
BoundedWait == \A i \in Line : passed[i] < N
=============================================================================
