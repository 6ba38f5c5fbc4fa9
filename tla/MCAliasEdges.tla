---------------------------- MODULE MCAliasEdges ----------------------------
(***************************************************************************)
(* A register on both edges of one clock, seen through two ports of a      *)
(* child module that the parent ties to the same input; both ties are      *)
(* identity assigns and are eliminated (flatten.h:58-97).                  *)
(***************************************************************************)
EXTENDS Engine

MCEntity == {"clk", "a", "b", "cnt"}
MCReg == {"cnt"}
MCInput == {"clk"}
MCCanon == [e \in MCEntity |-> IF e = "cnt" THEN "cnt" ELSE "clk"]
MCAction == {3}
MCTarget == [i \in MCAction |-> "cnt"]
MCPlain == [i \in MCAction |-> {"cnt"}]
MCEvents == [i \in MCAction |-> <<[sig |-> "a", kind |-> "posedge"],
                                  [sig |-> "b", kind |-> "negedge"]>>]
MCGuard == [i \in MCAction |-> {}]
MCAddr == [i \in {} |-> "clk"]
MCExec == <<<<3>>>>
MCFn(a, v) == (v["cnt"] + 1) % 3
MCDrive == [i \in MCInput |-> {0, 1}]
=============================================================================
