----------------------------- MODULE MCSccClock -----------------------------
(***************************************************************************)
(* A clock that passes through a combinational cycle (x settles against y, *)
(* as in tests/test_sim.cpp) and clocks a register, the register having    *)
(* that clock as its only event.                                           *)
(***************************************************************************)
EXTENDS Engine

MCEntity == {"clk", "x", "y", "cnt"}
MCReg == {"cnt"}
MCInput == {"clk"}
MCCanon == [e \in MCEntity |-> e]
MCAction == 1..3
MCTarget == <<"x", "y", "cnt">>
MCPlain == <<{"clk", "y"}, {"x"}, {"cnt"}>>
MCEvents == <<<<>>, <<>>, <<[sig |-> "x", kind |-> "posedge"]>>>>
MCGuard == <<{}, {}, {}>>
MCAddr == [a \in {} |-> "clk"]
MCExec == <<<<1, 2>>, <<3>>>>
MCFn(a, v) ==
  CASE a = 1 -> IF v["clk"] # 0 THEN 1 ELSE 0
    [] a = 2 -> v["x"]
    [] a = 3 -> (v["cnt"] + 1) % 3
MCDrive == [i \in MCInput |-> {0, 1}]
=============================================================================
