----------------------------- MODULE MCCounter -----------------------------
(***************************************************************************)
(* The Counter of tests/test_sim.cpp with what the engine's dispatch makes *)
(* hard: a reset chain of two Updates, a guard computed through two wires, *)
(* an enable seen through an aliased port, and an Update on two events.    *)
(***************************************************************************)
EXTENDS Engine

MCEntity == {"clk", "rst_n", "en", "c_en", "full", "gate", "nxt", "cnt", "last"}
MCReg == {"cnt", "last"}
MCInput == {"clk", "rst_n", "en"}
MCCanon == [e \in MCEntity |-> IF e = "c_en" THEN "en" ELSE e]
MCAction == 1..6
MCTarget == <<"cnt", "cnt", "last", "gate", "full", "nxt">>
MCPlain == <<{}, {"cnt"}, {"nxt", "rst_n"}, {"c_en", "full"}, {"cnt"}, {"cnt", "c_en"}>>
Pos1(s) == [sig |-> s, kind |-> "posedge"]
Neg1(s) == [sig |-> s, kind |-> "negedge"]
MCEvents == <<<<Neg1("rst_n")>>, <<Pos1("clk")>>, <<Pos1("clk"), Neg1("rst_n")>>,
              <<>>, <<>>, <<>>>>
MCGuard == <<{}, {"gate"}, {}, {}, {}, {}>>
MCAddr == [a \in {} |-> "clk"]
MCExec == <<<<5>>, <<1>>, <<6>>, <<4>>, <<3>>, <<2>>>>
MCFn(a, v) ==
  CASE a = 1 -> 0
    [] a = 2 -> (v["cnt"] + 1) % 3
    [] a = 3 -> IF v["rst_n"] # 0 THEN v["nxt"] ELSE 0
    [] a = 4 -> IF v["c_en"] # 0 /\ v["full"] = 0 THEN 1 ELSE 0
    [] a = 5 -> IF v["cnt"] = 2 THEN 1 ELSE 0
    [] a = 6 -> IF v["c_en"] # 0 THEN (v["cnt"] + 1) % 3 ELSE v["cnt"]
MCDrive == [i \in MCInput |-> {0, 1}]

ASSUME DisciplineAssumption == Convention = "settle_then_pulse" => Disciplined
=============================================================================
