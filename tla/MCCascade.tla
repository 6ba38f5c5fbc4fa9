----------------------------- MODULE MCCascade -----------------------------
(***************************************************************************)
(* A clock divider whose output clocks other state (tests/test_sim.cpp,    *)
(* test_core.cpp): several rounds in one eval, an Update on a gated clock  *)
(* and on the divider, a Mem with two Updates that meet on a row, and a    *)
(* combinational cycle that needs more than one pass to settle.            *)
(***************************************************************************)
EXTENDS Engine

MCEntity == {"clk", "en", "din", "div2", "cnt", "mem", "q", "gclk", "x", "y", "rd"}
MCReg == {"div2", "cnt", "q"}
MCInput == {"clk", "en", "din"}
MCCanon == [e \in MCEntity |-> e]
MCAction == 1..9
MCTarget == <<"div2", "cnt", "mem", "mem", "gclk", "y", "x", "rd", "q">>
MCPlain == <<{"div2"}, {"cnt", "y"}, {"cnt", "din"}, {"din", "cnt"}, {"clk", "en"},
             {"x"}, {"din", "y"}, {"mem", "cnt"}, {"rd"}>>
Ev(k, s) == [sig |-> s, kind |-> k]
MCEvents == <<<<Ev("posedge", "clk")>>,
              <<Ev("posedge", "div2"), Ev("negedge", "gclk")>>,
              <<Ev("posedge", "gclk")>>,
              <<Ev("posedge", "gclk")>>,
              <<>>, <<>>, <<>>, <<>>,
              <<Ev("posedge", "y"), Ev("negedge", "y")>>>>
MCGuard == <<{}, {}, {}, {"en"}, {}, {}, {}, {}, {}>>
MCAddr == [a \in {3, 4} |-> IF a = 3 THEN "cnt" ELSE "din"]
MCExec == <<<<5>>, <<1>>, <<6, 7>>, <<3>>, <<4>>, <<8>>, <<2>>, <<9>>>>
Not(v) == 1 - v
MCFn(a, v) ==
  CASE a = 1 -> Not(v["div2"])
    [] a = 2 -> (v["cnt"] + 1 + v["y"]) % 2
    [] a = 3 -> v["din"]
    [] a = 4 -> Not(v["cnt"])
    [] a = 5 -> v["clk"] * v["en"]
    [] a = 6 -> v["x"]
    [] a = 7 -> IF v["din"] = 1 THEN 1 ELSE 0 * v["y"]
    [] a = 8 -> v["mem"][v["cnt"]]
    [] a = 9 -> v["rd"]
MCDrive == [i \in MCInput |-> {0, 1}]

ASSUME DisciplineAssumption == Convention = "settle_then_pulse" => Disciplined
=============================================================================
