------------------------------ MODULE MCModes ------------------------------
(***************************************************************************)
(* A small guarded register poked and evaluated in any order, while this   *)
(* root and another one switch their traces on and off at any time, and    *)
(* the mutex assertion as well: edges may be lost or repeated, but not the *)
(* discipline of the two phases.  The register's two Updates are committed *)
(* in each of the ways there are.                                          *)
(***************************************************************************)
EXTENDS Engine

MCEntity == {"clk", "en", "g", "d", "cnt"}
MCReg == {"cnt"}
MCInput == {"clk", "en"}
MCCanon == [e \in MCEntity |-> e]
MCAction == 1..4
MCTarget == <<"cnt", "cnt", "g", "d">>
MCPlain == <<{"cnt"}, {"d"}, {"en"}, {"cnt", "g"}>>
Ev(k, e) == [sig |-> e, kind |-> k]
MCEvents == <<<<Ev("posedge", "clk")>>, <<Ev("posedge", "clk"), Ev("negedge", "en")>>, <<>>, <<>>>>
MCGuard == <<{"g"}, {}, {}, {}>>
MCAddr == [a \in {} |-> "clk"]
MCExec == <<<<3>>, <<1>>, <<4>>, <<2>>>>
Not(b) == IF b = 0 THEN 1 ELSE 0
MCFn(a, v) ==
  CASE a = 1 -> Not(v["cnt"])
    [] a = 2 -> v["d"]
    [] a = 3 -> Not(v["en"])
    [] a = 4 -> IF v["cnt"] = v["g"] THEN 1 ELSE 0
MCByteRegs == {{}, {"cnt"}}
MCDrive == [i \in MCInput |-> {0, 1}]
=============================================================================
