------------------------------ MODULE MCFaults ------------------------------
(***************************************************************************)
(* A netlist on which every run-time error of eval() can be provoked and   *)
(* caught: a Mem address out of range, a combinational cycle that does not *)
(* converge, a zero-delay oscillation, and two Updates of one Reg under    *)
(* the mutex assertion.  The harness pokes in any order and flips every    *)
(* debug switch, its own and another root's.                               *)
(***************************************************************************)
EXTENDS Engine

MCEntity == {"clk", "sel", "mem", "osc", "w", "s"}
MCReg == {"osc"}
MCInput == {"clk", "sel"}
MCCanon == [e \in MCEntity |-> IF e = "w" THEN "osc" ELSE e]
MCAction == 1..4
MCTarget == <<"osc", "mem", "mem", "s">>
MCPlain == <<{"osc"}, {"sel"}, {"sel", "osc"}, {"clk", "sel", "osc", "s"}>>
Ev(k, e) == [sig |-> e, kind |-> k]
MCEvents == <<<<Ev("posedge", "w"), Ev("negedge", "w"), Ev("negedge", "clk")>>,
              <<Ev("posedge", "clk")>>,
              <<Ev("posedge", "clk")>>,
              <<>>>>
MCGuard == <<{"sel"}, {}, {"w"}, {}>>
MCAddr == [a \in {2, 3} |-> "sel"]
MCExec == <<<<4>>, <<1>>, <<2>>, <<3>>>>
Not(b) == IF b = 0 THEN 1 ELSE 0
MCFn(a, v) ==
  CASE a = 1 -> Not(v["osc"])
    [] a = 2 -> 1
    [] a = 3 -> v["osc"]
    [] a = 4 -> IF v["clk"] # 0 /\ v["sel"] # 0 /\ v["osc"] # 0 THEN Not(v["s"]) ELSE v["s"]
\* What is left of a state without the two histories no property here reads.
MCView == <<wires, commits, pc, at, locals, round, modes, errs>>
MCDrive == [i \in MCInput |-> {0, 1}]
=============================================================================
