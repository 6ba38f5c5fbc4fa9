------------------------------ MODULE EvalSpec ------------------------------
(***************************************************************************)
(* What set() and eval() promise, with no bitmaps, no dispatch order and   *)
(* no edge facts: rounds that settle the combinational state, activate an  *)
(* Update when an event occurred between two settled states and its guard  *)
(* holds in the new one, and commit every activated Update from that same  *)
(* state, the earliest registered winning (README.md 3.6, engine.h:64-67). *)
(***************************************************************************)
EXTENDS Netlist

CONSTANT Drive

VARIABLES
  src,    \* inputs, Regs and Mems: all the state there is
  vis,    \* the last settled state, which edges are measured against
  fired,  \* activated Updates not committed yet
  phase,  \* "idle", "eval" (about to settle) or "commit"
  again   \* this round has committed something

specVars == <<src, vis, fired, phase, again>>

Source == Input \cup Reg \cup Mem
Zero(c) == IF c \in Mem THEN [r \in Row |-> 0] ELSE 0

Start ==
  /\ src = [c \in Source |-> Zero(c)]
  /\ vis = [c \in Cell |-> Zero(c)]
  /\ fired = {} /\ phase = "idle" /\ again = FALSE

Poke(i) ==
  /\ phase = "idle"
  /\ \E v \in Drive[i] : src' = [src EXCEPT ![i] = v]
  /\ UNCHANGED <<vis, fired, phase, again>>

Call ==
  /\ phase = "idle" /\ phase' = "eval"
  /\ UNCHANGED <<src, vis, fired, again>>

Fires(a, old, new) ==
  /\ \E i \in DOMAIN Events[a] :
       LET c == Canon[Events[a][i].sig] IN Rises(Events[a][i].kind, old[c], new[c])
  /\ GuardPass(a, new)

Settle ==
  /\ phase = "eval" /\ phase' = "commit"
  /\ DOMAIN vis' = Cell
  /\ \A c \in Source : vis'[c] = src[c]
  /\ \A p \in Pos : SettledItem(p, vis')
  /\ fired' = {a \in Action : Fires(a, vis, vis')}
  /\ UNCHANGED <<src, again>>

\* A Reg takes its first registered Update; a Mem does so row by row.
Stored(r) ==
  LET here == fired \cap Updates(r) IN
  IF r \in Mem
  THEN [x \in Row |-> LET row == {a \in here : vis[Canon[Addr[a]]] = x} IN
          IF row = {} THEN src[r][x] ELSE Compute(Earliest(row), vis)]
  ELSE Compute(Earliest(here), vis)

Commit(r) ==
  /\ phase = "commit" /\ fired \cap Updates(r) # {}
  /\ src' = [src EXCEPT ![r] = Stored(r)]
  /\ fired' = fired \ Updates(r)
  /\ again' = TRUE
  /\ UNCHANGED <<vis, phase>>

Finish ==
  /\ phase = "commit" /\ fired = {}
  /\ phase' = IF again THEN "eval" ELSE "idle"
  /\ again' = FALSE
  /\ UNCHANGED <<src, vis, fired>>

SpecNext ==
  \/ \E i \in Input : Poke(i)
  \/ Call \/ Settle \/ Finish
  \/ \E r \in Chain : Commit(r)

Spec == Start /\ [][SpecNext]_specVars
=============================================================================
