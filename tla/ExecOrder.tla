------------------------------ MODULE ExecOrder ------------------------------
(***************************************************************************)
(* buildExecOrder() (include/wolvicmod/elab/graph.h:170-336) from the flat *)
(* model to execOrder: the evaluation graph, its strongly connected        *)
(* components (Tarjan), the condensation and its type-greedy scheduling    *)
(* (Scheduler), and the items of execOrder.  What is asked of the result   *)
(* is what Netlist assumes of Exec and Group.                              *)
(*                                                                         *)
(* Nodes 1..E are entities, the nodes after them actions in registration   *)
(* order.                                                                  *)
(***************************************************************************)
EXTENDS Tarjan, Scheduler

CONSTANTS
  E,     \* the number of entities
  NoEq   \* entities whose type has no operator==

ASSUME EntityAssumption == E \in Nat /\ NoEq \subseteq 1..E

VARIABLES
  model,     \* the flat model: canon of every entity; and per action its target, its
             \* reads, whether it is an Assign, whether aliasing eliminated it, its type
  phase,     \* "graph", "scc", "schedule", "done" or "failed"; others elsewhere
  execOrder, \* items: [group: an SCC group or not, acts: the actions in order,
             \* signals: SccGroup::signals]
  topoAt     \* the component the loop over topo is at

ovars == <<model, phase, execOrder, topoAt>>
xvars == <<tvars, svars, ovars>>

Acts(m) == DOMAIN m.act
IsEntity(v) == v \in 1..E
Gone(m, a) == m.act[a].gone
Nodes(m) == 1..(E + Cardinality(Acts(m)))

IsModel(m) ==
  /\ m.canon \in [1..E -> 1..E]
  /\ IsFiniteSet(Acts(m)) /\ Acts(m) = (E + 1)..(E + Cardinality(Acts(m)))
  /\ \A a \in Acts(m) :
       /\ m.act[a].target \in 1..E /\ m.act[a].reads \subseteq 1..E
       /\ m.act[a].assign \in BOOLEAN /\ m.act[a].gone \in BOOLEAN /\ m.act[a].tag \in Tag

-----------------------------------------------------------------------------
\* An Assign leads to the cell it drives, a cell to each action that reads it.
\* (Names ending in Unaliased, State, Gone and Anywhere are slips of the operator
\* after them; no action uses them.)
LeadsToUnaliased(m, v) ==
  IF IsEntity(v)
  THEN {a \in Acts(m) : ~Gone(m, a) /\ v \in m.act[a].reads}
  ELSE IF m.act[v].assign /\ ~Gone(m, v) THEN {m.canon[m.act[v].target]} ELSE {}
LeadsToState(m, v) ==
  IF IsEntity(v)
  THEN {a \in Acts(m) : ~Gone(m, a) /\ \E r \in m.act[a].reads : m.canon[r] = v}
  ELSE IF ~Gone(m, v) THEN {m.canon[m.act[v].target]} ELSE {}
LeadsTo(m, v) ==
  IF IsEntity(v)
  THEN {a \in Acts(m) : ~Gone(m, a) /\ \E r \in m.act[a].reads : m.canon[r] = v}
  ELSE IF m.act[v].assign /\ ~Gone(m, v) THEN {m.canon[m.act[v].target]} ELSE {}
Graph(m) == [v \in Nodes(m) |-> LeadsTo(m, v)]

NoDag == [comp |-> {}, succ |-> <<>>, free |-> {}, tag |-> <<>>]

OrderOn(m) ==
  /\ model = m /\ execOrder = <<>> /\ topoAt = 1
  /\ TarjanOn([v \in Nodes(m) |-> {}])
  /\ StartOn(NoDag)

BuildGraph ==
  /\ phase = "graph" /\ phase' = "scc"
  /\ adj' = Graph(model)
  /\ UNCHANGED <<index, low, onStack, stack, calls, comps, nextIndex, svars>>
  /\ UNCHANGED <<model, execOrder, topoAt>>

RunTarjan ==
  /\ phase = "scc" /\ TarjanStep
  /\ UNCHANGED <<svars, ovars>>

\* The condensation.  No entity leads to an entity nor an action to an action, so a
\* component of one node never has a self-loop.
Only(c) == CHOOSE v \in comps[c] : TRUE
NonTrivial(c) ==
  Cardinality(comps[c]) > 1 \/ Only(c) \in adj[Only(c)]
EmitsNothingGone(c) == ~NonTrivial(c) /\ IsEntity(Only(c))
EmitsNothing(c) == ~NonTrivial(c) /\ (IsEntity(Only(c)) \/ Gone(model, Only(c)))
Condensed ==
  [comp |-> DOMAIN comps,
   succ |-> [c \in DOMAIN comps |->
     {d \in DOMAIN comps \ {c} :
        \E v \in comps[c] : adj[v] \cap comps[d] # {}}],
   free |-> {c \in DOMAIN comps : EmitsNothing(c)},
   tag |-> [c \in DOMAIN comps |->
     IF NonTrivial(c) \/ IsEntity(Only(c)) THEN NoTag ELSE model.act[Only(c)].tag]]

Condense ==
  /\ phase = "scc" /\ TarjanDone
  /\ phase' = "schedule"
  /\ dag' = Condensed
  /\ indeg' = Degree(Condensed)
  /\ todo' = {c \in DOMAIN comps : Degree(Condensed)[c] = 0}
  /\ UNCHANGED <<tvars, queues, emitted, topo, lastTag, step, model, execOrder, topoAt>>

RunScheduler ==
  /\ phase = "schedule" /\ Schedule
  /\ UNCHANGED <<tvars, ovars>>

\* An action of its own is an item; the actions of a non-trivial component are one
\* item, in registration order.  Entities and eliminated actions give none.  A
\* cycle through a value that cannot be compared is refused.
Ascending(S) ==
  LET at[k \in 1..Cardinality(S)] ==
        CHOOSE x \in S : Cardinality({y \in S : y < x}) = k - 1
  IN  [k \in 1..Cardinality(S) |-> at[k]]
Signals(c) == {v \in comps[c] : IsEntity(v)}
ItemOf(c) ==
  [group |-> NonTrivial(c), acts |-> Ascending(comps[c] \ Signals(c)),
   signals |-> IF NonTrivial(c) THEN Signals(c) ELSE {}]
RefusedAnywhere(c) == Signals(c) \cap NoEq # {}
Refused(c) == NonTrivial(c) /\ Signals(c) \cap NoEq # {}

BuildItem ==
  /\ phase = "schedule" /\ step = "done" /\ topoAt <= Len(topo)
  /\ IF Refused(topo[topoAt])
     THEN phase' = "failed" /\ UNCHANGED <<execOrder, topoAt>>
     ELSE /\ execOrder' = IF EmitsNothing(topo[topoAt]) THEN execOrder
                          ELSE Append(execOrder, ItemOf(topo[topoAt]))
          /\ topoAt' = topoAt + 1
          /\ UNCHANGED phase
  /\ UNCHANGED <<tvars, svars, model>>

EndOrder ==
  /\ phase = "schedule" /\ step = "done" /\ topoAt > Len(topo)
  /\ phase' = "done"
  /\ UNCHANGED <<tvars, svars, model, execOrder, topoAt>>

BuildExecOrder ==
  BuildGraph \/ RunTarjan \/ Condense \/ RunScheduler \/ BuildItem \/ EndOrder
OrderSpec ==
  (IsModel(model) /\ phase = "graph" /\ OrderOn(model)) /\ [][BuildExecOrder]_xvars

-----------------------------------------------------------------------------
\* Types; whatever the netlist, what the scheduler starts from is a condensation.
OrderTypeOK ==
  /\ IsModel(model)
  /\ phase \in {"alone", "aliases", "rejected", "graph", "scc", "schedule", "done",
                "failed"}
  /\ topoAt \in 1..(Len(topo) + 1)
  /\ SchedTypeOK
  /\ \A p \in DOMAIN execOrder : execOrder[p].acts \in Seq(Acts(model)) \ {<<>>}

\* What the condensation is built from are the strongly connected components.
ComponentsExact == phase = "scc" => SccsExact

Kept == {a \in Acts(model) : ~Gone(model, a)}
Cells(a) == {model.canon[r] : r \in model.act[a].reads}
Drives(a, c) == model.act[a].assign /\ model.canon[model.act[a].target] = c
Places(a) ==
  UNION {{<<p, k>> : k \in {j \in DOMAIN execOrder[p].acts : execOrder[p].acts[j] = a}}
         : p \in DOMAIN execOrder}

\* Every action aliasing left is scheduled, at one place; no eliminated one is.
ScheduledOnce ==
  phase = "done" =>
    \A a \in Acts(model) : Cardinality(Places(a)) = IF a \in Kept THEN 1 ELSE 0

\* The scan meets a producer before its consumers, unless they share a group
\* (graph.h:398-411): the assertion there never fires.
NoBackwardEdge ==
  phase = "done" =>
    \A p, q \in DOMAIN execOrder :
      \A i \in DOMAIN execOrder[p].acts, j \in DOMAIN execOrder[q].acts :
        (\E c \in Cells(execOrder[p].acts[i]) : Drives(execOrder[q].acts[j], c))
          => q < p \/ (q = p /\ execOrder[p].group)

\* Waits(a): the actions whose results a depends on, through any number of others.
Waits(a) ==
  LET before(S) == S \cup {b \in Kept : \E d \in S : \E c \in Cells(d) : Drives(b, c)}
      direct == {b \in Kept : \E c \in Cells(a) : Drives(b, c)}
      upto[n \in 0..Cardinality(Kept)] == IF n = 0 THEN direct ELSE before(upto[n - 1])
  IN  upto[Cardinality(Kept)]

\* Exactly the actions on a combinational cycle are iterated, those of one cycle
\* in one group and in registration order, until every signal they drive is steady;
\* state breaks a cycle.
GroupsAreCycles ==
  phase = "done" =>
    \A p \in DOMAIN execOrder :
      LET members == execOrder[p].acts IN
      \A i \in DOMAIN members :
        LET loop == {b \in Waits(members[i]) : members[i] \in Waits(b)} IN
        /\ execOrder[p].group = (members[i] \in Waits(members[i]))
        /\ execOrder[p].group =>
             /\ {members[j] : j \in DOMAIN members} = loop
             /\ execOrder[p].signals = {c \in 1..E : \E b \in loop : Drives(b, c)}
        /\ \A j \in 1..(i - 1) : members[j] < members[i]

\* Elaboration is refused exactly for a cycle through a value without operator==.
RefusedOnlyForCycles ==
  phase \in {"done", "failed"} =>
    (phase = "failed" <=>
       \E a \in Kept : \E e \in NoEq : Drives(a, e) /\ a \in Waits(a))
=============================================================================
