----------------------------- MODULE Elaboration -----------------------------
(***************************************************************************)
(* elaborate() (include/wolvicmod/elab/elaborate.h:24-58) on a flat model: *)
(* the one-driver check and the merging of identity copies (Aliases), then *)
(* buildExecOrder() over the alias-resolved cells (ExecOrder).  The k-th   *)
(* Assign of the flat model is the k-th action of Aliases.                 *)
(***************************************************************************)
EXTENDS ExecOrder

CONSTANTS
  RootIn,  \* the In entities of the root module
  State,   \* Reg and Mem entities
  NoSrc    \* aliasSource() of an action that is no identity copy

ASSUME ElabAssumption ==
  /\ RootIn \subseteq 1..E /\ State \subseteq 1..E /\ RootIn \cap State = {}
  /\ NoSrc \notin 1..E

VARIABLES alias, next, canon, eliminated, store

avars == <<alias, next, canon, eliminated, store>>
vars == <<avars, xvars>>

\* A flat model also names the source of every identity copy; Assigns drive signals and
\* Updates state.
FlatAction ==
  [target : 1..E, reads : SUBSET (1..E), src : (1..E) \cup {NoSrc},
   assign : BOOLEAN, gone : BOOLEAN, tag : Tag]
IsNetlist(n) ==
  /\ n \in [canon : [1..E -> 1..E], act : [Acts(n) -> FlatAction]]
  /\ IsModel(n)
  /\ \A a \in Acts(n) : n.act[a].assign <=> n.act[a].target \notin State

Assigns(m) == {a \in Acts(m) : m.act[a].assign}
AssignAt(m, k) ==
  CHOOSE a \in Assigns(m) : Cardinality({b \in Assigns(m) : b <= a}) = k
Copies(m) ==
  [k \in 1..Cardinality(Assigns(m)) |->
     [target |-> m.act[AssignAt(m, k)].target, src |-> m.act[AssignAt(m, k)].src]]

A == INSTANCE Aliases WITH
  Signal <- (1..E) \ State, Reg <- State, acts <- Copies(model), pc <- alias

ElabOn(n) == OrderOn(n) /\ phase = "aliases" /\ A!AliasOn(Copies(n))

ResolveAliases ==
  /\ phase = "aliases" /\ UNCHANGED xvars
  /\ A!ResolveAliases

\* A driver too many or too few ends elaboration; else the graph is built with the
\* canon map and without the eliminated actions.
HandOver ==
  /\ phase = "aliases"
  /\ \/ alias = "failed" /\ phase' = "rejected" /\ UNCHANGED model
     \/ /\ alias = "done" /\ phase' = "graph"
        /\ model' = [model EXCEPT
             !.canon = canon,
             !.act = [a \in Acts(model) |->
               [@[a] EXCEPT !.gone = \E k \in eliminated : AssignAt(model, k) = a]]]
  /\ UNCHANGED <<avars, tvars, svars, execOrder, topoAt>>

Elaborate ==
  \/ ResolveAliases \/ HandOver
  \/ BuildExecOrder /\ UNCHANGED avars
ElabSpec == (IsNetlist(model) /\ ElabOn(model)) /\ [][Elaborate]_vars

-----------------------------------------------------------------------------
\* Types of all stages; state and root inputs keep their own storage throughout.
TypeOK == A!AliasTypeOK /\ IsNetlist(model) /\ OrderTypeOK

\* The properties of Aliases, whose result stays as it is from then on: canon ends
\* compressed and agrees with the storage, ...
Compressed == phase = "aliases" => A!Compressed
\* ... every cell keeps exactly the one Assign that writes it, ...
StillDriven == phase = "aliases" => A!StillDriven
\* ... entities share a cell only along identity copies, ...
FollowsSources == phase = "aliases" => A!FollowsSources
\* ... and a copy survives only to close a cycle of copies.
OnlyCyclesKept == phase = "aliases" => A!OnlyCyclesKept

\* What the engine takes for granted, as Netlist assumes it of Canon, Target, Exec and
\* Group: one look-up in canon, one Assign per cell and none for a root input, each action
\* left at one place, groups of Assigns, a producer never after a consumer.
EngineReady ==
  phase = "done" =>
    /\ \A e \in 1..E : model.canon[model.canon[e]] = model.canon[e]
    /\ \A e \in State \cup RootIn : model.canon[e] = e
    /\ \A a \in Kept : LET t == model.act[a].target IN
         /\ model.canon[t] = t /\ t \notin RootIn
         /\ \A b \in Kept : model.act[a].assign /\ model.act[b].target = t => a = b
    /\ \A p \in DOMAIN execOrder : LET members == execOrder[p].acts IN
         /\ members \in Seq(Kept) \ {<<>>}
         /\ IF execOrder[p].group THEN \A k \in DOMAIN members : model.act[members[k]].assign
            ELSE Len(members) = 1
    /\ ScheduledOnce /\ NoBackwardEdge
=============================================================================
