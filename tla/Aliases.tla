------------------------------- MODULE Aliases -------------------------------
(***************************************************************************)
(* The flat model on its way through elaboration                           *)
(* (include/wolvicmod/elab/flatten.h): the one-driver check, the merging   *)
(* of identity copies b = a into one storage cell, and the binding of the  *)
(* cells.  What is asked of the result is what Netlist assumes of Canon    *)
(* and of the actions left over.                                           *)
(***************************************************************************)
EXTENDS Integers, Sequences, FiniteSets

CONSTANTS
  Signal,  \* In, Out and Wire entities
  RootIn,  \* the In entities of the root module
  Reg,     \* state an identity copy may read
  NoSrc    \* aliasSource() of an Assign that is not an identity copy

Entity == Signal \cup Reg

VARIABLES
  acts,       \* the Assigns of FlatModel::actions: a sequence of [target, src]
  pc,         \* "check", "resolve", "bind", "done" or "failed"
  next,       \* the action the current loop has reached
  canon,      \* the union-find forest
  eliminated, \* the actions dropped from the graph
  store       \* entity -> the entity whose own cell holds its value

vars == <<acts, pc, next, canon, eliminated, store>>

AliasOn(m) ==
  /\ acts = m /\ pc = "check" /\ next = 1
  /\ canon = [e \in Entity |-> e]
  /\ eliminated = {}
  /\ store = [e \in Entity |-> e]

-----------------------------------------------------------------------------
\* Drivers(e): the registrations of an Assign to e.  (Names ending in Twice,
\* Shallow, Never, Aliased or Backwards are slips of the operator after them; no
\* action uses them.)
Drivers(e) == {k \in DOMAIN acts : acts[k].target = e}
LegalTwice ==
  \A e \in Signal : IF e \in RootIn THEN Drivers(e) = {} ELSE Drivers(e) # {}
Legal ==
  \A e \in Signal : Cardinality(Drivers(e)) = IF e \in RootIn THEN 0 ELSE 1

\* find(): the way from x to its root, and the map with that way compressed.
Way(c, x) ==
  LET way[e \in Entity] == IF c[e] = e THEN {e} ELSE {e} \cup way[c[e]] IN way[x]
Root(c, x) == CHOOSE r \in Way(c, x) : c[r] = r
FindShallow(c, x) == c
Find(c, x) == [e \in Entity |-> IF e \in Way(c, x) THEN Root(c, x) ELSE c[e]]

-----------------------------------------------------------------------------
CheckSignalDrivers ==
  /\ pc = "check"
  /\ pc' = IF Legal THEN "resolve" ELSE "failed"
  /\ UNCHANGED <<acts, next, canon, eliminated, store>>

\* One turn of the loop of resolveAliases(): the target's tree is hung under the
\* source's root.  The action that would close a cycle is kept.
ClosesNever(c, k) == FALSE
ClosesAliased(c, k) == c[acts[k].src] # acts[k].src
Closes(c, k) == Root(c, acts[k].target) = Root(c, acts[k].src)

HangBackwards(c, k) == [c EXCEPT ![Root(c, acts[k].src)] = Root(c, acts[k].target)]
Hang(c, k) == [c EXCEPT ![Root(c, acts[k].target)] = Root(c, acts[k].src)]

ResolveAlias ==
  /\ pc = "resolve" /\ next <= Len(acts)
  /\ next' = next + 1
  /\ IF acts[next].src = NoSrc
     THEN UNCHANGED <<canon, eliminated>>
     ELSE LET found == Find(Find(canon, acts[next].target), acts[next].src)
          IN IF Closes(found, next)
             THEN canon' = found /\ UNCHANGED eliminated
             ELSE canon' = Hang(found, next) /\ eliminated' = eliminated \cup {next}
  /\ UNCHANGED <<acts, pc, store>>

\* The second loop: the storage of an eliminated action's target is redirected.
BindStorage ==
  /\ pc = "bind" /\ next <= Len(acts)
  /\ next' = next + 1
  /\ IF next \notin eliminated
     THEN UNCHANGED <<canon, store>>
     ELSE LET found == Find(canon, acts[next].target)
          IN /\ canon' = found
             /\ store' = [store EXCEPT ![acts[next].target] = store[found[acts[next].target]]]
  /\ UNCHANGED <<acts, pc, eliminated>>

LoopEnd ==
  /\ pc \in {"resolve", "bind"} /\ next > Len(acts)
  /\ pc' = IF pc = "resolve" THEN "bind" ELSE "done"
  /\ next' = 1
  /\ UNCHANGED <<acts, canon, eliminated, store>>

ResolveAliases == CheckSignalDrivers \/ ResolveAlias \/ BindStorage \/ LoopEnd

-----------------------------------------------------------------------------
\* Types; and state and root inputs keep their own storage throughout.
AliasTypeOK ==
  /\ pc \in {"check", "resolve", "bind", "done", "failed"}
  /\ next \in 1..(Len(acts) + 1) /\ eliminated \subseteq DOMAIN acts
  /\ canon \in [Entity -> Entity] /\ store \in [Entity -> Entity]
  /\ \A e \in Reg \cup RootIn : canon[e] = e /\ store[e] = e

\* buildExecOrder() looks canon up once, and a signal's reads go straight to the
\* cell it is bound to: after elaboration both must lead to the same root at once.
Compressed ==
  pc = "done" => \A e \in Entity : canon[canon[e]] = canon[e] /\ store[e] = canon[e]

\* Every cell keeps exactly one Assign that writes it, registered for the entity
\* whose cell it is - none for a root input or a Reg - alias cycles included.
StillDriven ==
  pc = "done" =>
    \A e \in Entity :
      LET kept == {k \in DOMAIN acts \ eliminated : canon[acts[k].target] = e}
      IN /\ Cardinality(kept) = IF canon[e] # e \/ e \in Reg \cup RootIn THEN 0 ELSE 1
         /\ \A k \in kept : acts[k].target = e

\* The entities e copies, through any number of identity assigns.
Copied(e) ==
  LET step(S) == S \cup {acts[k].src : k \in {j \in DOMAIN acts :
                           acts[j].target \in S /\ acts[j].src # NoSrc}}
      upto[n \in 0..Cardinality(Entity)] == IF n = 0 THEN {e} ELSE step(upto[n - 1])
  IN upto[Cardinality(Entity)]

\* Entities share a cell only when one was assigned from the other or both from a
\* third, and the cell belongs to a source: a merge never mixes two signals.
FollowsSources ==
  pc = "done" =>
    /\ \A e \in Entity : canon[e] \in Copied(e)
    /\ \A k \in eliminated : canon[acts[k].target] = canon[acts[k].src]

\* An identity copy survives only to close a cycle of copies.
OnlyCyclesKept ==
  pc = "done" =>
    \A k \in DOMAIN acts \ eliminated :
      acts[k].src # NoSrc => acts[k].target \in Copied(acts[k].src)
=============================================================================
