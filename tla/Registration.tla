---------------------------- MODULE Registration ----------------------------
(***************************************************************************)
(* The construction of modules (include/wolvicmod/core/module.h,           *)
(* core/action.h:410-517): the stack of registration contexts, which the   *)
(* Module constructor pushes, createChildModule() pops, ~Module() purges   *)
(* and elaborate() (elab/elaborate.h) clears, and what may be registered   *)
(* against its top.  Everything runs in the one thread the stack is local  *)
(* to; an Error in a constructor unwinds it, and whoever runs the          *)
(* constructor around it may catch it and go on.                           *)
(*                                                                         *)
(* An operation that only reports an Error changes nothing and is no step  *)
(* here.                                                                   *)
(***************************************************************************)
EXTENDS Integers, Sequences, FiniteSets

CONSTANTS
  Module,   \* the module objects a program may construct
  Nobody,   \* nullptr
  Name,     \* member names
  Kind,     \* kinds of entity in use: some of "In", "Out", "Wire", "Reg"
  MaxActs,  \* a bound on the actions registered
  Nesting,  \* constructors build and elaborate root modules of their own
  Late      \* the public methods are called from anywhere: outside constructors, or
            \* on a module other than the one whose constructor runs

ASSUME RegistrationAssumption ==
  /\ Nobody \notin Module /\ MaxActs \in Nat
  /\ Nesting \in BOOLEAN /\ Late \in BOOLEAN

VARIABLES
  life,     \* module -> "unborn", "building", "built" or "gone"
  maker,    \* module -> its owner: the one whose createChildModule() makes it, or whose
            \* constructor builds it as a root of its own, or Nobody
  parent,   \* parent_
  names,    \* names_
  entities, \* entities_: module -> set of [name, kind]
  acts,     \* actions_, of all modules in order: [ctx, target, read]
  simmed,   \* modules with sim_ # nullptr
  ctxStack, \* the stack of contexts
  running   \* the constructors running: [mod, child]

objects == <<life, maker, parent, names, entities, acts, simmed>>
vars == <<objects, ctxStack, running>>

Init ==
  /\ life = [m \in Module |-> "unborn"] /\ maker = [m \in Module |-> Nobody]
  /\ parent = [m \in Module |-> Nobody]
  /\ names = [m \in Module |-> {}] /\ entities = [m \in Module |-> {}]
  /\ acts = <<>> /\ simmed = {}
  /\ ctxStack = <<>> /\ running = <<>>

Final(s) == s[Len(s)]
ButFinal(s) == SubSeq(s, 1, Len(s) - 1)
Alive(m) == life[m] \in {"building", "built"}
Current == IF running = <<>> THEN Nobody ELSE Final(running).mod

\* The members of s at the given places, in their order.
Only(s, places) ==
  LET before(k) == {j \in places : j < k}
  IN  [i \in 1..Cardinality(places) |-> s[CHOOSE k \in places : Cardinality(before(k)) = i - 1]]

\* m and whatever it leads to: the least set with m that is closed under `above`.
Below(m, above) ==
  {x \in Module : \A S \in SUBSET Module :
     m \in S /\ (\A y \in Module : Alive(y) /\ above[y] \in S => y \in S) => x \in S}
\* A module with everything it owns.
Owned(m) == Below(m, maker)
\* Its part of the hierarchy: completed children.
Tree(m) == Below(m, parent)

-----------------------------------------------------------------------------
\* Module::Module(), run for m.
Construct(m, owner, child) ==
  /\ life[m] = "unborn"
  /\ life' = [life EXCEPT ![m] = "building"]
  /\ maker' = [maker EXCEPT ![m] = owner]
  /\ ctxStack' = Append(ctxStack, m)
  /\ running' = Append(running, [mod |-> m, child |-> child])

BeginRoot(m) ==
  /\ Nesting \/ running = <<>>
  /\ Construct(m, Current, FALSE)
  /\ UNCHANGED <<parent, names, entities, acts, simmed>>

\* registerName().  (Names ending in Twice, Kept and Lazily are slips of the operator
\* after them; no action uses them.)
FreshTwice(m, name) == TRUE
Fresh(m, name) == name \notin names[m]

\* createChildModule() on p, up to the child's constructor: the name is taken first.
\* A fresh name is all it asks for: p may be built, and elaborated.
BeginChild(p, m, name) ==
  /\ Alive(p) /\ Fresh(p, name)
  /\ p = Current \/ Late
  /\ names' = [names EXCEPT ![p] = @ \cup {name}]
  /\ Construct(m, p, TRUE)
  /\ UNCHANGED <<parent, entities, acts, simmed>>

\* The body returns; for a child, createChildModule() completes: the top of the
\* stack goes, and the child is linked to the module called on.  (pop_back() of an empty
\* stack, which only a nested elaborate() can leave, is undefined; taken as no step.)
Popped == IF ctxStack = <<>> THEN <<>> ELSE ButFinal(ctxStack)
Return ==
  /\ running # <<>>
  /\ life' = [life EXCEPT ![Current] = "built"]
  /\ running' = ButFinal(running)
  /\ IF Final(running).child
     THEN ctxStack' = Popped /\ parent' = [parent EXCEPT ![Current] = maker[Current]]
     ELSE UNCHANGED <<ctxStack, parent>>
  /\ UNCHANGED <<maker, names, entities, acts, simmed>>

\* ~Module() of m and of all it owns.
WithoutKept(s, gone) == s
Without(s, gone) == Only(s, {k \in DOMAIN s : s[k] \notin gone})
Dispose(gone) ==
  /\ life' = [m \in Module |-> IF m \in gone THEN "gone" ELSE life[m]]
  /\ ctxStack' = Without(ctxStack, gone)
  /\ acts' = Only(acts, {k \in DOMAIN acts : acts[k].ctx \notin gone})
  /\ simmed' = simmed \ gone
  /\ UNCHANGED <<maker, parent, names, entities>>

\* An Error leaves the running constructor; the object unwinds.  Its name, if it
\* was to be a child, stays taken.
Throw ==
  /\ running # <<>>
  /\ Dispose(Owned(Current))
  /\ running' = ButFinal(running)

\* A root module goes out of scope, no later than the constructor it is local to.
Destroy(m) ==
  /\ life[m] = "built" /\ parent[m] = Nobody /\ maker[m] = Current
  /\ Dispose(Owned(m))
  /\ UNCHANGED running

-----------------------------------------------------------------------------
\* createIn() and friends on m: a fresh name is all they ask for.
Create(m, name, kind) ==
  /\ Alive(m) /\ Fresh(m, name)
  /\ m = Current \/ Late
  /\ names' = [names EXCEPT ![m] = @ \cup {name}]
  /\ entities' = [entities EXCEPT ![m] = @ \cup {[name |-> name, kind |-> kind]}]
  /\ UNCHANGED <<life, maker, parent, acts, simmed, ctxStack, running>>

\* checkAssignTarget(), checkUpdateTarget(): a module drives its own Wire, Out and
\* Reg, and the In of a direct child.
MayDrive(m, owner, kind) == IF kind = "In" THEN parent[owner] = m ELSE owner = m
\* checkReadableFrom(): its own entities and a direct child's ports.
MayRead(m, owner, kind) == owner = m \/ (parent[owner] = m /\ kind \in {"In", "Out"})

EntityRefs == UNION {{[owner |-> m, name |-> e.name, kind |-> e.kind] : e \in entities[m]} :
                       m \in {x \in Module : Alive(x)}}

\* registerAssignLambda(), registerUpdateLambda() and their expression twins.
Register(t, r) ==
  /\ Len(acts) < MaxActs
  /\ running # <<>> \/ Late
  /\ ctxStack # <<>>
  /\ MayDrive(Final(ctxStack), t.owner, t.kind)
  /\ MayRead(Final(ctxStack), r.owner, r.kind)
  /\ acts' = Append(acts, [ctx |-> Final(ctxStack), target |-> t, read |-> r])
  /\ UNCHANGED <<life, maker, parent, names, entities, simmed, ctxStack, running>>

\* elaborate(): a root module, once, every signal of its tree driven by one Assign
\* and no root In by any; then no context is left.
Drivers(t) == {k \in DOMAIN acts : acts[k].target = t}
Legal(m) ==
  \A t \in {u \in EntityRefs : u.owner \in Tree(m) /\ u.kind # "Reg"} :
    Cardinality(Drivers(t)) = IF t.owner = m /\ t.kind = "In" THEN 0 ELSE 1
AfterElaborateLazily(m) == ctxStack
AfterElaborate(m) == <<>>
Elaborate(m) ==
  /\ life[m] = "built" /\ (running = <<>> \/ Nesting)
  /\ parent[m] = Nobody /\ m \notin simmed /\ Legal(m)
  /\ simmed' = simmed \cup {m}
  /\ ctxStack' = AfterElaborate(m)
  /\ UNCHANGED <<life, maker, parent, names, entities, acts, running>>

Next ==
  \/ \E m \in Module :
       \/ BeginRoot(m) \/ Destroy(m) \/ Elaborate(m)
       \/ \E p \in Module, name \in Name : BeginChild(p, m, name)
       \/ \E name \in Name, k \in Kind : Create(m, name, k)
  \/ Return \/ Throw
  \/ \E t, r \in EntityRefs : Register(t, r)

Spec == Init /\ [][Next]_vars

-----------------------------------------------------------------------------
\* Types; a name stands for one entity of its module at most, whichever failed
\* constructors have used it.
TypeOK ==
  /\ life \in [Module -> {"unborn", "building", "built", "gone"}]
  /\ maker \in [Module -> Module \cup {Nobody}] /\ parent \in [Module -> Module \cup {Nobody}]
  /\ names \in [Module -> SUBSET Name]
  /\ entities \in [Module -> SUBSET [name : Name, kind : Kind]]
  /\ \A m \in Module : \A e1, e2 \in entities[m] : e1.name = e2.name => e1 = e2
  /\ LET Ref == [owner : Module, name : Name, kind : Kind]
     IN  acts \in Seq([ctx : Module, target : Ref, read : Ref])
  /\ simmed \subseteq Module
  /\ ctxStack \in Seq(Module) /\ running \in Seq([mod : Module, child : BOOLEAN])

\* "The top is always the module whose constructor body is running" (module.h:26-28),
\* however often child constructors have thrown, been caught and been retried.
TopIsRunning == running # <<>> => ctxStack # <<>> /\ Final(ctxStack) = Current

\* No context is a module that was destroyed: a throwing constructor, which never
\* reaches the pop in createChildModule(), leaves no pointer to its object behind.
NoDangling == \A k \in DOMAIN ctxStack : Alive(ctxStack[k])

\* An elaborated hierarchy keeps its modules, and each of them the actions it has: what
\* stray calls and later constructors register is of other modules, and gets in only as
\* the finished child of a createChildModule() on it.  (For constructors that build no
\* roots: below one that does, createChildModule() may pop the wrong context.)
ActionsOf(group) == Only(acts, {k \in DOMAIN acts : acts[k].ctx \in group})
NoStrayAction ==
  [][\A m \in simmed \cap simmed' : \A x \in Tree(m) :
       x \in Tree(m)' /\ ActionsOf({x})' = ActionsOf({x})]_vars

\* "The structure is frozen afterwards" (elaborate.h:21-23, README.md:211), "entities and
\* actions can be neither added nor removed" (README.md:387, translated), of the actions.
ActionsFrozen ==
  [][\A m \in simmed \cap simmed' : ActionsOf(Tree(m))' = ActionsOf(Tree(m))]_vars

\* The same of the entities.
EntitiesOf(group) == {e \in EntityRefs : e.owner \in group}
EntitiesFrozen ==
  [][\A m \in simmed \cap simmed' : EntitiesOf(Tree(m))' = EntitiesOf(Tree(m))]_vars
=============================================================================
