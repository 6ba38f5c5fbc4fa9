------------------------------ MODULE Scheduler ------------------------------
(***************************************************************************)
(* The type-greedy topological scheduler of buildExecOrder()               *)
(* (include/wolvicmod/elab/graph.h:222-306): Kahn's algorithm on the       *)
(* condensation of the evaluation graph, which among the ready components  *)
(* prefers one whose action has the type of the action emitted before.     *)
(* A component waits in two queues, so an entry can be stale: emitted      *)
(* through the other queue.                                                *)
(***************************************************************************)
EXTENDS Integers, Sequences, FiniteSets

CONSTANTS
  Tag,   \* the types of the actions (vtable pointers)
  NoTag  \* nullptr

ASSUME TagAssumption == NoTag \notin Tag

VARIABLES
  dag,       \* comp: the components; succ: cadj; free: those that emit no item;
             \* tag: the type of an action, NoTag for an SCC group
  indeg,     \* incoming edges from components not emitted
  freeNodes, \* ready components that emit no item
  byTag,     \* ready actions per type, with stale entries
  seq,       \* every ready component that emits an item, with stale entries
  emitted,   \* the components emitted
  topo,      \* the same in order
  lastTag,   \* the type of the item emitted last
  todo,      \* what the running loop over components has yet to visit
  step       \* "seed", "run" or "done"

queues == <<freeNodes, byTag, seq>>
svars == <<dag, indeg, queues, emitted, topo, lastTag, todo, step>>

\* Tarjan closes a component after those it feeds, so edges go down in number.
IsCondensation(d) ==
  /\ IsFiniteSet(d.comp) /\ d.comp = 1..Cardinality(d.comp)
  /\ d.succ \in [d.comp -> SUBSET d.comp]
  /\ \A c \in d.comp : \A w \in d.succ[c] : w < c
  /\ d.free \subseteq d.comp
  /\ d.tag \in [d.comp -> Tag \cup {NoTag}]

Feeders(c) == {b \in dag.comp : c \in dag.succ[b]}
Degree(d) == [c \in d.comp |-> Cardinality({b \in d.comp : c \in d.succ[b]})]

StartOn(d) ==
  /\ dag = d
  /\ indeg = Degree(d)
  /\ freeNodes = <<>> /\ byTag = [t \in Tag |-> <<>>] /\ seq = <<>>
  /\ emitted = {} /\ topo = <<>> /\ lastTag = NoTag
  /\ todo = {c \in d.comp : indeg[c] = 0} /\ step = "seed"

-----------------------------------------------------------------------------
\* pushComp(c): where a component waits once it is ready.  (PushUntyped, ReadyEager,
\* ReadyLate and IsStaleStale are slips of the operator they begin with; no action
\* uses them.)
PushUntyped(c) ==
  IF c \in dag.free
  THEN freeNodes' = Append(freeNodes, c) /\ UNCHANGED <<byTag, seq>>
  ELSE /\ seq' = Append(seq, c)
       /\ UNCHANGED <<freeNodes, byTag>>
Push(c) ==
  IF c \in dag.free
  THEN freeNodes' = Append(freeNodes, c) /\ UNCHANGED <<byTag, seq>>
  ELSE /\ seq' = Append(seq, c)
       /\ byTag' = IF dag.tag[c] = NoTag THEN byTag
                   ELSE [byTag EXCEPT ![dag.tag[c]] = Append(@, c)]
       /\ UNCHANGED freeNodes

\* The loops over components and over cadj[c] go up in number.
NextTodo(c) == c \in todo /\ \A w \in todo : c <= w

\* Components with no incoming edge are ready at once.
Seed(c) ==
  /\ step = "seed" /\ NextTodo(c)
  /\ Push(c)
  /\ todo' = todo \ {c}
  /\ UNCHANGED <<dag, indeg, emitted, topo, lastTag, step>>

\* emit(c), up to its loop.
Emit(c) ==
  /\ emitted' = emitted \cup {c}
  /\ topo' = Append(topo, c)
  /\ todo' = dag.succ[c]

\* Its loop: a consumer is ready when its last producer is out.
ReadyEager(w) == indeg[w] <= 2
ReadyLate(w) == indeg[w] = 0
Ready(w) == indeg[w] = 1
Unblock(w) ==
  /\ step = "run" /\ NextTodo(w)
  /\ indeg' = [indeg EXCEPT ![w] = @ - 1]
  /\ IF Ready(w) THEN Push(w) ELSE UNCHANGED queues
  /\ todo' = todo \ {w}
  /\ UNCHANGED <<dag, emitted, topo, lastTag, step>>

\* Between two loops: pick the next component.
Picking == step = "run" /\ todo = {} /\ emitted # dag.comp

DrainFree ==
  /\ Picking /\ freeNodes # <<>>
  /\ Emit(Head(freeNodes))
  /\ freeNodes' = Tail(freeNodes)
  /\ UNCHANGED <<dag, indeg, byTag, seq, lastTag, step>>

IsStaleStale(q) == FALSE
IsStale(q) == Head(q) \in emitted

SameType == lastTag # NoTag /\ byTag[lastTag] # <<>>

SkipSameType ==
  /\ Picking /\ freeNodes = <<>> /\ SameType /\ IsStale(byTag[lastTag])
  /\ byTag' = [byTag EXCEPT ![lastTag] = Tail(@)]
  /\ UNCHANGED <<dag, indeg, freeNodes, seq, emitted, topo, lastTag, todo, step>>

TakeSameType ==
  /\ Picking /\ freeNodes = <<>> /\ SameType /\ ~IsStale(byTag[lastTag])
  /\ Emit(Head(byTag[lastTag]))
  /\ byTag' = [byTag EXCEPT ![lastTag] = Tail(@)]
  /\ UNCHANGED <<dag, indeg, freeNodes, seq, lastTag, step>>

\* With seq empty here, the code raises its internal error.
FallBack == Picking /\ freeNodes = <<>> /\ ~SameType

SkipOldest ==
  /\ FallBack /\ seq # <<>> /\ IsStale(seq)
  /\ seq' = Tail(seq)
  /\ UNCHANGED <<dag, indeg, freeNodes, byTag, emitted, topo, lastTag, todo, step>>

TakeOldest ==
  /\ FallBack /\ seq # <<>> /\ ~IsStale(seq)
  /\ Emit(Head(seq))
  /\ seq' = Tail(seq)
  /\ lastTag' = dag.tag[Head(seq)]
  /\ UNCHANGED <<dag, indeg, freeNodes, byTag, step>>

EndLoop ==
  /\ todo = {}
  /\ \/ step = "seed" /\ step' = "run"
     \/ step = "run" /\ emitted = dag.comp /\ step' = "done"
  /\ UNCHANGED <<dag, indeg, queues, emitted, topo, lastTag, todo>>

Schedule ==
  \/ \E c \in dag.comp : Seed(c) \/ Unblock(c)
  \/ DrainFree \/ SkipSameType \/ TakeSameType \/ SkipOldest \/ TakeOldest
  \/ EndLoop

SchedSpec == IsCondensation(dag) /\ StartOn(dag) /\ [][Schedule]_svars

-----------------------------------------------------------------------------
SeqOfComps(q) == q \in Seq(dag.comp)

\* Types, for whatever condensation the scheduler was started on.
SchedTypeOK ==
  /\ IsCondensation(dag)
  /\ indeg \in [dag.comp -> Nat]
  /\ SeqOfComps(freeNodes) /\ SeqOfComps(seq) /\ SeqOfComps(topo)
  /\ byTag \in [Tag -> Seq(dag.comp)]
  /\ emitted \subseteq dag.comp /\ todo \subseteq dag.comp
  /\ lastTag \in Tag \cup {NoTag}
  /\ step \in {"seed", "run", "done"}

\* The order of emission is a linear extension: a component comes after all those
\* it reads from and comes once, although it may wait in two queues and one entry
\* outlives its emission (graph.h:226-228, 283-286).
ProducersFirst ==
  \A k \in DOMAIN topo : \A b \in Feeders(topo[k]) : \E j \in 1..(k - 1) : topo[j] = b
EmittedOnce == \A j, k \in DOMAIN topo : topo[j] = topo[k] => j = k
TopologicalOrder == ProducersFirst /\ EmittedOnce

\* The internal error at graph.h:295-296, which FallBack with an empty seq would
\* raise, never is: while components are left and the other queues have nothing to
\* offer, seq holds a live one behind however many stale entries.
NeverRunsOut == FallBack => \E k \in DOMAIN seq : seq[k] \notin emitted

\* A type run is not broken while it can go on: when the next item is chosen and a
\* ready action has the type of the last item, one of that type is taken.
ReadyComps == {c \in dag.comp \ emitted : Feeders(c) \subseteq emitted}
TypeGreedy ==
  [][\A c \in emitted' \ emitted :
       /\ c \notin dag.free /\ lastTag # NoTag
       /\ \E d \in ReadyComps \ dag.free : dag.tag[d] = lastTag
       => dag.tag[c] = lastTag]_svars

\* Whatever its preference, the scheduler places one linear extension.
Extension == INSTANCE LinearExtension WITH out <- topo
ImplementsLinearExtension == Extension!AnyOrder
=============================================================================
