------------------------------- MODULE Tarjan -------------------------------
(***************************************************************************)
(* graph_impl::Tarjan (include/wolvicmod/elab/graph.h:117-161): the        *)
(* strongly connected components of the evaluation graph.  One step per    *)
(* edge followed and per call of strongConnect() left; the C++ call stack  *)
(* is the variable calls.                                                  *)
(***************************************************************************)
EXTENDS Integers, Sequences, FiniteSets

VARIABLES
  adj,     \* node -> the nodes its edges lead to; they were added going up in number
  index,   \* node -> the number of its visit, Unset before
  low,     \* node -> low_
  onStack, \* node -> BOOLEAN
  stack,   \* visited nodes whose component is not closed
  calls,   \* strongConnect() calls running: the node and the edges left to follow,
           \* with the one whose call runs above it
  comps,   \* components closed so far, each as a set of nodes
  nextIndex \* next_

tvars == <<adj, index, low, onStack, stack, calls, comps, nextIndex>>

Node == DOMAIN adj
Unset == 0

TarjanOn(a) ==
  /\ adj = a
  /\ index = [v \in Node |-> Unset] /\ low = [v \in Node |-> Unset]
  /\ onStack = [v \in Node |-> FALSE]
  /\ stack = <<>> /\ calls = <<>> /\ comps = <<>> /\ nextIndex = 1

Lesser(x, y) == IF x <= y THEN x ELSE y

\* The call that runs and the edge it is at.
Call == calls[Len(calls)]
HasEdge == calls # <<>> /\ Call.left # {}
AtEdge(w) == w \in Call.left /\ \A u \in Call.left : w <= u
Past(c, w) == [node |-> c.node, left |-> c.left \ {w}]

\* strongConnect(v) up to its loop.
Enter(v) ==
  /\ index' = [index EXCEPT ![v] = nextIndex]
  /\ low' = [low EXCEPT ![v] = nextIndex]
  /\ nextIndex' = nextIndex + 1
  /\ stack' = Append(stack, v)
  /\ onStack' = [onStack EXCEPT ![v] = TRUE]
  /\ calls' = Append(calls, [node |-> v, left |-> adj[v]])
  /\ UNCHANGED <<adj, comps>>

\* run(): the next node not visited yet.
VisitRoot(v) ==
  /\ calls = <<>> /\ index[v] = Unset
  /\ \A w \in Node : index[w] = Unset => v <= w
  /\ Enter(v)

FollowEdge(w) ==
  /\ HasEdge /\ AtEdge(w) /\ index[w] = Unset
  /\ Enter(w)

\* (Names ending in Everywhere and Own are slips of the operator after them; no action
\* uses them.)
CountsEverywhere(w) == TRUE
Counts(w) == onStack[w]
LookBack(w) ==
  /\ HasEdge /\ AtEdge(w) /\ index[w] # Unset
  /\ low' = IF Counts(w) THEN [low EXCEPT ![Call.node] = Lesser(@, index[w])] ELSE low
  /\ calls' = [calls EXCEPT ![Len(calls)] = Past(@, w)]
  /\ UNCHANGED <<adj, index, onStack, stack, comps, nextIndex>>

\* The end of strongConnect(v): a node that reaches no earlier one closes its
\* component.  Its caller takes the low over and goes on to the next edge.
Position(v) == CHOOSE k \in DOMAIN stack : stack[k] = v
Above(v) == {stack[k] : k \in Position(v)..Len(stack)}

Caller == calls[Len(calls) - 1].node
ReturnLowOwn(lw) == lw
ReturnLow(lw) ==
  IF Len(calls) = 1 THEN lw
  ELSE [lw EXCEPT ![Caller] = Lesser(@, lw[Call.node])]

Leave ==
  /\ calls # <<>> /\ ~HasEdge
  /\ IF low[Call.node] = index[Call.node]
     THEN /\ comps' = Append(comps, Above(Call.node))
          /\ onStack' = [v \in Node |-> onStack[v] /\ v \notin Above(Call.node)]
          /\ stack' = SubSeq(stack, 1, Position(Call.node) - 1)
     ELSE UNCHANGED <<comps, onStack, stack>>
  /\ low' = ReturnLow(low)
  /\ calls' = [k \in 1..(Len(calls) - 1) |->
                IF k < Len(calls) - 1 THEN calls[k] ELSE Past(calls[k], Call.node)]
  /\ UNCHANGED <<adj, index, nextIndex>>

TarjanDone == calls = <<>> /\ \A v \in Node : index[v] # Unset
TarjanStep == (\E v \in Node : VisitRoot(v) \/ FollowEdge(v) \/ LookBack(v)) \/ Leave

\* On its own: run() on any graph.
IsGraph(a) == a \in [DOMAIN a -> SUBSET DOMAIN a]
TarjanSpec == IsGraph(adj) /\ TarjanOn(adj) /\ [][TarjanStep]_tvars

-----------------------------------------------------------------------------
Closed == UNION {comps[k] : k \in DOMAIN comps}

\* The components share out the nodes, and each is strongly connected: a part of it
\* that no edge leaves for the rest of it is all of it.  With SinksClosedFirst, two
\* nodes end in one component exactly when each leads to the other.
SccsExact ==
  TarjanDone =>
    /\ Closed = Node
    /\ \A j, k \in DOMAIN comps : comps[j] \cap comps[k] # {} => j = k
    /\ \A k \in DOMAIN comps : \A S \in (SUBSET comps[k]) \ {{}} :
         (\A v \in S : adj[v] \cap comps[k] \subseteq S) => S = comps[k]

\* A component is closed after all those it leads to, at every moment: the edges
\* of the condensation go down in number.
SinksClosedFirst ==
  \A k \in DOMAIN comps : \A v \in comps[k] : \A w \in adj[v] :
    \E j \in 1..k : w \in comps[j]
=============================================================================
