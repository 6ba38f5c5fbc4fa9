----------------------------- MODULE GraphProofs -----------------------------
(***************************************************************************)
(* The two graph algorithms of buildExecOrder(), each for every graph:     *)
(* what Tarjan's leaves in comps, and what the scheduler places in topo.   *)
(***************************************************************************)
EXTENDS Tarjan, Scheduler, TLAPS, FiniteSetTheorems, WellFoundedInduction

-----------------------------------------------------------------------------
(***************************************************************************)
(* Tarjan's algorithm: disjoint components that cover the nodes, each      *)
(* closed after those it leads to.                                         *)
(***************************************************************************)

\* The edges a running call has yet to follow.
ToFollow(v, w) == \E k \in DOMAIN calls : calls[k].node = v /\ w \in calls[k].left

\* The deepest call that runs at or below a node of the stack.
Governs(k, u) ==
  /\ index[calls[k].node] <= index[u]
  /\ \A j \in DOMAIN calls : k < j => index[u] < index[calls[j].node]

TarjanTypes ==
  /\ IsGraph(adj)
  /\ index \in [Node -> Nat] /\ low \in [Node -> Nat] /\ onStack \in [Node -> BOOLEAN]
  /\ stack \in Seq(Node) /\ comps \in Seq(SUBSET Node)
  /\ calls \in Seq([node : Node, left : SUBSET Node])
  /\ nextIndex \in Nat \ {0}

\* Visits are numbered in order.
IndexInv ==
  /\ \A v \in Node : index[v] < nextIndex
  /\ \A v, w \in Node : index[v] # Unset /\ index[v] = index[w] => v = w

\* The stack holds what onStack says, in the order of the visits.
StackInv ==
  /\ \A v \in Node : onStack[v] <=> \E k \in DOMAIN stack : stack[k] = v
  /\ \A k \in DOMAIN stack : index[stack[k]] # Unset
  /\ \A j, k \in DOMAIN stack : j < k => index[stack[j]] < index[stack[k]]

\* A node visited and not on the stack is in one component.
ClosedInv ==
  /\ \A v \in Node : v \in Closed <=> index[v] # Unset /\ ~onStack[v]
  /\ \A j, k \in DOMAIN comps : comps[j] \cap comps[k] # {} => j = k
  /\ \A k \in DOMAIN comps : comps[k] # {}

\* Calls run on nodes of the stack, each later than the one below it, the first at
\* its bottom.
CallsInv ==
  /\ \A k \in DOMAIN calls : onStack[calls[k].node] /\ calls[k].left \subseteq adj[calls[k].node]
  /\ \A j, k \in DOMAIN calls : j < k => index[calls[j].node] < index[calls[k].node]
  /\ \A v \in Node : onStack[v] => calls # <<>> /\ index[calls[1].node] <= index[v]

\* An edge followed leads to a visited node.
EdgeInv ==
  \A v \in Node : \A w \in adj[v] :
    index[v] # Unset => ToFollow(v, w) \/ index[w] # Unset

\* The low of a call is a visit still on the stack, and no later than its own or than
\* any that an edge followed from the nodes it governs leads to.
LowInv ==
  /\ \A k \in DOMAIN calls :
       /\ low[calls[k].node] <= index[calls[k].node]
       /\ \E y \in Node : onStack[y] /\ index[y] = low[calls[k].node]
  /\ \A k \in DOMAIN calls : \A u \in Node : \A w \in adj[u] :
       onStack[u] /\ Governs(k, u) /\ onStack[w] /\ ~ToFollow(u, w)
         => low[calls[k].node] <= index[w]

TarjanInv ==
  /\ TarjanTypes /\ IndexInv /\ StackInv /\ ClosedInv /\ CallsInv /\ EdgeInv /\ LowInv
  /\ SinksClosedFirst

-----------------------------------------------------------------------------
LEMMA Element ==
  ASSUME NEW S, NEW q \in Seq(S)
  PROVE  Len(q) \in Nat /\ DOMAIN q = 1..Len(q) /\ \A k \in DOMAIN q : q[k] \in S
OBVIOUS

LEMMA IsASeq ==
  ASSUME NEW S, NEW n \in Nat, NEW q \in [1..n -> S]
  PROVE  q \in Seq(S) /\ Len(q) = n
OBVIOUS

LEMMA TarjanFacts ==
  ASSUME TarjanTypes
  PROVE  /\ \A v \in Node : /\ index[v] \in Nat /\ low[v] \in Nat /\ onStack[v] \in BOOLEAN
                            /\ adj[v] \subseteq Node
         /\ \A k \in DOMAIN calls : calls[k].node \in Node /\ calls[k].left \subseteq Node
         /\ \A k \in DOMAIN stack : stack[k] \in Node
         /\ Len(calls) \in Nat /\ DOMAIN calls = 1..Len(calls)
         /\ Len(stack) \in Nat /\ DOMAIN stack = 1..Len(stack)
         /\ Len(comps) \in Nat /\ DOMAIN comps = 1..Len(comps)
<1>1. \A v \in Node : /\ index[v] \in Nat /\ low[v] \in Nat /\ onStack[v] \in BOOLEAN
                      /\ adj[v] \subseteq Node
  BY DEF TarjanTypes, IsGraph, Node
<1>2. calls \in Seq([node : Node, left : SUBSET Node]) /\ stack \in Seq(Node)
        /\ comps \in Seq(SUBSET Node)
  BY DEF TarjanTypes
<1>3. \A k \in DOMAIN calls : calls[k] \in [node : Node, left : SUBSET Node]
  BY <1>2, Element
<1>4. \A k \in DOMAIN calls : calls[k].node \in Node /\ calls[k].left \subseteq Node
  BY <1>3
<1>5. \A k \in DOMAIN stack : stack[k] \in Node
  BY <1>2
<1> QED BY <1>1, <1>2, <1>4, <1>5

LEMMA LastCall ==
  ASSUME TarjanTypes, calls # <<>>
  PROVE  \E n \in Nat, c \in Node :
           n = Len(calls) /\ n \in DOMAIN calls /\ DOMAIN calls = 1..n /\ c = calls[n].node
<1>1. Len(calls) # 0
  BY DEF TarjanTypes
<1>2. Len(calls) \in DOMAIN calls
  BY <1>1, TarjanFacts
<1> QED BY <1>2, TarjanFacts

\* The stack above a node is what was visited since.
LEMMA Segment ==
  ASSUME TarjanTypes, StackInv, NEW v \in Node, onStack[v]
  PROVE  /\ Position(v) \in DOMAIN stack /\ stack[Position(v)] = v
         /\ Above(v) = {u \in Node : onStack[u] /\ index[v] <= index[u]}
         /\ \A k \in DOMAIN stack : k < Position(v) <=> index[stack[k]] < index[v]
<1>1. \E k \in DOMAIN stack : stack[k] = v
  BY DEF StackInv
<1>2. Position(v) \in DOMAIN stack /\ stack[Position(v)] = v
  BY <1>1 DEF Position
<1>3. \A k \in DOMAIN stack : k < Position(v) <=> index[stack[k]] < index[v]
  <2> TAKE k \in DOMAIN stack
  <2>1. index[stack[k]] \in Nat /\ index[v] \in Nat /\ k \in Int /\ Position(v) \in Int
    BY <1>2, TarjanFacts
  <2>2. CASE k < Position(v)
    BY <1>2, <2>2 DEF StackInv
  <2>3. CASE k = Position(v)
    BY <1>2, <2>1, <2>3
  <2>4. CASE Position(v) < k
    <3>1. index[v] < index[stack[k]]
      BY <1>2, <2>4 DEF StackInv
    <3> QED BY <2>1, <2>4, <3>1
  <2> QED BY <2>1, <2>2, <2>3, <2>4
<1>4. ASSUME NEW u PROVE u \in Above(v) <=> u \in Node /\ onStack[u] /\ index[v] <= index[u]
  <2>1. ASSUME u \in Above(v) PROVE u \in Node /\ onStack[u] /\ index[v] <= index[u]
    <3>1. PICK k \in Position(v)..Len(stack) : stack[k] = u
      BY <2>1 DEF Above
    <3>2. k \in DOMAIN stack /\ k \in Int /\ Position(v) \in Int /\ ~(k < Position(v))
      BY <1>2, <3>1, TarjanFacts
    <3>3. u \in Node /\ onStack[u] /\ ~(index[u] < index[v])
      BY <1>3, <3>1, <3>2, TarjanFacts DEF StackInv
    <3> QED BY <3>3, TarjanFacts
  <2>2. ASSUME u \in Node, onStack[u], index[v] <= index[u] PROVE u \in Above(v)
    <3>1. PICK k \in DOMAIN stack : stack[k] = u
      BY <2>2 DEF StackInv
    <3>2. ~(index[u] < index[v])
      BY <2>2, TarjanFacts
    <3>3. ~(k < Position(v))
      BY <1>3, <3>1, <3>2
    <3>4. k \in Position(v)..Len(stack)
      BY <1>2, <3>1, <3>3, TarjanFacts
    <3> QED BY <3>1, <3>4 DEF Above
  <2> QED BY <2>1, <2>2
<1> QED BY <1>2, <1>3, <1>4

-----------------------------------------------------------------------------
\* strongConnect(v) begins.
LEMMA EnterStep ==
  ASSUME TarjanInv, NEW v \in Node, index[v] = Unset, Enter(v)
  PROVE  TarjanInv'
<1> DEFINE n == Len(calls)
<1> DEFINE s == Len(stack)
<1>1. /\ TarjanTypes /\ IndexInv /\ StackInv /\ ClosedInv /\ CallsInv /\ EdgeInv
      /\ LowInv /\ SinksClosedFirst
  BY DEF TarjanInv
<1>2. ~onStack[v]
  BY <1>1, TarjanFacts DEF StackInv
<1>3. adj' = adj /\ Node' = Node /\ comps' = comps /\ nextIndex' = nextIndex + 1
  BY DEF Enter, Node
<1>4. /\ index'[v] = nextIndex /\ low'[v] = nextIndex /\ onStack'[v]
      /\ \A x \in Node : x # v => /\ index'[x] = index[x] /\ low'[x] = low[x]
                                  /\ onStack'[x] = onStack[x]
  BY <1>1 DEF Enter, TarjanTypes
<1>5. /\ n \in Nat /\ DOMAIN calls' = 1..(n + 1) /\ DOMAIN calls = 1..n
      /\ \A k \in 1..n : calls'[k] = calls[k]
      /\ calls'[n + 1] = [node |-> v, left |-> adj[v]]
  BY <1>1, TarjanFacts DEF Enter, TarjanTypes
<1>6. /\ s \in Nat /\ DOMAIN stack' = 1..(s + 1) /\ DOMAIN stack = 1..s
      /\ \A k \in 1..s : stack'[k] = stack[k]
      /\ stack'[s + 1] = v
  BY <1>1, TarjanFacts DEF Enter, TarjanTypes
<1>7. nextIndex \in Nat \ {0}
  BY <1>1 DEF TarjanTypes
<1>8. TarjanTypes'
  <2>1. adj[v] \in SUBSET Node
    BY <1>1, TarjanFacts
  <2>2. stack' \in Seq(Node) /\ calls' \in Seq([node : Node, left : SUBSET Node])
    BY <1>1, <2>1 DEF Enter, TarjanTypes
  <2>3. /\ index' \in [Node -> Nat] /\ low' \in [Node -> Nat]
        /\ onStack' \in [Node -> BOOLEAN]
    BY <1>1, <1>7 DEF Enter, TarjanTypes
  <2> QED BY <1>1, <1>3, <1>7, <2>2, <2>3 DEF TarjanTypes
<1>9. IndexInv'
  <2>1. \A x \in Node : index[x] < nextIndex /\ index[x] \in Nat
    BY <1>1, TarjanFacts DEF IndexInv
  <2>2. \A x \in Node : index'[x] < nextIndex'
    BY <1>3, <1>4, <1>7, <2>1
  <2>3. \A x, w \in Node : index'[x] # Unset /\ index'[x] = index'[w] => x = w
    <3> SUFFICES ASSUME NEW x \in Node, NEW w \in Node,
                        index'[x] # Unset, index'[x] = index'[w]
                 PROVE  x = w
      OBVIOUS
    <3>1. CASE x = v
      BY <1>4, <1>7, <2>1, <3>1
    <3>2. CASE w = v
      BY <1>4, <1>7, <2>1, <3>2
    <3>3. CASE x # v /\ w # v
      BY <1>1, <1>4, <3>3 DEF IndexInv
    <3> QED BY <3>1, <3>2, <3>3
  <2> QED BY <1>3, <2>2, <2>3 DEF IndexInv, Unset
<1>10. StackInv'
  <2>1. \A x \in Node : onStack'[x] <=> \E k \in DOMAIN stack' : stack'[k] = x
    <3> TAKE x \in Node
    <3>1. CASE x = v
      <4>1. s + 1 \in DOMAIN stack' /\ stack'[s + 1] = x
        BY <1>6, <3>1
      <4> QED BY <1>4, <3>1, <4>1
    <3>2. CASE x # v
      <4>1. onStack'[x] = onStack[x]
        BY <1>4, <3>2
      <4>2. onStack[x] <=> \E k \in 1..s : stack[k] = x
        BY <1>1, <1>6 DEF StackInv
      <4> QED BY <1>6, <3>2, <4>1, <4>2
    <3> QED BY <3>1, <3>2
  <2>2. \A k \in 1..s : stack[k] \in Node /\ stack[k] # v
    BY <1>1, <1>6, TarjanFacts DEF StackInv
  <2>3. \A k \in 1..s : index'[stack'[k]] = index[stack[k]] /\ index[stack[k]] < nextIndex
    BY <1>1, <1>4, <1>6, <2>2 DEF IndexInv
  <2>4. index'[stack'[s + 1]] = nextIndex
    BY <1>4, <1>6
  <2>5. \A k \in DOMAIN stack' : index'[stack'[k]] # Unset
    BY <1>1, <1>6, <1>7, <2>3, <2>4 DEF StackInv, Unset
  <2>6. \A j, k \in DOMAIN stack' : j < k => index'[stack'[j]] < index'[stack'[k]]
    BY <1>1, <1>6, <2>3, <2>4 DEF StackInv
  <2> QED BY <1>3, <2>1, <2>5, <2>6 DEF StackInv, Unset
<1>11. ClosedInv'
  <2>1. Closed' = Closed
    BY <1>3 DEF Closed
  <2>2. \A x \in Node : x \in Closed <=> index'[x] # Unset /\ ~onStack'[x]
    BY <1>1, <1>2, <1>4, <1>7 DEF ClosedInv, Unset
  <2> QED BY <1>1, <1>3, <2>1, <2>2 DEF ClosedInv, Unset
<1>12. \A k \in 1..n : /\ calls'[k].node = calls[k].node /\ calls[k].node \in Node /\ calls[k].node # v
                       /\ onStack[calls[k].node] /\ index[calls[k].node] < nextIndex
  BY <1>1, <1>2, <1>5, TarjanFacts DEF CallsInv, IndexInv
<1>13. calls'[n + 1].node = v
  BY <1>5
<1>14. \A x, w : ToFollow(x, w)' <=> ToFollow(x, w) \/ (x = v /\ w \in adj[v])
  BY <1>5, <1>12, <1>13 DEF ToFollow
<1>15. CallsInv'
  <2>1. \A k \in DOMAIN calls' : onStack'[calls'[k].node] /\ calls'[k].left \subseteq adj[calls'[k].node]
    <3> TAKE k \in DOMAIN calls'
    <3>1. CASE k = n + 1
      BY <1>4, <1>5, <1>13, <3>1
    <3>2. CASE k \in 1..n
      BY <1>1, <1>4, <1>5, <1>12, <3>2 DEF CallsInv
    <3> QED BY <1>5, <3>1, <3>2
  <2>2. \A j, k \in DOMAIN calls' : j < k => index'[calls'[j].node] < index'[calls'[k].node]
    <3> TAKE j, k \in DOMAIN calls'
    <3> HAVE j < k
    <3>1. j \in 1..n /\ index'[calls'[j].node] = index[calls[j].node]
      BY <1>4, <1>5, <1>12
    <3>2. CASE k = n + 1
      BY <1>4, <1>12, <1>13, <3>1, <3>2
    <3>3. CASE k \in 1..n
      BY <1>1, <1>4, <1>5, <1>12, <3>1, <3>3 DEF CallsInv
    <3> QED BY <1>5, <3>2, <3>3
  <2>3. \A x \in Node : onStack'[x] => calls' # <<>> /\ index'[calls'[1].node] <= index'[x]
    <3> TAKE x \in Node
    <3> HAVE onStack'[x]
    <3>1. 1 \in DOMAIN calls' /\ calls' # <<>>
      BY <1>5
    <3>2. CASE n = 0
      <4>1. x = v
        BY <1>1, <1>4, <1>5, <3>2 DEF CallsInv
      <4> QED BY <1>4, <1>7, <1>13, <3>1, <3>2, <4>1
    <3>3. CASE n # 0
      BY <1>1, <1>4, <1>5, <1>7, <1>12, <3>1, <3>3, TarjanFacts DEF CallsInv
    <3> QED BY <3>2, <3>3
  <2> QED BY <1>3, <2>1, <2>2, <2>3 DEF CallsInv
<1>16. EdgeInv'
  <2>1. ASSUME NEW x \in Node, NEW w \in adj[x], index'[x] # Unset
        PROVE  ToFollow(x, w)' \/ index'[w] # Unset
    <3>1. w \in Node
      BY <1>1, TarjanFacts
    <3>2. CASE x = v
      BY <1>14, <3>2
    <3>3. CASE x # v
      <4>1. ToFollow(x, w) \/ index[w] # Unset
        BY <1>1, <1>4, <2>1, <3>3 DEF EdgeInv
      <4> QED BY <1>4, <1>7, <1>14, <3>1, <4>1 DEF Unset
    <3> QED BY <3>2, <3>3
  <2> QED BY <1>3, <2>1 DEF EdgeInv, Unset
<1>17. LowInv'
  <2>1. ASSUME NEW k \in DOMAIN calls'
        PROVE  /\ low'[calls'[k].node] <= index'[calls'[k].node]
               /\ \E y \in Node : onStack'[y] /\ index'[y] = low'[calls'[k].node]
    <3>1. CASE k = n + 1
      BY <1>4, <1>7, <1>13, <3>1
    <3>2. CASE k \in 1..n
      <4>1. PICK y \in Node : onStack[y] /\ index[y] = low[calls[k].node]
        BY <1>1, <1>5, <3>2 DEF LowInv
      <4>2. onStack'[y] /\ index'[y] = index[y]
        BY <1>2, <1>4, <4>1
      <4> QED BY <1>1, <1>4, <1>5, <1>12, <3>2, <4>1, <4>2 DEF LowInv
    <3> QED BY <1>5, <3>1, <3>2
  <2>2. ASSUME NEW k \in DOMAIN calls', NEW u \in Node, NEW w \in adj[u],
               onStack'[u], Governs(k, u)', onStack'[w], ~ToFollow(u, w)'
        PROVE  low'[calls'[k].node] <= index'[w]
    <3>1. u # v /\ ~ToFollow(u, w) /\ onStack[u]
      BY <1>4, <1>14, <2>2
    <3>2. index[u] # Unset /\ w \in Node
      BY <1>1, <3>1, TarjanFacts DEF StackInv
    <3>3. index[w] # Unset
      BY <1>1, <3>1, <3>2 DEF EdgeInv
    <3>4. w # v /\ onStack[w] /\ index'[w] = index[w] /\ index'[u] = index[u]
      BY <1>4, <2>2, <3>1, <3>2, <3>3
    <3>5. index[u] < nextIndex
      BY <1>1 DEF IndexInv
    <3>6. k \in 1..n
      BY <1>1, <1>4, <1>5, <1>7, <1>13, <2>2, <3>4, <3>5, TarjanFacts DEF Governs
    <3>7. Governs(k, u)
      BY <1>4, <1>5, <1>12, <2>2, <3>4, <3>6 DEF Governs
    <3>8. low[calls[k].node] <= index[w]
      BY <1>1, <1>5, <3>1, <3>4, <3>6, <3>7 DEF LowInv
    <3> QED BY <1>4, <1>12, <3>4, <3>6, <3>8
  <2> QED BY <1>3, <2>1, <2>2 DEF LowInv
<1>18. SinksClosedFirst'
  BY <1>1, <1>3 DEF SinksClosedFirst
<1> QED BY <1>8, <1>9, <1>10, <1>11, <1>15, <1>16, <1>17, <1>18 DEF TarjanInv

\* strongConnect() meets a visited node again.
LEMMA LookStep ==
  ASSUME TarjanInv, NEW w \in Node, LookBack(w)
  PROVE  TarjanInv'
<1>1. /\ TarjanTypes /\ IndexInv /\ StackInv /\ ClosedInv /\ CallsInv /\ EdgeInv
      /\ LowInv /\ SinksClosedFirst
  BY DEF TarjanInv
<1>2. PICK n \in Nat, c \in Node :
        n = Len(calls) /\ n \in DOMAIN calls /\ DOMAIN calls = 1..n /\ c = calls[n].node
  BY <1>1, LastCall DEF LookBack, HasEdge
<1>3. /\ adj' = adj /\ Node' = Node /\ comps' = comps /\ nextIndex' = nextIndex
      /\ index' = index /\ onStack' = onStack /\ stack' = stack
      /\ w \in calls[n].left /\ index[w] # Unset
  BY <1>2 DEF LookBack, Node, AtEdge, Call
<1>4. /\ DOMAIN calls' = 1..n /\ Len(calls') = n
      /\ \A k \in 1..n : calls'[k].node = calls[k].node
      /\ \A k \in 1..n : k # n => calls'[k].left = calls[k].left
      /\ calls'[n].left = calls[n].left \ {w}
      /\ calls' \in Seq([node : Node, left : SUBSET Node])
  <2>1. calls' = [calls EXCEPT ![n] = Past(calls[n], w)]
    BY <1>2 DEF LookBack
  <2>2. calls[n] \in [node : Node, left : SUBSET Node]
    BY <1>1, <1>2, Element DEF TarjanTypes
  <2>3. Past(calls[n], w) \in [node : Node, left : SUBSET Node]
    BY <2>2 DEF Past
  <2>4. calls' \in Seq([node : Node, left : SUBSET Node]) /\ Len(calls') = n
    BY <1>1, <1>2, <2>1, <2>3 DEF TarjanTypes
  <2>5. \A k \in 1..n : calls'[k] = IF k = n THEN Past(calls[n], w) ELSE calls[k]
    BY <1>2, <2>1
  <2> QED BY <2>4, <2>5, Element, <1>2 DEF Past
<1>5. /\ \A x \in Node : x # c => low'[x] = low[x]
      /\ low'[c] \in Nat /\ low'[c] <= low[c]
      /\ onStack[w] => low'[c] <= index[w]
      /\ low'[c] = low[c] \/ (onStack[w] /\ low'[c] = index[w])
      /\ low' \in [Node -> Nat]
  <2>1. low \in [Node -> Nat] /\ index[w] \in Nat /\ low[c] \in Nat /\ Call.node = c
    BY <1>1, <1>2 DEF TarjanTypes, Call
  <2>2. low' = IF onStack[w] THEN [low EXCEPT ![c] = Lesser(low[c], index[w])] ELSE low
    BY <2>1 DEF LookBack, Counts
  <2> QED BY <2>1, <2>2 DEF Lesser
<1>6. \A x, y : ToFollow(x, y)' <=> ToFollow(x, y) /\ ~(x = c /\ y = w)
  <2> SUFFICES ASSUME NEW x, NEW y
               PROVE  ToFollow(x, y)' <=> ToFollow(x, y) /\ ~(x = c /\ y = w)
    OBVIOUS
  <2>1. \A k \in 1..n : calls[k].node = c => k = n
    BY <1>1, <1>2, TarjanFacts DEF CallsInv
  <2> QED BY <1>2, <1>4, <2>1 DEF ToFollow
<1>7. TarjanTypes'
  BY <1>1, <1>3, <1>4, <1>5 DEF TarjanTypes
<1>8. IndexInv' /\ StackInv' /\ ClosedInv' /\ SinksClosedFirst'
  BY <1>1, <1>3 DEF IndexInv, StackInv, ClosedInv, Closed, SinksClosedFirst
<1>9. CallsInv'
  BY <1>1, <1>2, <1>3, <1>4 DEF CallsInv
<1>10. EdgeInv'
  BY <1>1, <1>3, <1>6 DEF EdgeInv
<1>11. LowInv'
  <2>1. ASSUME NEW k \in 1..n
        PROVE  /\ calls[k].node \in Node /\ low'[calls[k].node] <= low[calls[k].node]
               /\ low'[calls[k].node] \in Nat /\ low[calls[k].node] \in Nat
               /\ index[calls[k].node] \in Nat
    <3>1. calls[k].node \in Node /\ index[calls[k].node] \in Nat /\ low[calls[k].node] \in Nat
      BY <1>1, <1>2, TarjanFacts
    <3>2. CASE calls[k].node = c
      BY <1>5, <3>1, <3>2
    <3>3. CASE calls[k].node # c
      BY <1>5, <3>1, <3>3
    <3> QED BY <3>1, <3>2, <3>3
  <2>2. ASSUME NEW k \in 1..n
        PROVE  /\ low'[calls[k].node] <= index[calls[k].node]
               /\ \E y \in Node : onStack[y] /\ index[y] = low'[calls[k].node]
    <3>1. /\ low[calls[k].node] <= index[calls[k].node]
          /\ \E y \in Node : onStack[y] /\ index[y] = low[calls[k].node]
      BY <1>1, <1>2 DEF LowInv
    <3> QED BY <1>5, <2>1, <3>1
  <2>3. ASSUME NEW k \in 1..n, NEW u \in Node, NEW y \in adj[u],
               onStack[u], Governs(k, u)', onStack[y], ~ToFollow(u, y)'
        PROVE  low'[calls[k].node] <= index[y]
    <3>1. Governs(k, u)
      BY <1>2, <1>3, <1>4, <2>3 DEF Governs
    <3>2. y \in Node /\ index[y] \in Nat
      BY <1>1, TarjanFacts
    <3>3. CASE ~ToFollow(u, y)
      <4>1. low[calls[k].node] <= index[y]
        BY <1>1, <1>2, <2>3, <3>1, <3>3 DEF LowInv
      <4> QED BY <2>1, <3>2, <4>1
    <3>4. CASE u = c /\ y = w
      <4>1. k = n
        BY <1>2, <3>1, <3>4, TarjanFacts, <1>1 DEF Governs
      <4> QED BY <1>2, <1>5, <2>3, <3>4, <4>1
    <3> QED BY <1>6, <2>3, <3>3, <3>4
  <2> QED BY <1>3, <1>4, <2>2, <2>3 DEF LowInv
<1> QED BY <1>7, <1>8, <1>9, <1>10, <1>11 DEF TarjanInv

-----------------------------------------------------------------------------
\* strongConnect(v) ends.  The facts both ways out share.
Leaving(n, v) ==
  /\ n = Len(calls) /\ n \in DOMAIN calls /\ DOMAIN calls = 1..n /\ v = calls[n].node
  /\ calls[n].left = {}

LEMMA LastSees ==
  ASSUME TarjanInv, NEW n \in Nat, NEW v \in Node, Leaving(n, v)
  PROVE  /\ onStack[v] /\ index[v] # Unset /\ low[v] <= index[v]
         /\ \A k \in 1..n : k # n => index[calls[k].node] < index[v]
         /\ \A u \in Node : \A w \in adj[u] :
              onStack[u] /\ index[v] <= index[u]
                => /\ w \in Closed \/ onStack[w]
                   /\ onStack[w] => low[v] <= index[w]
<1>1. /\ TarjanTypes /\ StackInv /\ ClosedInv /\ CallsInv /\ EdgeInv /\ LowInv
  BY DEF TarjanInv
<1>2. /\ n = Len(calls) /\ n \in DOMAIN calls /\ DOMAIN calls = 1..n /\ v = calls[n].node
      /\ calls[n].left = {}
  BY DEF Leaving
<1>3. onStack[v] /\ index[v] # Unset /\ low[v] <= index[v]
  BY <1>1, <1>2 DEF CallsInv, StackInv, LowInv
<1>4. \A k \in 1..n : k # n => index[calls[k].node] < index[v]
  BY <1>1, <1>2 DEF CallsInv
<1>5. ASSUME NEW u \in Node, NEW w \in adj[u], onStack[u], index[v] <= index[u]
      PROVE  /\ w \in Closed \/ onStack[w]
             /\ onStack[w] => low[v] <= index[w]
  <2>1. w \in Node /\ index[u] \in Nat /\ index[v] \in Nat
    BY <1>1, TarjanFacts
  <2>2. ~ToFollow(u, w)
    <3> SUFFICES ASSUME NEW k \in DOMAIN calls, calls[k].node = u, w \in calls[k].left
                 PROVE  FALSE
      BY DEF ToFollow
    <3> QED BY <1>2, <1>4, <1>5, <2>1
  <2>3. index[u] # Unset
    BY <1>1, <1>5 DEF StackInv
  <2>4. index[w] # Unset
    BY <1>1, <2>2, <2>3 DEF EdgeInv
  <2>5. Governs(n, u)
    BY <1>2, <1>5 DEF Governs
  <2>6. onStack[w] => low[v] <= index[w]
    BY <1>1, <1>2, <1>5, <2>2, <2>5 DEF LowInv
  <2> QED BY <1>1, <2>1, <2>4, <2>6 DEF ClosedInv
<1> QED BY <1>3, <1>4, <1>5

\* What the call stack and the lows become.
LEMMA Returned ==
  ASSUME TarjanInv, NEW n \in Nat, NEW v \in Node, Leaving(n, v), Leave
  PROVE  /\ adj' = adj /\ Node' = Node /\ index' = index /\ nextIndex' = nextIndex
         /\ DOMAIN calls' = 1..(n - 1) /\ Len(calls') = n - 1
         /\ calls' \in Seq([node : Node, left : SUBSET Node])
         /\ \A k \in 1..(n - 1) :
              calls'[k].node = calls[k].node /\ calls'[k].left \subseteq calls[k].left
         /\ \A x, y : ToFollow(x, y) /\ ~ToFollow(x, y)'
                        => n > 1 /\ x = calls[n - 1].node /\ y = v
         /\ \A x, y : ToFollow(x, y)' => ToFollow(x, y)
         /\ low' \in [Node -> Nat]
         /\ \A x \in Node : low'[x] <= low[x]
         /\ \A x \in Node : low'[x] = low[x] \/ (n > 1 /\ x = calls[n - 1].node /\ low'[x] = low[v])
         /\ n > 1 => low'[calls[n - 1].node] <= low[v]
<1>1. TarjanTypes
  BY DEF TarjanInv
<1>2. /\ n = Len(calls) /\ n \in DOMAIN calls /\ DOMAIN calls = 1..n /\ v = calls[n].node
      /\ calls[n].left = {} /\ n > 0 /\ Call.node = v
  BY DEF Leaving, Call
<1>3. adj' = adj /\ Node' = Node /\ index' = index /\ nextIndex' = nextIndex
  BY DEF Leave, Node
<1>4. \A k \in 1..n : calls[k] \in [node : Node, left : SUBSET Node]
  BY <1>1, <1>2, Element DEF TarjanTypes
<1>5. calls' = [k \in 1..(n - 1) |-> IF k < n - 1 THEN calls[k] ELSE Past(calls[k], v)]
  BY <1>2 DEF Leave
<1>6. \A k \in 1..(n - 1) : /\ calls'[k] \in [node : Node, left : SUBSET Node]
                           /\ calls'[k].node = calls[k].node
                           /\ calls'[k].left = IF k < n - 1 THEN calls[k].left
                                               ELSE calls[k].left \ {v}
  <2> TAKE k \in 1..(n - 1)
  <2>1. k \in 1..n
    OBVIOUS
  <2>2. CASE k < n - 1
    BY <1>4, <1>5, <2>1, <2>2
  <2>3. CASE ~(k < n - 1)
    <3>1. calls'[k] = [node |-> calls[k].node, left |-> calls[k].left \ {v}]
      BY <1>5, <2>3 DEF Past
    <3>2. calls[k].node \in Node /\ calls[k].left \in SUBSET Node
      BY <1>4, <2>1
    <3> QED BY <2>3, <3>1, <3>2
  <2> QED BY <2>2, <2>3
<1>7. DOMAIN calls' = 1..(n - 1)
  BY <1>5
<1>8. calls' \in Seq([node : Node, left : SUBSET Node]) /\ Len(calls') = n - 1
  <2>1. n - 1 \in Nat
    BY <1>2
  <2>2. calls' \in [1..(n - 1) -> [node : Node, left : SUBSET Node]]
    BY <1>5, <1>6
  <2> HIDE DEF Node
  <2> QED BY <2>1, <2>2, IsASeq
<1>9. ASSUME NEW x, NEW y, ToFollow(x, y)' PROVE ToFollow(x, y)
  <2>1. PICK k \in 1..(n - 1) : calls'[k].node = x /\ y \in calls'[k].left
    BY <1>7, <1>9 DEF ToFollow
  <2>2. calls'[k].node = calls[k].node
          /\ calls'[k].left = IF k < n - 1 THEN calls[k].left ELSE calls[k].left \ {v}
    BY <1>6
  <2>3. calls[k].node = x /\ y \in calls[k].left
    BY <2>1, <2>2
  <2>4. k \in DOMAIN calls
    BY <1>2
  <2> QED BY <2>3, <2>4 DEF ToFollow
<1>10. ASSUME NEW x, NEW y, ToFollow(x, y), ~ToFollow(x, y)'
       PROVE  n > 1 /\ x = calls[n - 1].node /\ y = v
  <2>1. PICK k \in 1..n : calls[k].node = x /\ y \in calls[k].left
    BY <1>2, <1>10 DEF ToFollow
  <2>2. k # n
    BY <1>2, <2>1
  <2>3. k \in 1..(n - 1)
    BY <2>2
  <2>4. y \notin calls'[k].left
    BY <1>6, <1>7, <1>10, <2>1, <2>3 DEF ToFollow
  <2>5. calls'[k].left = IF k < n - 1 THEN calls[k].left ELSE calls[k].left \ {v}
    BY <1>6, <2>3
  <2>6. ~(k < n - 1) /\ y = v
    BY <2>1, <2>4, <2>5
  <2>7. k = n - 1 /\ n > 1
    BY <2>3, <2>6
  <2> QED BY <2>1, <2>6, <2>7
<1>11. low \in [Node -> Nat] /\ low[v] \in Nat
  BY <1>1 DEF TarjanTypes
<1>12. CASE n = 1
  <2>1. low' = low
    BY <1>2, <1>12 DEF Leave, ReturnLow
  <2> QED BY <1>3, <1>6, <1>7, <1>8, <1>9, <1>10, <1>11, <1>12, <2>1
<1>13. CASE n # 1
  <2>1. n > 1 /\ n - 1 \in 1..n
    BY <1>2, <1>13
  <2>2. PICK p \in Node : p = calls[n - 1].node
    BY <1>4, <2>1
  <2>3. Caller = p
    BY <1>2, <2>2 DEF Caller
  <2>4. low' = [low EXCEPT ![p] = Lesser(low[p], low[v])]
    BY <1>2, <1>13, <2>3 DEF Leave, ReturnLow
  <2>5. /\ \A x \in Node : x # p => low'[x] = low[x]
        /\ low'[p] = Lesser(low[p], low[v])
        /\ low[p] \in Nat
    BY <1>11, <2>4
  <2>6. /\ low'[p] <= low[v] /\ low'[p] <= low[p]
        /\ low'[p] = low[p] \/ low'[p] = low[v]
    BY <1>11, <2>5 DEF Lesser
  <2>7. low' \in [Node -> Nat]
    BY <1>11, <2>4, <2>5 DEF Lesser
  <2>8. \A x \in Node : low'[x] <= low[x]
    <3> TAKE x \in Node
    <3>1. low[x] \in Nat
      BY <1>11
    <3>2. CASE x = p
      BY <2>6, <3>2
    <3>3. CASE x # p
      BY <2>5, <3>1, <3>3
    <3> QED BY <3>2, <3>3
  <2>9. \A x \in Node : low'[x] = low[x] \/ (n > 1 /\ x = calls[n - 1].node /\ low'[x] = low[v])
    BY <2>1, <2>2, <2>5, <2>6
  <2> QED BY <1>3, <1>6, <1>7, <1>8, <1>9, <1>10, <2>2, <2>6, <2>7, <2>8, <2>9
<1> QED BY <1>12, <1>13

\* An edge followed still leads to a visited node: the one left is v's.
LEMMA EdgesFollowed ==
  ASSUME TarjanInv, NEW n \in Nat, NEW v \in Node, Leaving(n, v), Leave
  PROVE  EdgeInv'
<1>1. EdgeInv /\ index[v] # Unset
  BY LastSees DEF TarjanInv
<1>2. adj' = adj /\ Node' = Node /\ index' = index
  BY Returned
<1>3. ASSUME NEW x \in Node, NEW w \in adj[x], index[x] # Unset
      PROVE  ToFollow(x, w)' \/ index[w] # Unset
  <2>1. CASE ToFollow(x, w)
    <3>1. ToFollow(x, w)' \/ w = v
      BY <2>1, Returned
    <3> QED BY <1>1, <3>1
  <2>2. CASE ~ToFollow(x, w)
    BY <1>1, <1>3, <2>2 DEF EdgeInv
  <2> QED BY <2>1, <2>2
<1> QED BY <1>2, <1>3 DEF EdgeInv, Unset

\* v reaches an earlier node: it stays on the stack, below its caller.
LEMMA KeepStep ==
  ASSUME TarjanInv, NEW n \in Nat, NEW v \in Node, Leaving(n, v), Leave,
         low[v] # index[v]
  PROVE  TarjanInv'
<1>1. /\ TarjanTypes /\ IndexInv /\ StackInv /\ ClosedInv /\ CallsInv /\ EdgeInv
      /\ LowInv /\ SinksClosedFirst
  BY DEF TarjanInv
<1>2. /\ n \in DOMAIN calls /\ DOMAIN calls = 1..n /\ v = calls[n].node /\ n > 0
      /\ Call.node = v
  BY DEF Leaving, Call
<1>3. comps' = comps /\ onStack' = onStack /\ stack' = stack
  BY <1>2 DEF Leave
<1>4. /\ adj' = adj /\ Node' = Node /\ index' = index /\ nextIndex' = nextIndex
      /\ DOMAIN calls' = 1..(n - 1) /\ Len(calls') = n - 1
      /\ calls' \in Seq([node : Node, left : SUBSET Node])
      /\ \A k \in 1..(n - 1) :
           calls'[k].node = calls[k].node /\ calls'[k].left \subseteq calls[k].left
  BY Returned
<1>5. PICK y \in Node : onStack[y] /\ index[y] = low[v]
  BY <1>1, <1>2 DEF LowInv
<1>6. n > 1
  <2>1. index[calls[1].node] <= low[v]
    BY <1>1, <1>5 DEF CallsInv
  <2>2. low[v] <= index[v] /\ low[v] \in Nat /\ index[v] \in Nat
    BY <1>1, LastSees, TarjanFacts
  <2>3. n # 1
    BY <1>2, <2>1, <2>2
  <2> QED BY <1>2, <2>3
<1>7. PICK p \in Node : p = calls[n - 1].node /\ low'[p] <= low[v] /\ low'[p] \in Nat
  <2>1. n - 1 \in DOMAIN calls
    BY <1>2, <1>6
  <2>2. calls[n - 1].node \in Node
    BY <1>1, <2>1, TarjanFacts
  <2>3. low' \in [Node -> Nat] /\ low'[calls[n - 1].node] <= low[v]
    BY <1>6, Returned
  <2> QED BY <2>2, <2>3
<1>8. TarjanTypes'
  <2>1. low' \in [Node -> Nat]
    BY Returned
  <2> QED BY <1>1, <1>3, <1>4, <2>1 DEF TarjanTypes
<1>9. IndexInv' /\ StackInv' /\ ClosedInv' /\ SinksClosedFirst'
  BY <1>1, <1>3, <1>4 DEF IndexInv, StackInv, ClosedInv, Closed, SinksClosedFirst
<1>10. CallsInv'
  <2>1. \A k \in DOMAIN calls' : onStack[calls'[k].node]
                                   /\ calls'[k].left \subseteq adj[calls'[k].node]
    BY <1>1, <1>2, <1>4 DEF CallsInv
  <2>2. \A j, k \in DOMAIN calls' : j < k => index[calls'[j].node] < index[calls'[k].node]
    BY <1>1, <1>2, <1>4 DEF CallsInv
  <2>3. calls' # <<>> /\ calls'[1].node = calls[1].node
    BY <1>4, <1>6
  <2> QED BY <1>1, <1>3, <1>4, <2>1, <2>2, <2>3 DEF CallsInv
<1>11. ASSUME NEW k \in 1..(n - 1)
       PROVE  /\ k \in DOMAIN calls /\ calls[k].node \in Node
              /\ low'[calls[k].node] \in Nat /\ low[calls[k].node] \in Nat
              /\ index[calls[k].node] \in Nat
              /\ low'[calls[k].node] <= low[calls[k].node]
  <2>1. k \in DOMAIN calls /\ calls[k].node \in Node
    BY <1>1, <1>2, TarjanFacts
  <2>2. low' \in [Node -> Nat] /\ \A x \in Node : low'[x] <= low[x]
    BY Returned
  <2>3. low[calls[k].node] \in Nat /\ index[calls[k].node] \in Nat
    BY <1>1, <2>1, TarjanFacts
  <2> QED BY <2>1, <2>2, <2>3
<1>12. ASSUME NEW k \in 1..(n - 1)
       PROVE  /\ low'[calls[k].node] <= index[calls[k].node]
              /\ \E x \in Node : onStack[x] /\ index[x] = low'[calls[k].node]
  <2>1. /\ low[calls[k].node] <= index[calls[k].node]
        /\ \E x \in Node : onStack[x] /\ index[x] = low[calls[k].node]
    BY <1>1, <1>11 DEF LowInv
  <2>2. low'[calls[k].node] = low[calls[k].node] \/ low'[calls[k].node] = low[v]
    BY <1>11, Returned
  <2> QED BY <1>5, <1>11, <2>1, <2>2
<1>13. ASSUME NEW k \in 1..(n - 1), NEW u \in Node, NEW w \in adj[u],
              onStack[u], Governs(k, u)', onStack[w], ~ToFollow(u, w)'
       PROVE  low'[calls[k].node] <= index[w]
  <2>1. /\ index[calls[k].node] <= index[u]
        /\ \A j \in 1..(n - 1) : k < j => index[u] < index[calls[j].node]
    BY <1>4, <1>13 DEF Governs
  <2>2. w \in Node /\ index[w] \in Nat /\ index[u] \in Nat /\ low[v] \in Nat /\ index[v] \in Nat
    BY <1>1, TarjanFacts
  <2>3. CASE ToFollow(u, w)
    <3>1. u = p /\ w = v
      BY <1>7, <1>13, <2>3, Returned
    <3>2. k = n - 1
      BY <1>6, <1>7, <2>1, <2>2, <3>1
    <3>3. low[v] <= index[v]
      BY LastSees
    <3> QED BY <1>7, <2>2, <3>1, <3>2, <3>3
  <2>4. CASE ~ToFollow(u, w) /\ Governs(k, u)
    <3>1. low[calls[k].node] <= index[w]
      BY <1>1, <1>11, <1>13, <2>4 DEF LowInv
    <3> QED BY <1>11, <2>2, <3>1
  <2>5. CASE ~ToFollow(u, w) /\ ~Governs(k, u)
    <3>1. PICK j \in DOMAIN calls : k < j /\ ~(index[u] < index[calls[j].node])
      BY <2>1, <2>5 DEF Governs
    <3>2. j = n
      BY <1>2, <2>1, <3>1
    <3>3. index[v] <= index[u]
      BY <1>2, <2>2, <3>1, <3>2
    <3>4. k = n - 1
      <4>1. index[p] \in Nat /\ index[p] < index[v]
        BY <1>1, <1>6, <1>7, LastSees, TarjanFacts
      <4>2. ~(index[u] < index[p])
        BY <2>2, <3>3, <4>1
      <4> QED BY <1>6, <1>7, <2>1, <4>2
    <3>5. low[v] <= index[w]
      BY <1>13, <3>3, LastSees
    <3> QED BY <1>7, <2>2, <3>4, <3>5
  <2> QED BY <2>3, <2>4, <2>5
<1>14. LowInv'
  BY <1>3, <1>4, <1>12, <1>13 DEF LowInv
<1> QED BY <1>8, <1>9, <1>10, <1>14, EdgesFollowed DEF TarjanInv

\* v reaches no earlier node: the stack from v up is a component.
LEMMA CloseStep ==
  ASSUME TarjanInv, NEW n \in Nat, NEW v \in Node, Leaving(n, v), Leave,
         low[v] = index[v]
  PROVE  TarjanInv'
<1>1. /\ TarjanTypes /\ IndexInv /\ StackInv /\ ClosedInv /\ CallsInv /\ EdgeInv
      /\ LowInv /\ SinksClosedFirst
  BY DEF TarjanInv
<1>2. /\ n \in DOMAIN calls /\ DOMAIN calls = 1..n /\ v = calls[n].node /\ n > 0
      /\ Call.node = v
  BY DEF Leaving, Call
<1>3. /\ onStack[v] /\ index[v] # Unset
      /\ \A k \in 1..n : k # n => index[calls[k].node] < index[v]
  BY LastSees
<1>4. /\ Position(v) \in DOMAIN stack /\ stack[Position(v)] = v
      /\ Above(v) = {u \in Node : onStack[u] /\ index[v] <= index[u]}
      /\ \A k \in DOMAIN stack : k < Position(v) <=> index[stack[k]] < index[v]
  BY <1>1, <1>3, Segment
<1>5. /\ adj' = adj /\ Node' = Node /\ index' = index /\ nextIndex' = nextIndex
      /\ DOMAIN calls' = 1..(n - 1) /\ Len(calls') = n - 1
      /\ calls' \in Seq([node : Node, left : SUBSET Node])
      /\ \A k \in 1..(n - 1) :
           calls'[k].node = calls[k].node /\ calls'[k].left \subseteq calls[k].left
  BY Returned
<1>6. /\ onStack' \in [Node -> BOOLEAN]
      /\ \A x \in Node : onStack'[x] <=> onStack[x] /\ index[x] < index[v]
  <2>1. onStack' = [x \in Node |-> onStack[x] /\ x \notin Above(v)]
    BY <1>2 DEF Leave
  <2>2. onStack' \in [Node -> BOOLEAN]
    BY <1>1, <2>1, TarjanFacts
  <2>3. ASSUME NEW x \in Node PROVE onStack'[x] <=> onStack[x] /\ index[x] < index[v]
    <3>1. index[x] \in Nat /\ index[v] \in Nat
      BY <1>1, TarjanFacts
    <3>2. onStack'[x] <=> onStack[x] /\ ~(onStack[x] /\ index[v] <= index[x])
      BY <1>4, <2>1
    <3> QED BY <3>1, <3>2
  <2> QED BY <2>2, <2>3
<1>7. /\ stack' \in Seq(Node) /\ DOMAIN stack' = 1..(Position(v) - 1)
      /\ \A k \in DOMAIN stack' : k \in DOMAIN stack /\ k < Position(v) /\ stack'[k] = stack[k]
      /\ \A k \in DOMAIN stack : k < Position(v) => k \in DOMAIN stack'
  <2>1. stack' = SubSeq(stack, 1, Position(v) - 1)
    BY <1>2 DEF Leave
  <2>2. stack \in Seq(Node) /\ DOMAIN stack = 1..Len(stack) /\ Len(stack) \in Nat
    BY <1>1, TarjanFacts DEF TarjanTypes
  <2>3. Position(v) - 1 \in 0..Len(stack)
    BY <1>4, <2>2
  <2>4. stack' = [k \in 1..(Position(v) - 1) |-> stack[k]]
    BY <2>1, <2>3
  <2>5. stack' \in [1..(Position(v) - 1) -> Node]
    BY <2>2, <2>3, <2>4
  <2>6. stack' \in Seq(Node)
    <3> HIDE DEF Node
    <3> QED BY <2>3, <2>5, IsASeq
  <2>7. Position(v) \in 1..Len(stack)
    BY <1>4, <2>2
  <2>8. DOMAIN stack' = 1..(Position(v) - 1)
    BY <2>4
  <2>9. \A k \in DOMAIN stack' : k \in DOMAIN stack /\ k < Position(v) /\ stack'[k] = stack[k]
    BY <2>2, <2>4, <2>7
  <2>10. \A k \in DOMAIN stack : k < Position(v) => k \in DOMAIN stack'
    BY <2>2, <2>7, <2>8
  <2> QED BY <2>6, <2>8, <2>9, <2>10
<1>8. /\ comps' = Append(comps, Above(v)) /\ Above(v) \subseteq Node
      /\ Len(comps) \in Nat /\ DOMAIN comps = 1..Len(comps)
      /\ DOMAIN comps' = 1..(Len(comps) + 1)
      /\ \A k \in DOMAIN comps : comps'[k] = comps[k]
      /\ comps'[Len(comps) + 1] = Above(v)
      /\ comps' \in Seq(SUBSET Node)
  <2>1. comps' = Append(comps, Above(v)) /\ Above(v) \in SUBSET Node
    BY <1>2, <1>4 DEF Leave
  <2>2. comps \in Seq(SUBSET Node)
    BY <1>1 DEF TarjanTypes
  <2> HIDE DEF Node
  <2> QED BY <2>1, <2>2
<1>9. \A x : x \in Above(v) <=> x \in Node /\ onStack[x] /\ index[v] <= index[x]
  BY <1>4
<1>10. \A x : x \in Closed' <=> x \in Closed \/ x \in Above(v)
  BY <1>8 DEF Closed
<1>11. TarjanTypes'
  <2>1. low' \in [Node -> Nat]
    BY Returned
  <2> QED BY <1>1, <1>5, <1>6, <1>7, <1>8, <2>1 DEF TarjanTypes
<1>12. IndexInv'
  BY <1>1, <1>5 DEF IndexInv
<1>13. StackInv'
  <2>1. ASSUME NEW x \in Node
        PROVE  onStack'[x] <=> \E k \in DOMAIN stack' : stack'[k] = x
    <3>1. ASSUME onStack'[x] PROVE \E k \in DOMAIN stack' : stack'[k] = x
      <4>1. PICK k \in DOMAIN stack : stack[k] = x
        BY <1>1, <1>6, <3>1 DEF StackInv
      <4>2. k \in DOMAIN stack'
        BY <1>4, <1>6, <1>7, <3>1, <4>1
      <4> QED BY <1>7, <4>1, <4>2
    <3>2. ASSUME NEW k \in DOMAIN stack', stack'[k] = x PROVE onStack'[x]
      BY <1>1, <1>4, <1>6, <1>7, <3>2 DEF StackInv
    <3> QED BY <3>1, <3>2
  <2>2. \A k \in DOMAIN stack' : index[stack'[k]] # Unset
    BY <1>1, <1>7 DEF StackInv
  <2>3. \A j, k \in DOMAIN stack' : j < k => index[stack'[j]] < index[stack'[k]]
    BY <1>1, <1>7 DEF StackInv
  <2> QED BY <1>5, <2>1, <2>2, <2>3 DEF StackInv, Unset
<1>14. ClosedInv'
  <2>1. ASSUME NEW x \in Node PROVE x \in Closed' <=> index[x] # Unset /\ ~onStack'[x]
    <3>1. index[x] \in Nat /\ index[v] \in Nat
      BY <1>1, TarjanFacts
    <3>2. x \in Closed <=> index[x] # Unset /\ ~onStack[x]
      BY <1>1 DEF ClosedInv
    <3>3. onStack[x] => index[x] # Unset
      BY <1>1 DEF StackInv
    <3> QED BY <1>6, <1>9, <1>10, <3>1, <3>2, <3>3
  <2>2. \A k \in DOMAIN comps : comps[k] \cap Above(v) = {}
    BY <1>1, <1>9 DEF ClosedInv, Closed
  <2>3. \A j, k \in DOMAIN comps' : comps'[j] \cap comps'[k] # {} => j = k
    BY <1>1, <1>8, <2>2 DEF ClosedInv
  <2>4. v \in Above(v)
    BY <1>1, <1>3, <1>9, TarjanFacts
  <2>5. \A k \in DOMAIN comps' : comps'[k] # {}
    BY <1>1, <1>8, <2>4 DEF ClosedInv
  <2> QED BY <1>5, <2>1, <2>3, <2>5 DEF ClosedInv, Unset
<1>15. CallsInv'
  <2>1. \A k \in DOMAIN calls' : onStack'[calls'[k].node]
                                   /\ calls'[k].left \subseteq adj[calls'[k].node]
    <3> TAKE k \in DOMAIN calls'
    <3>1. k \in DOMAIN calls /\ k # n /\ calls[k].node \in Node
      BY <1>1, <1>2, <1>5, TarjanFacts
    <3>2. onStack[calls[k].node] /\ calls[k].left \subseteq adj[calls[k].node]
      BY <1>1, <3>1 DEF CallsInv
    <3> QED BY <1>2, <1>3, <1>5, <1>6, <3>1, <3>2
  <2>2. \A j, k \in DOMAIN calls' : j < k => index[calls'[j].node] < index[calls'[k].node]
    BY <1>1, <1>2, <1>5 DEF CallsInv
  <2>3. ASSUME NEW x \in Node, onStack'[x]
        PROVE  calls' # <<>> /\ index[calls'[1].node] <= index[x]
    <3>1. index[calls[1].node] <= index[x] /\ index[x] < index[v]
      BY <1>1, <1>6, <2>3 DEF CallsInv
    <3>2. index[x] \in Nat /\ index[v] \in Nat
      BY <1>1, TarjanFacts
    <3>3. n # 1
      BY <1>2, <3>1, <3>2
    <3>4. 1 \in DOMAIN calls'
      BY <1>2, <1>5, <3>3
    <3> QED BY <1>5, <3>1, <3>4
  <2> QED BY <1>5, <2>1, <2>2, <2>3 DEF CallsInv
<1>16. ASSUME NEW k \in 1..(n - 1)
       PROVE  /\ k \in DOMAIN calls /\ calls[k].node \in Node
              /\ index[calls[k].node] < index[v]
              /\ low'[calls[k].node] \in Nat /\ low[calls[k].node] \in Nat
              /\ index[calls[k].node] \in Nat /\ index[v] \in Nat
              /\ low'[calls[k].node] <= low[calls[k].node]
              /\ low[calls[k].node] <= index[calls[k].node]
  <2>1. k \in DOMAIN calls /\ calls[k].node \in Node
    BY <1>1, <1>2, TarjanFacts
  <2>2. low' \in [Node -> Nat] /\ \A x \in Node : low'[x] <= low[x]
    BY Returned
  <2>3. /\ low[calls[k].node] \in Nat /\ index[calls[k].node] \in Nat /\ index[v] \in Nat
    BY <1>1, <2>1, TarjanFacts
  <2>4. low[calls[k].node] <= index[calls[k].node] /\ index[calls[k].node] < index[v]
    BY <1>1, <1>3, <2>1 DEF LowInv
  <2> QED BY <2>1, <2>2, <2>3, <2>4
<1>17. ASSUME NEW k \in 1..(n - 1)
       PROVE  /\ low'[calls[k].node] <= index[calls[k].node]
              /\ \E x \in Node : onStack'[x] /\ index[x] = low'[calls[k].node]
  <2>1. PICK x \in Node : onStack[x] /\ index[x] = low[calls[k].node]
    BY <1>1, <1>16 DEF LowInv
  <2>2. low'[calls[k].node] = low[calls[k].node] \/ low'[calls[k].node] = low[v]
    <3>1. \A z \in Node : low'[z] = low[z] \/ low'[z] = low[v]
      BY Returned
    <3> QED BY <1>16, <3>1
  <2>3. low'[calls[k].node] = low[calls[k].node]
    BY <1>16, <2>2
  <2>4. onStack'[x]
    BY <1>6, <1>16, <2>1
  <2> QED BY <1>16, <2>1, <2>3, <2>4
<1>18. ASSUME NEW k \in 1..(n - 1), NEW u \in Node, NEW w \in adj[u],
              onStack'[u], Governs(k, u)', onStack'[w], ~ToFollow(u, w)'
       PROVE  low'[calls[k].node] <= index[w]
  <2>1. /\ index[calls[k].node] <= index[u]
        /\ \A j \in 1..(n - 1) : k < j => index[u] < index[calls[j].node]
    BY <1>5, <1>18 DEF Governs
  <2>2. w \in Node /\ index[w] \in Nat /\ index[v] \in Nat
    BY <1>1, TarjanFacts
  <2>3. onStack[u] /\ index[u] < index[v] /\ onStack[w] /\ index[w] < index[v]
    BY <1>6, <1>18, <2>2
  <2>4. Governs(k, u)
    <3>1. \A j \in 1..n : k < j => index[u] < index[calls[j].node]
      BY <1>2, <2>1, <2>3
    <3> QED BY <1>2, <2>1, <3>1 DEF Governs
  <2>5. ~ToFollow(u, w)
    BY <1>18, <2>2, <2>3, Returned
  <2>6. low[calls[k].node] <= index[w]
    BY <1>1, <1>16, <2>3, <2>4, <2>5 DEF LowInv
  <2> QED BY <1>16, <2>2, <2>6
<1>19. LowInv'
  BY <1>5, <1>17, <1>18 DEF LowInv
<1>20. SinksClosedFirst'
  <2>1. ASSUME NEW k \in DOMAIN comps', NEW x \in comps'[k], NEW w \in adj[x]
        PROVE  \E j \in 1..k : w \in comps'[j]
    <3>1. CASE k \in DOMAIN comps
      <4>1. PICK j \in 1..k : w \in comps[j]
        BY <1>1, <1>8, <2>1, <3>1 DEF SinksClosedFirst
      <4>2. j \in DOMAIN comps
        BY <1>8, <3>1
      <4> QED BY <1>8, <4>1, <4>2
    <3>2. CASE k = Len(comps) + 1
      <4>1. x \in Node /\ onStack[x] /\ index[v] <= index[x]
        BY <1>8, <1>9, <2>1, <3>2
      <4>2. /\ w \in Closed \/ onStack[w]
            /\ onStack[w] => index[v] <= index[w]
        BY <2>1, <4>1, LastSees
      <4>3. w \in Node
        BY <1>1, <2>1, <4>1, TarjanFacts
      <4>4. CASE onStack[w]
        <5>1. w \in comps'[k] /\ k \in 1..k
          BY <1>8, <1>9, <3>2, <4>2, <4>3, <4>4
        <5> QED BY <5>1
      <4>5. CASE w \in Closed
        <5>1. PICK j \in DOMAIN comps : w \in comps[j]
          BY <4>5 DEF Closed
        <5>2. j \in 1..k
          BY <1>8, <3>2, <5>1
        <5> QED BY <1>8, <5>1, <5>2
      <4> QED BY <4>2, <4>4, <4>5
    <3> QED BY <1>8, <3>1, <3>2
  <2> QED BY <1>5, <2>1 DEF SinksClosedFirst
<1> QED BY <1>11, <1>12, <1>13, <1>14, <1>15, <1>19, <1>20, EdgesFollowed DEF TarjanInv

LEMMA LeaveStep ==
  ASSUME TarjanInv, Leave
  PROVE  TarjanInv'
<1>1. PICK n \in Nat, v \in Node :
        n = Len(calls) /\ n \in DOMAIN calls /\ DOMAIN calls = 1..n /\ v = calls[n].node
  BY LastCall DEF TarjanInv, Leave
<1>2. Leaving(n, v)
  BY <1>1 DEF Leaving, Leave, HasEdge, Call
<1> QED BY <1>2, KeepStep, CloseStep

-----------------------------------------------------------------------------
LEMMA TarjanInit ==
  ASSUME NEW a, IsGraph(a), TarjanOn(a)
  PROVE  TarjanInv
<1>1. /\ adj = a /\ index = [v \in Node |-> 0] /\ low = [v \in Node |-> 0]
      /\ onStack = [v \in Node |-> FALSE]
      /\ stack = <<>> /\ calls = <<>> /\ comps = <<>> /\ nextIndex = 1
  BY DEF TarjanOn, Unset
<1>2. TarjanTypes
  BY <1>1 DEF TarjanTypes, IsGraph
<1>3. DOMAIN stack = {} /\ DOMAIN calls = {} /\ DOMAIN comps = {}
  BY <1>1
<1>4. \A v \in Node : index[v] = 0 /\ ~onStack[v]
  BY <1>1
<1>5. IndexInv /\ StackInv /\ CallsInv /\ EdgeInv /\ LowInv /\ SinksClosedFirst
  BY <1>1, <1>3, <1>4 DEF IndexInv, StackInv, CallsInv, EdgeInv, LowInv, SinksClosedFirst, Unset
<1>6. ClosedInv
  BY <1>3, <1>4 DEF ClosedInv, Closed, Unset
<1> QED BY <1>2, <1>5, <1>6 DEF TarjanInv

LEMMA TarjanKeeps ==
  ASSUME TarjanInv, [TarjanStep]_tvars
  PROVE  TarjanInv'
<1>1. ASSUME NEW v \in Node, VisitRoot(v) PROVE TarjanInv'
  BY <1>1, EnterStep DEF VisitRoot
<1>2. ASSUME NEW v \in Node, FollowEdge(v) PROVE TarjanInv'
  BY <1>2, EnterStep DEF FollowEdge
<1>3. ASSUME NEW v \in Node, LookBack(v) PROVE TarjanInv'
  BY <1>3, LookStep
<1>4. CASE Leave
  BY <1>4, LeaveStep
<1>5. CASE UNCHANGED tvars
  <2>1. /\ adj' = adj /\ index' = index /\ low' = low /\ onStack' = onStack /\ Node' = Node
        /\ stack' = stack /\ calls' = calls /\ comps' = comps /\ nextIndex' = nextIndex
    BY <1>5 DEF tvars, Node
  <2>2. TarjanTypes' /\ IndexInv' /\ StackInv' /\ ClosedInv'
    BY <2>1 DEF TarjanInv, TarjanTypes, IndexInv, StackInv, ClosedInv, Closed
  <2>3. \A v, w : ToFollow(v, w)' <=> ToFollow(v, w)
    BY <2>1 DEF ToFollow
  <2>4. \A k, u : Governs(k, u)' <=> Governs(k, u)
    BY <2>1 DEF Governs
  <2>5. CallsInv' /\ EdgeInv' /\ SinksClosedFirst'
    BY <2>1, <2>3 DEF TarjanInv, CallsInv, EdgeInv, SinksClosedFirst
  <2>6. LowInv'
    BY <2>1, <2>3, <2>4 DEF TarjanInv, LowInv
  <2> QED BY <2>2, <2>5, <2>6 DEF TarjanInv
<1> QED BY <1>1, <1>2, <1>3, <1>4, <1>5 DEF TarjanStep

LEMMA TarjanAlways == TarjanSpec => []TarjanInv
<1>1. IsGraph(adj) /\ TarjanOn(adj) => TarjanInv
  BY TarjanInit
<1>2. TarjanInv /\ [TarjanStep]_tvars => TarjanInv'
  BY TarjanKeeps
<1> QED BY <1>1, <1>2, PTL DEF TarjanSpec

\* On any graph, at every moment of the run, a component is closed after all those its
\* edges lead to.
THEOREM SinksCloseFirst == TarjanSpec => []SinksClosedFirst
<1>1. TarjanInv => SinksClosedFirst
  BY DEF TarjanInv
<1> QED BY <1>1, TarjanAlways, PTL

-----------------------------------------------------------------------------
\* A path leads from u to v: no set that edges do not leave has u and not v.
Leads(u, v) ==
  \A S \in SUBSET Node : u \in S /\ (\A x \in S : adj[x] \subseteq S) => v \in S

\* No call above the k-th began before u.
UpTo(k, u) == \A j \in DOMAIN calls : k < j => index[u] < index[calls[j].node]

\* A call leads to all that came on the stack after it, and what is on the stack leads
\* to every call up to the last one before it: low leads the way back.
PathInv ==
  /\ \A k \in DOMAIN calls : \A u \in Node : onStack[u] =>
       /\ index[calls[k].node] <= index[u] => Leads(calls[k].node, u)
       /\ UpTo(k, u) => Leads(u, calls[k].node)
  /\ \A k \in DOMAIN calls : \E y \in Node :
       onStack[y] /\ index[y] = low[calls[k].node] /\ Leads(calls[k].node, y)
  /\ \A k \in DOMAIN comps : \A u, v \in comps[k] : Leads(u, v)

LEMMA LeadsFacts ==
  /\ \A u : Leads(u, u)
  /\ \A u \in Node : \A v \in adj[u] : Leads(u, v)
  /\ \A u, v, w : Leads(u, v) /\ Leads(v, w) => Leads(u, w)
BY DEF Leads

LEMMA LeadsSame ==
  ASSUME adj' = adj
  PROVE  \A u, v : Leads(u, v)' <=> Leads(u, v)
BY DEF Leads, Node

LEMMA EnterPaths ==
  ASSUME TarjanInv, PathInv, NEW v \in Node, index[v] = Unset, Enter(v),
         calls # <<>> => v \in adj[Call.node]
  PROVE  PathInv'
<1> DEFINE n == Len(calls)
<1>1. TarjanTypes /\ IndexInv /\ StackInv /\ CallsInv
  BY DEF TarjanInv
<1>2. ~onStack[v]
  BY <1>1, TarjanFacts DEF StackInv
<1>3. Node' = Node /\ comps' = comps /\ \A x, y : Leads(x, y)' <=> Leads(x, y)
  BY LeadsSame DEF Enter, Node
<1>4. /\ index'[v] = nextIndex /\ low'[v] = nextIndex /\ onStack'[v]
      /\ \A x \in Node : x # v => /\ index'[x] = index[x] /\ low'[x] = low[x]
                                  /\ onStack'[x] = onStack[x]
  BY <1>1 DEF Enter, TarjanTypes
<1>5. /\ n \in Nat /\ DOMAIN calls' = 1..(n + 1) /\ DOMAIN calls = 1..n
      /\ \A k \in 1..n : calls'[k] = calls[k]
      /\ calls'[n + 1] = [node |-> v, left |-> adj[v]]
  BY <1>1, TarjanFacts DEF Enter, TarjanTypes
<1>6. calls'[n + 1].node = v
  BY <1>5
<1>7. nextIndex \in Nat /\ \A x \in Node : index[x] \in Nat /\ index[x] < nextIndex
  BY <1>1, TarjanFacts DEF TarjanTypes, IndexInv
<1>8. \A k \in 1..n : /\ calls'[k].node = calls[k].node /\ calls[k].node \in Node
                      /\ calls[k].node # v /\ onStack[calls[k].node]
  BY <1>1, <1>2, <1>5, TarjanFacts DEF CallsInv
<1>9. \A u \in Node : onStack[u] => n \in 1..n /\ Leads(u, calls[n].node)
  <2> TAKE u \in Node
  <2> HAVE onStack[u]
  <2>1. calls # <<>>
    BY <1>1 DEF CallsInv
  <2>2. n \in DOMAIN calls
    BY <1>1, <1>5, <2>1 DEF TarjanTypes
  <2>3. UpTo(n, u)
    BY <1>5 DEF UpTo
  <2> QED BY <1>5, <2>2, <2>3 DEF PathInv
<1>10. \A u \in Node : onStack[u] => Leads(u, v)
  <2> TAKE u \in Node
  <2> HAVE onStack[u]
  <2>1. n \in 1..n /\ Leads(u, calls[n].node) /\ calls # <<>>
    BY <1>1, <1>9 DEF CallsInv
  <2>2. v \in adj[calls[n].node]
    BY <2>1 DEF Call
  <2> QED BY <1>8, <2>1, <2>2, LeadsFacts
<1>11. ASSUME NEW k \in 1..(n + 1), NEW u \in Node, onStack'[u]
       PROVE  /\ index'[calls'[k].node] <= index'[u] => Leads(calls'[k].node, u)
              /\ UpTo(k, u)' => Leads(u, calls'[k].node)
  <2>1. CASE k = n + 1
    <3>1. CASE u = v
      BY <1>6, <2>1, <3>1, LeadsFacts
    <3>2. CASE u # v
      BY <1>4, <1>6, <1>7, <1>10, <1>11, <2>1, <3>2
    <3> QED BY <3>1, <3>2
  <2>2. CASE k \in 1..n /\ u = v
    <3>1. Leads(calls[k].node, v)
      BY <1>8, <1>10, <2>2
    <3>2. ~UpTo(k, u)'
      <4>1. ~(index'[u] < index'[calls'[n + 1].node])
        BY <1>4, <1>6, <1>7, <2>2
      <4>2. n + 1 \in DOMAIN calls' /\ k < n + 1
        BY <1>5, <2>2
      <4> QED BY <4>1, <4>2 DEF UpTo
    <3> QED BY <1>8, <2>2, <3>1, <3>2
  <2>3. CASE k \in 1..n /\ u # v
    <3>1. onStack[u] /\ index'[u] = index[u] /\ index'[calls'[k].node] = index[calls[k].node]
      BY <1>4, <1>8, <1>11, <2>3
    <3>2. UpTo(k, u)' => UpTo(k, u)
      BY <1>4, <1>5, <1>8, <3>1 DEF UpTo
    <3>3. /\ index[calls[k].node] <= index[u] => Leads(calls[k].node, u)
          /\ UpTo(k, u) => Leads(u, calls[k].node)
      BY <1>5, <2>3, <3>1 DEF PathInv
    <3> QED BY <1>8, <2>3, <3>1, <3>2, <3>3
  <2> QED BY <2>1, <2>2, <2>3
<1>12. ASSUME NEW k \in 1..(n + 1)
       PROVE  \E y \in Node : /\ onStack'[y] /\ index'[y] = low'[calls'[k].node]
                              /\ Leads(calls'[k].node, y)
  <2>1. CASE k = n + 1
    BY <1>4, <1>6, <2>1, LeadsFacts
  <2>2. CASE k \in 1..n
    <3>1. PICK y \in Node : /\ onStack[y] /\ index[y] = low[calls[k].node]
                            /\ Leads(calls[k].node, y)
      BY <1>5, <2>2 DEF PathInv
    <3> QED BY <1>2, <1>4, <1>8, <2>2, <3>1
  <2> QED BY <2>1, <2>2
<1>13. \A k \in DOMAIN comps : \A x, y \in comps[k] : Leads(x, y)
  BY DEF PathInv
<1> QED BY <1>3, <1>5, <1>11, <1>12, <1>13 DEF PathInv

LEMMA LookPaths ==
  ASSUME TarjanInv, PathInv, NEW w \in Node, LookBack(w)
  PROVE  PathInv'
<1>1. TarjanTypes /\ CallsInv
  BY DEF TarjanInv
<1>2. PICK n \in Nat, c \in Node :
        n = Len(calls) /\ n \in DOMAIN calls /\ DOMAIN calls = 1..n /\ c = calls[n].node
  BY <1>1, LastCall DEF LookBack, HasEdge
<1>3. /\ Node' = Node /\ comps' = comps /\ index' = index /\ onStack' = onStack
      /\ \A x, y : Leads(x, y)' <=> Leads(x, y)
  BY LeadsSame DEF LookBack, Node
<1>4. w \in adj[c]
  BY <1>1, <1>2 DEF LookBack, AtEdge, Call, CallsInv
<1>5. DOMAIN calls' = 1..n /\ \A k \in 1..n : calls'[k].node = calls[k].node
  BY <1>2 DEF LookBack, Past
<1>6. /\ \A x \in Node : x # c => low'[x] = low[x]
      /\ low'[c] = low[c] \/ (onStack[w] /\ low'[c] = index[w])
  <2>1. low \in [Node -> Nat] /\ Call.node = c
    BY <1>1, <1>2 DEF TarjanTypes, Call
  <2>2. low' = IF onStack[w] THEN [low EXCEPT ![c] = Lesser(low[c], index[w])] ELSE low
    BY <2>1 DEF LookBack, Counts
  <2> QED BY <2>1, <2>2 DEF Lesser
<1>7. \A k, u : UpTo(k, u)' <=> UpTo(k, u)
  BY <1>2, <1>3, <1>5 DEF UpTo
<1>8. ASSUME NEW k \in 1..n
      PROVE  \E y \in Node : /\ onStack[y] /\ index[y] = low'[calls[k].node]
                             /\ Leads(calls[k].node, y)
  <2>1. PICK y \in Node : /\ onStack[y] /\ index[y] = low[calls[k].node]
                          /\ Leads(calls[k].node, y)
    BY <1>2 DEF PathInv
  <2>2. calls[k].node \in Node
    BY <1>1, <1>2, TarjanFacts
  <2>3. CASE low'[calls[k].node] = low[calls[k].node]
    BY <2>1, <2>3
  <2>4. CASE low'[calls[k].node] # low[calls[k].node]
    <3>1. calls[k].node = c /\ onStack[w] /\ low'[c] = index[w]
      BY <1>6, <2>2, <2>4
    <3> QED BY <1>4, <3>1, LeadsFacts
  <2> QED BY <2>3, <2>4
<1>9. /\ \A k \in 1..n : \A u \in Node : onStack[u] =>
           /\ index[calls[k].node] <= index[u] => Leads(calls[k].node, u)
           /\ UpTo(k, u) => Leads(u, calls[k].node)
      /\ \A k \in DOMAIN comps : \A x, y \in comps[k] : Leads(x, y)
  BY <1>2 DEF PathInv
<1> QED BY <1>3, <1>5, <1>7, <1>8, <1>9 DEF PathInv

LEMMA KeepPaths ==
  ASSUME TarjanInv, PathInv, NEW n \in Nat, NEW v \in Node, Leaving(n, v), Leave,
         low[v] # index[v]
  PROVE  PathInv'
<1>1. TarjanTypes /\ CallsInv
  BY DEF TarjanInv
<1>2. /\ n \in DOMAIN calls /\ DOMAIN calls = 1..n /\ v = calls[n].node /\ Call.node = v
  BY DEF Leaving, Call
<1>3. comps' = comps /\ onStack' = onStack
  BY <1>2 DEF Leave
<1>4. /\ Node' = Node /\ index' = index /\ DOMAIN calls' = 1..(n - 1)
      /\ \A k \in 1..(n - 1) : calls'[k].node = calls[k].node
      /\ \A x \in Node : low'[x] = low[x] \/ (n > 1 /\ x = calls[n - 1].node /\ low'[x] = low[v])
      /\ \A x, y : Leads(x, y)' <=> Leads(x, y)
  BY Returned, LeadsSame
<1>5. /\ onStack[v] /\ low[v] <= index[v]
      /\ \A k \in 1..n : k # n => index[calls[k].node] < index[v]
  BY LastSees
<1>6. index[v] \in Nat /\ low[v] \in Nat /\ \A x \in Node : index[x] \in Nat
  BY <1>1, TarjanFacts
<1>7. PICK y \in Node : onStack[y] /\ index[y] = low[v] /\ Leads(v, y)
  BY <1>2 DEF PathInv
<1>8. ASSUME NEW k \in 1..(n - 1)
      PROVE  k \in DOMAIN calls /\ calls[k].node \in Node /\ index[calls[k].node] < index[v]
  BY <1>1, <1>2, <1>5, TarjanFacts
<1>9. ASSUME NEW k \in 1..(n - 1), NEW u \in Node, onStack[u], UpTo(k, u)'
      PROVE  Leads(u, calls[k].node)
  <2>1. \A j \in 1..(n - 1) : k < j => index[u] < index[calls[j].node]
    BY <1>4, <1>9 DEF UpTo
  <2>2. CASE index[u] < index[v]
    <3>1. UpTo(k, u)
      BY <1>2, <2>1, <2>2 DEF UpTo
    <3> QED BY <1>8, <1>9, <3>1 DEF PathInv
  <2>3. CASE ~(index[u] < index[v])
    <3>1. k = n - 1
      <4>1. CASE k < n - 1
        <5>1. n - 1 \in 1..(n - 1)
          BY <4>1
        <5>2. index[u] < index[calls[n - 1].node] /\ index[calls[n - 1].node] < index[v]
                /\ calls[n - 1].node \in Node
          BY <1>8, <2>1, <4>1, <5>1
        <5> QED BY <1>6, <2>3, <5>2
      <4> QED BY <4>1
    <3>2. Leads(u, v)
      <4>1. UpTo(n, u)
        BY <1>2 DEF UpTo
      <4> QED BY <1>2, <1>9, <4>1 DEF PathInv
    <3>3. Leads(y, calls[k].node)
      <4>1. UpTo(k, y)
        BY <1>2, <1>5, <1>6, <1>7, <3>1 DEF UpTo
      <4> QED BY <1>7, <1>8, <4>1 DEF PathInv
    <3> QED BY <1>7, <3>2, <3>3, LeadsFacts
  <2> QED BY <2>2, <2>3
<1>10. ASSUME NEW k \in 1..(n - 1)
       PROVE  \E x \in Node : /\ onStack[x] /\ index[x] = low'[calls[k].node]
                              /\ Leads(calls[k].node, x)
  <2>1. CASE low'[calls[k].node] = low[calls[k].node]
    BY <1>8, <2>1 DEF PathInv
  <2>2. CASE low'[calls[k].node] = low[v]
    <3>1. Leads(calls[k].node, v)
      BY <1>5, <1>6, <1>8 DEF PathInv
    <3> QED BY <1>7, <2>2, <3>1, LeadsFacts
  <2> QED BY <1>4, <1>8, <2>1, <2>2
<1>11. /\ \A k \in 1..(n - 1) : \A u \in Node :
            onStack[u] /\ index[calls[k].node] <= index[u] => Leads(calls[k].node, u)
       /\ \A k \in DOMAIN comps : \A x, z \in comps[k] : Leads(x, z)
  BY <1>8 DEF PathInv
<1> QED BY <1>3, <1>4, <1>9, <1>10, <1>11 DEF PathInv

LEMMA ClosePaths ==
  ASSUME TarjanInv, PathInv, NEW n \in Nat, NEW v \in Node, Leaving(n, v), Leave,
         low[v] = index[v]
  PROVE  PathInv'
<1>1. TarjanTypes /\ CallsInv /\ StackInv /\ LowInv
  BY DEF TarjanInv
<1>2. /\ n \in DOMAIN calls /\ DOMAIN calls = 1..n /\ v = calls[n].node /\ Call.node = v
  BY DEF Leaving, Call
<1>3. /\ Node' = Node /\ index' = index /\ DOMAIN calls' = 1..(n - 1)
      /\ \A k \in 1..(n - 1) : calls'[k].node = calls[k].node
      /\ \A x \in Node : low'[x] = low[x] \/ low'[x] = low[v]
      /\ \A x \in Node : low'[x] <= low[x]
      /\ \A x, y : Leads(x, y)' <=> Leads(x, y)
  BY Returned, LeadsSame
<1>4. onStack[v] /\ \A k \in 1..n : k # n => index[calls[k].node] < index[v]
  BY LastSees
<1>5. Above(v) = {u \in Node : onStack[u] /\ index[v] <= index[u]}
  BY <1>1, <1>4, Segment
<1>6. index[v] \in Nat /\ \A x \in Node : index[x] \in Nat /\ low[x] \in Nat
  BY <1>1, TarjanFacts
<1>7. \A x \in Node : onStack'[x] <=> onStack[x] /\ index[x] < index[v]
  <2>1. onStack' = [x \in Node |-> onStack[x] /\ x \notin Above(v)]
    BY <1>2 DEF Leave
  <2> TAKE x \in Node
  <2>2. onStack'[x] <=> onStack[x] /\ ~(onStack[x] /\ index[v] <= index[x])
    BY <1>5, <2>1
  <2>3. index[x] \in Nat
    BY <1>6
  <2> QED BY <1>6, <2>2, <2>3
<1>8. /\ Len(comps) \in Nat /\ DOMAIN comps = 1..Len(comps)
      /\ DOMAIN comps' = 1..(Len(comps) + 1)
      /\ \A k \in DOMAIN comps : comps'[k] = comps[k]
      /\ comps'[Len(comps) + 1] = Above(v)
  <2>1. comps' = Append(comps, Above(v)) /\ comps \in Seq(SUBSET Node)
    BY <1>1, <1>2 DEF Leave, TarjanTypes
  <2> HIDE DEF Node
  <2> QED BY <2>1
<1>9. ASSUME NEW k \in 1..(n - 1)
      PROVE  k \in DOMAIN calls /\ calls[k].node \in Node /\ index[calls[k].node] < index[v]
  BY <1>1, <1>2, <1>4, TarjanFacts
<1>10. ASSUME NEW k \in 1..(n - 1), NEW u \in Node, onStack'[u], UpTo(k, u)'
       PROVE  Leads(u, calls[k].node)
  <2>1. onStack[u] /\ index[u] < index[v]
    BY <1>7, <1>10
  <2>2. UpTo(k, u)
    BY <1>2, <1>3, <1>10, <2>1 DEF UpTo
  <2> QED BY <1>9, <2>1, <2>2 DEF PathInv
<1>11. ASSUME NEW k \in 1..(n - 1)
       PROVE  \E x \in Node : /\ onStack'[x] /\ index[x] = low'[calls[k].node]
                              /\ Leads(calls[k].node, x)
  <2>1. PICK x \in Node : /\ onStack[x] /\ index[x] = low[calls[k].node]
                          /\ Leads(calls[k].node, x)
    BY <1>9 DEF PathInv
  <2>2. low[calls[k].node] < index[v]
    <3>1. low[calls[k].node] <= index[calls[k].node]
      BY <1>1, <1>9 DEF LowInv
    <3> QED BY <1>6, <1>9, <3>1
  <2>3. low'[calls[k].node] = low[calls[k].node]
    <3>1. /\ low'[calls[k].node] = low[calls[k].node] \/ low'[calls[k].node] = low[v]
          /\ low'[calls[k].node] <= low[calls[k].node]
      BY <1>3, <1>9
    <3> QED BY <1>6, <1>9, <2>2, <3>1
  <2> QED BY <1>7, <2>1, <2>2, <2>3
<1>12. ASSUME NEW k \in DOMAIN comps', NEW x \in comps'[k], NEW y \in comps'[k]
       PROVE  Leads(x, y)
  <2>1. CASE k \in DOMAIN comps
    BY <1>8, <1>12, <2>1 DEF PathInv
  <2>2. CASE k = Len(comps) + 1
    <3>1. /\ x \in Node /\ onStack[x]
          /\ y \in Node /\ onStack[y] /\ index[v] <= index[y]
      BY <1>5, <1>8, <1>12, <2>2
    <3>2. UpTo(n, x)
      BY <1>2 DEF UpTo
    <3>3. Leads(x, v) /\ Leads(v, y)
      BY <1>2, <3>1, <3>2 DEF PathInv
    <3> QED BY <3>3, LeadsFacts
  <2> QED BY <1>8, <2>1, <2>2
<1>13. \A k \in 1..(n - 1) : \A u \in Node :
         onStack'[u] /\ index[calls[k].node] <= index[u] => Leads(calls[k].node, u)
  BY <1>7, <1>9 DEF PathInv
<1> QED BY <1>3, <1>10, <1>11, <1>12, <1>13 DEF PathInv

LEMMA PathsKeep ==
  ASSUME TarjanInv, PathInv, [TarjanStep]_tvars
  PROVE  PathInv'
<1>1. ASSUME NEW v \in Node, VisitRoot(v) PROVE PathInv'
  BY <1>1, EnterPaths DEF VisitRoot
<1>2. ASSUME NEW v \in Node, FollowEdge(v) PROVE PathInv'
  <2>1. PICK n \in Nat, c \in Node :
          n = Len(calls) /\ n \in DOMAIN calls /\ c = calls[n].node
    BY <1>2, LastCall DEF FollowEdge, HasEdge, TarjanInv
  <2>2. v \in adj[Call.node]
    BY <1>2, <2>1 DEF FollowEdge, AtEdge, Call, TarjanInv, CallsInv
  <2> QED BY <1>2, <2>2, EnterPaths DEF FollowEdge
<1>3. ASSUME NEW v \in Node, LookBack(v) PROVE PathInv'
  BY <1>3, LookPaths
<1>4. CASE Leave
  <2>1. PICK n \in Nat, v \in Node :
          n = Len(calls) /\ n \in DOMAIN calls /\ DOMAIN calls = 1..n /\ v = calls[n].node
    BY <1>4, LastCall DEF TarjanInv, Leave
  <2>2. Leaving(n, v)
    BY <1>4, <2>1 DEF Leaving, Leave, HasEdge, Call
  <2> QED BY <1>4, <2>2, KeepPaths, ClosePaths
<1>5. CASE UNCHANGED tvars
  <2>1. /\ index' = index /\ low' = low /\ onStack' = onStack /\ Node' = Node
        /\ calls' = calls /\ comps' = comps /\ \A x, y : Leads(x, y)' <=> Leads(x, y)
    BY <1>5, LeadsSame DEF tvars, Node
  <2>2. \A k, u : UpTo(k, u)' <=> UpTo(k, u)
    BY <2>1 DEF UpTo
  <2> QED BY <2>1, <2>2 DEF PathInv
<1> QED BY <1>1, <1>2, <1>3, <1>4, <1>5 DEF TarjanStep

LEMMA PathsInit ==
  ASSUME NEW a, TarjanOn(a)
  PROVE  PathInv
BY DEF TarjanOn, PathInv

LEMMA PathsAlways == TarjanSpec => [](TarjanInv /\ PathInv)
<1>1. IsGraph(adj) /\ TarjanOn(adj) => TarjanInv /\ PathInv
  BY TarjanInit, PathsInit
<1>2. TarjanInv /\ PathInv /\ [TarjanStep]_tvars => (TarjanInv /\ PathInv)'
  BY TarjanKeeps, PathsKeep
<1> QED BY <1>1, <1>2, PTL DEF TarjanSpec

LEMMA SccsFollow ==
  ASSUME TarjanInv, PathInv
  PROVE  SccsExact
<1>1. TarjanTypes /\ CallsInv /\ ClosedInv /\ SinksClosedFirst
  BY DEF TarjanInv
<1>2. DOMAIN comps = 1..Len(comps) /\ Len(comps) \in Nat
        /\ \A k \in DOMAIN comps : comps[k] \subseteq Node
  <2>1. comps \in Seq(SUBSET Node)
    BY <1>1 DEF TarjanTypes
  <2>2. \A k \in DOMAIN comps : comps[k] \in SUBSET Node
    BY <2>1, Element
  <2> QED BY <1>1, <2>2, TarjanFacts
<1>3. Closed \subseteq Node
  BY <1>2 DEF Closed
<1>4. TarjanDone => Node \subseteq Closed
  BY <1>1 DEF TarjanDone, CallsInv, ClosedInv
<1>5. \A j, k \in DOMAIN comps : comps[j] \cap comps[k] # {} => j = k
  BY <1>1 DEF ClosedInv
<1>6. ASSUME NEW k \in DOMAIN comps, NEW S \in (SUBSET comps[k]) \ {{}},
             \A v \in S : adj[v] \cap comps[k] \subseteq S
      PROVE  S = comps[k]
  <2> DEFINE Below == UNION {comps[j] : j \in 1..(k - 1)}
  <2> DEFINE T == S \cup Below
  <2>1. \A x : x \in Below <=> \E j \in 1..(k - 1) : x \in comps[j]
    OBVIOUS
  <2>2. T \in SUBSET Node
    <3>1. \A j \in 1..(k - 1) : j \in DOMAIN comps
      BY <1>2
    <3> QED BY <1>2, <3>1
  <2>3. ASSUME NEW x \in T, NEW y \in adj[x] PROVE y \in T
    <3>1. CASE x \in S
      <4>1. PICK j \in 1..k : y \in comps[j]
        BY <1>1, <1>6, <3>1 DEF SinksClosedFirst
      <4>2. CASE j = k
        BY <1>6, <3>1, <4>1, <4>2
      <4>3. CASE j # k
        BY <1>2, <4>1, <4>3
      <4> QED BY <4>2, <4>3
    <3>2. CASE x \in Below
      <4>1. PICK i \in 1..(k - 1) : x \in comps[i]
        BY <3>2
      <4>2. i \in DOMAIN comps
        BY <1>2
      <4>3. PICK j \in 1..i : y \in comps[j]
        BY <1>1, <4>1, <4>2 DEF SinksClosedFirst
      <4>4. j \in 1..(k - 1)
        BY <1>2
      <4> QED BY <4>3, <4>4
    <3> QED BY <3>1, <3>2
  <2>4. PICK u \in S : u \in comps[k]
    <3>1. S # {} /\ \A x \in S : x \in comps[k]
      OBVIOUS
    <3> QED BY <3>1, Zenon
  <2>5. ASSUME NEW v \in comps[k] PROVE v \in S
    <3>1. Leads(u, v)
      BY <2>4 DEF PathInv
    <3>2. v \in T
      <4> HIDE DEF T
      <4>1. u \in T
        BY <2>4 DEF T
      <4> QED BY <2>2, <2>3, <3>1, <4>1 DEF Leads
    <3>3. v \notin Below
      <4> SUFFICES ASSUME NEW j \in 1..(k - 1), v \in comps[j] PROVE FALSE
        OBVIOUS
      <4>1. j \in DOMAIN comps /\ j # k
        BY <1>2
      <4> QED BY <1>5, <4>1
    <3> QED BY <3>2, <3>3
  <2> QED BY <2>5
<1> QED BY <1>3, <1>4, <1>5, <1>6 DEF SccsExact

\* run() ends with exactly the strongly connected components, on any graph: they share
\* out its nodes and each is strongly connected; that no two could be one follows from
\* SinksCloseFirst.
THEOREM ComponentsAreExact == TarjanSpec => []SccsExact
<1>1. TarjanInv /\ PathInv => SccsExact
  BY SccsFollow
<1> QED BY <1>1, PathsAlways, PTL

-----------------------------------------------------------------------------
(***************************************************************************)
(* The scheduler: for every condensation it places one linear extension,   *)
(* never runs out of ready components and never breaks a run of one type   *)
(* that could go on.                                                       *)
(***************************************************************************)
Members(q) == {q[k] : k \in DOMAIN q}
NoDup(q) == \A j, k \in DOMAIN q : q[j] = q[k] => j = k

\* The component whose consumers are being visited, and the feeders of a component
\* that its count still stands for.
Current == topo[Len(topo)]
Pending(w) ==
  {b \in Feeders(w) : b \notin emitted \/ (step = "run" /\ w \in todo /\ b = Current)}

\* A component whose count has reached zero and which has been pushed.
Started(c) == indeg[c] = 0 /\ (step = "seed" => c \notin todo)

CountInv == \A w \in dag.comp : indeg[w] = Cardinality(Pending(w))
LoopInv ==
  /\ step = "seed" => emitted = {} /\ \A c \in todo : indeg[c] = 0
  /\ step = "run" /\ todo # {} => topo # <<>> /\ todo \subseteq dag.succ[Current]
  /\ step = "done" => todo = {}
OrderInv ==
  /\ emitted = Members(topo) /\ NoDup(topo) /\ ProducersFirst
  /\ \A c \in emitted : indeg[c] = 0
QueueInv ==
  /\ NoDup(freeNodes)
  /\ \A c \in Members(freeNodes) : c \in dag.free /\ c \notin emitted /\ Started(c)
  /\ \A c \in Members(seq) : c \notin dag.free /\ Started(c)
  /\ \A t \in Tag : \A c \in Members(byTag[t]) :
        c \notin dag.free /\ dag.tag[c] = t /\ Started(c)
\* What is ready and not emitted waits where the scheduler will look for it.
WaitInv ==
  \A c \in dag.comp \ emitted : Started(c) =>
    IF c \in dag.free THEN c \in Members(freeNodes)
    ELSE c \in Members(seq) /\ \A t \in Tag : dag.tag[c] = t => c \in Members(byTag[t])

SchedInv == SchedTypeOK /\ CountInv /\ LoopInv /\ OrderInv /\ QueueInv /\ WaitInv

-----------------------------------------------------------------------------
\* Appending to a sequence adds its element to the members.
LEMMA AppendMembers ==
  ASSUME NEW S, NEW q \in Seq(S), NEW c \in S
  PROVE  /\ Append(q, c) \in Seq(S)
         /\ Members(Append(q, c)) = Members(q) \cup {c}
         /\ NoDup(q) /\ c \notin Members(q) => NoDup(Append(q, c))
         /\ Append(q, c) # <<>>
         /\ Append(q, c)[Len(Append(q, c))] = c
BY DEF Members, NoDup

\* The tail of a sequence holds every member but, at most, its head.
LEMMA TailMembers ==
  ASSUME NEW S, NEW q \in Seq(S), q # <<>>
  PROVE  /\ Tail(q) \in Seq(S) /\ Head(q) \in S /\ Head(q) \in Members(q)
         /\ Members(Tail(q)) \subseteq Members(q)
         /\ Members(q) \subseteq Members(Tail(q)) \cup {Head(q)}
         /\ NoDup(q) => NoDup(Tail(q)) /\ Head(q) \notin Members(Tail(q))
<1>1. /\ Len(q) \in Nat /\ Len(q) > 0 /\ DOMAIN q = 1..Len(q) /\ Head(q) = q[1]
      /\ DOMAIN Tail(q) = 1..(Len(q) - 1)
      /\ \A k \in 1..(Len(q) - 1) : Tail(q)[k] = q[k + 1]
      /\ Tail(q) \in Seq(S) /\ Head(q) \in S
  OBVIOUS
<1>2. Head(q) \in Members(q) /\ Members(Tail(q)) \subseteq Members(q)
  BY <1>1 DEF Members
<1>3. Members(q) \subseteq Members(Tail(q)) \cup {Head(q)}
  <2>1. ASSUME NEW k \in 1..Len(q), k # 1
        PROVE  q[k] \in Members(Tail(q))
    <3>1. k - 1 \in 1..(Len(q) - 1) /\ (k - 1) + 1 = k
      BY <1>1, <2>1
    <3> QED BY <3>1, <1>1 DEF Members
  <2> QED BY <1>1, <2>1 DEF Members
<1>4. ASSUME NoDup(q)
      PROVE  NoDup(Tail(q)) /\ Head(q) \notin Members(Tail(q))
  BY <1>1, <1>4 DEF Members, NoDup
<1> QED BY <1>1, <1>2, <1>3, <1>4

\* A non-empty set of numbers up to n has a largest one.
LEMMA Largest ==
  ASSUME NEW n \in Nat, NEW S \in SUBSET (1..n), S # {}
  PROVE  \E m \in S : \A x \in S : x <= m
<1> DEFINE T == {n - x : x \in S}
<1>1. T \subseteq Nat /\ T # {}
  <2>1. \A x \in S : x \in 1..n /\ n - x \in Nat
    OBVIOUS
  <2>2. T \subseteq Nat
    BY <2>1, Zenon
  <2>3. PICK x \in S : TRUE
    OBVIOUS
  <2>4. n - x \in T
    BY Zenon
  <2> QED BY <2>2, <2>4
<1>2. PICK R : IsWellFoundedOn(R, Nat) /\ \A a, b \in Nat : b < a => <<b, a>> \in R
  <2>1. \A a, b \in Nat : b < a => <<b, a>> \in OpToRel(<, Nat)
    BY Zenon DEF OpToRel
  <2> QED BY <2>1, NatLessThanWellFounded, Zenon
<1>3. PICK y \in T : \A z \in T : ~(<<z, y>> \in R)
  BY <1>1, <1>2, WFMin, Zenon
<1>4. PICK m \in S : y = n - m
  BY Zenon
<1>5. ASSUME NEW x \in S
      PROVE  x <= m
  <2>1. n - x \in T
    BY Zenon
  <2>2. n - x \in Nat /\ n - m \in Nat
    BY <1>1, <1>4, <2>1, Zenon
  <2>3. ~(n - x < n - m)
    BY <2>1, <2>2, <1>2, <1>3, <1>4, Zenon
  <2>4. x \in 1..n /\ m \in 1..n
    BY <1>4
  <2> HIDE DEF T
  <2> QED BY <2>2, <2>3, <2>4
<1> QED BY <1>5

\* The counts of a finite set and of the set less one of its elements.
LEMMA FeedersFinite ==
  ASSUME SchedTypeOK, NEW w \in dag.comp
  PROVE  IsFiniteSet(Feeders(w)) /\ IsFiniteSet(Pending(w)) /\ Feeders(w) \subseteq dag.comp
<1>1. IsFiniteSet(dag.comp) /\ Feeders(w) \in SUBSET dag.comp
  BY DEF SchedTypeOK, IsCondensation, Feeders
<1>2. IsFiniteSet(Feeders(w))
  BY <1>1, FS_Subset, Zenon
<1>3. Pending(w) \in SUBSET Feeders(w)
  BY DEF Pending
<1> QED BY <1>1, <1>2, <1>3, FS_Subset, Zenon

-----------------------------------------------------------------------------
\* The parts of the types the steps below use.
LEMMA TypeFacts ==
  ASSUME SchedTypeOK
  PROVE  /\ freeNodes \in Seq(dag.comp) /\ seq \in Seq(dag.comp) /\ topo \in Seq(dag.comp)
         /\ byTag \in [Tag -> Seq(dag.comp)] /\ indeg \in [dag.comp -> Nat]
         /\ emitted \subseteq dag.comp /\ todo \subseteq dag.comp
         /\ dag.free \subseteq dag.comp /\ dag.tag \in [dag.comp -> Tag \cup {NoTag}]
         /\ dag.succ \in [dag.comp -> SUBSET dag.comp]
         /\ lastTag \in Tag \cup {NoTag} /\ step \in {"seed", "run", "done"}
BY DEF SchedTypeOK, SeqOfComps, IsCondensation

\* pushComp(c) puts c into the queues of its kind and changes nothing else.
LEMMA PushEffect ==
  ASSUME SchedTypeOK, NEW c \in dag.comp, Push(c)
  PROVE  /\ freeNodes' \in Seq(dag.comp) /\ seq' \in Seq(dag.comp)
         /\ byTag' \in [Tag -> Seq(dag.comp)]
         /\ Members(freeNodes') = Members(freeNodes) \cup (IF c \in dag.free THEN {c} ELSE {})
         /\ NoDup(freeNodes) /\ c \notin Members(freeNodes) => NoDup(freeNodes')
         /\ Members(seq') = Members(seq) \cup (IF c \in dag.free THEN {} ELSE {c})
         /\ \A t \in Tag : Members(byTag'[t]) = Members(byTag[t]) \cup
              (IF c \notin dag.free /\ dag.tag[c] = t THEN {c} ELSE {})
<1>1. CASE c \in dag.free
  <2>1. freeNodes' = Append(freeNodes, c) /\ byTag' = byTag /\ seq' = seq
    BY <1>1 DEF Push
  <2> QED BY <1>1, <2>1, TypeFacts, AppendMembers
<1>2. CASE c \notin dag.free
  <2>1. /\ freeNodes' = freeNodes /\ seq' = Append(seq, c)
        /\ byTag' = IF dag.tag[c] = NoTag THEN byTag
                    ELSE [byTag EXCEPT ![dag.tag[c]] = Append(@, c)]
    BY <1>2 DEF Push
  <2>2. seq' \in Seq(dag.comp) /\ Members(seq') = Members(seq) \cup {c}
    BY <2>1, TypeFacts, AppendMembers
  <2>3. CASE dag.tag[c] = NoTag
    BY <1>2, <2>1, <2>2, <2>3, TypeFacts, TagAssumption
  <2>4. CASE dag.tag[c] # NoTag
    <3>1. dag.tag[c] \in Tag
      BY <2>4, TypeFacts
    <3>2. /\ Append(byTag[dag.tag[c]], c) \in Seq(dag.comp)
          /\ Members(Append(byTag[dag.tag[c]], c)) = Members(byTag[dag.tag[c]]) \cup {c}
      <4>1. byTag[dag.tag[c]] \in Seq(dag.comp)
        BY <3>1, TypeFacts
      <4>2. \A q \in Seq(dag.comp) : /\ Append(q, c) \in Seq(dag.comp)
                                    /\ Members(Append(q, c)) = Members(q) \cup {c}
        BY AppendMembers
      <4> QED BY <4>1, <4>2
    <3>3. byTag' = [byTag EXCEPT ![dag.tag[c]] = Append(byTag[dag.tag[c]], c)]
      BY <2>1, <2>4
    <3>4. \A t \in Tag : byTag'[t] = IF t = dag.tag[c] THEN Append(byTag[t], c) ELSE byTag[t]
      BY <3>1, <3>3, TypeFacts
    <3>5. byTag' \in [Tag -> Seq(dag.comp)]
      BY <3>1, <3>2, <3>3, TypeFacts
    <3>6. \A t \in Tag : Members(byTag'[t]) = Members(byTag[t]) \cup
            (IF dag.tag[c] = t THEN {c} ELSE {})
      BY <3>2, <3>4
    <3>7. freeNodes' \in Seq(dag.comp) /\ Members(freeNodes') = Members(freeNodes)
      BY <2>1, TypeFacts
    <3> QED BY <1>2, <2>1, <2>2, <3>5, <3>6, <3>7
  <2> QED BY <2>3, <2>4
<1> QED BY <1>1, <1>2

\* A push of the one component that becomes ready keeps the queues right.
LEMMA PushKeeps ==
  ASSUME SchedInv, NEW c \in dag.comp, Push(c), dag' = dag, emitted' = emitted,
         c \notin emitted, ~Started(c), Started(c)',
         \A x \in dag.comp \ {c} : Started(x)' = Started(x)
  PROVE  QueueInv' /\ WaitInv'
<1>1. SchedTypeOK /\ QueueInv /\ WaitInv
  BY DEF SchedInv
<1>2. /\ Members(freeNodes') = Members(freeNodes) \cup (IF c \in dag.free THEN {c} ELSE {})
      /\ NoDup(freeNodes) /\ c \notin Members(freeNodes) => NoDup(freeNodes')
      /\ Members(seq') = Members(seq) \cup (IF c \in dag.free THEN {} ELSE {c})
      /\ \A t \in Tag : Members(byTag'[t]) = Members(byTag[t]) \cup
           (IF c \notin dag.free /\ dag.tag[c] = t THEN {c} ELSE {})
  BY <1>1, PushEffect
<1>3. /\ Members(freeNodes) \subseteq dag.comp /\ Members(seq) \subseteq dag.comp
      /\ \A t \in Tag : Members(byTag[t]) \subseteq dag.comp
  BY <1>1, TypeFacts DEF Members
<1>4. \A x \in dag.comp : Started(x) => Started(x)'
  OBVIOUS
<1>5. NoDup(freeNodes')
  BY <1>1, <1>2 DEF QueueInv
<1>6. \A x \in Members(freeNodes') : x \in dag.free /\ x \notin emitted /\ Started(x)'
  BY <1>1, <1>2, <1>3, <1>4 DEF QueueInv
<1>7. \A x \in Members(seq') : x \notin dag.free /\ Started(x)'
  BY <1>1, <1>2, <1>3, <1>4 DEF QueueInv
<1>8. \A t \in Tag : \A x \in Members(byTag'[t]) :
        x \notin dag.free /\ dag.tag[x] = t /\ Started(x)'
  BY <1>1, <1>2, <1>3, <1>4 DEF QueueInv
<1>9. QueueInv'
  <2> HIDE DEF Started
  <2> QED BY <1>5, <1>6, <1>7, <1>8 DEF QueueInv
<1>10. ASSUME NEW x \in dag.comp \ emitted, Started(x)'
       PROVE  IF x \in dag.free THEN x \in Members(freeNodes')
              ELSE x \in Members(seq') /\ \A t \in Tag : dag.tag[x] = t => x \in Members(byTag'[t])
  <2>1. CASE x = c
    BY <1>2, <2>1
  <2>2. CASE x # c
    <3>1. Started(x)
      BY <1>10, <2>2
    <3> QED BY <1>1, <1>2, <3>1 DEF WaitInv
  <2> QED BY <2>1, <2>2
<1>11. WaitInv'
  BY <1>10 DEF WaitInv
<1> QED BY <1>9, <1>11

\* Queues that only lose emitted components stay right.
LEMMA PopKeeps ==
  ASSUME SchedInv, dag' = dag, emitted \subseteq emitted',
         NoDup(freeNodes'), Members(freeNodes') \cap emitted' = {},
         Members(freeNodes') \subseteq Members(freeNodes),
         Members(freeNodes) \subseteq Members(freeNodes') \cup emitted',
         Members(seq') \subseteq Members(seq),
         Members(seq) \subseteq Members(seq') \cup emitted',
         \A t \in Tag : /\ Members(byTag'[t]) \subseteq Members(byTag[t])
                        /\ Members(byTag[t]) \subseteq Members(byTag'[t]) \cup emitted',
         \A x \in dag.comp : Started(x)' = Started(x)
  PROVE  QueueInv' /\ WaitInv'
<1>1. SchedTypeOK /\ QueueInv /\ WaitInv
  BY DEF SchedInv
<1>2. /\ Members(freeNodes) \subseteq dag.comp /\ Members(seq) \subseteq dag.comp
      /\ \A t \in Tag : Members(byTag[t]) \subseteq dag.comp
  BY <1>1, TypeFacts DEF Members
<1>3. \A x \in Members(freeNodes') : x \in dag.free /\ x \notin emitted' /\ Started(x)'
  BY <1>1, <1>2 DEF QueueInv
<1>4. \A x \in Members(seq') : x \notin dag.free /\ Started(x)'
  BY <1>1, <1>2 DEF QueueInv
<1>5. \A t \in Tag : \A x \in Members(byTag'[t]) :
        x \notin dag.free /\ dag.tag[x] = t /\ Started(x)'
  BY <1>1, <1>2 DEF QueueInv
<1>6. QueueInv'
  BY <1>3, <1>4, <1>5 DEF QueueInv
<1>7. ASSUME NEW x \in dag.comp \ emitted', Started(x)'
      PROVE  IF x \in dag.free THEN x \in Members(freeNodes')
             ELSE x \in Members(seq') /\ \A t \in Tag : dag.tag[x] = t => x \in Members(byTag'[t])
  <2>1. Started(x) /\ x \in dag.comp \ emitted
    BY <1>7
  <2>2. IF x \in dag.free THEN x \in Members(freeNodes)
        ELSE x \in Members(seq) /\ \A t \in Tag : dag.tag[x] = t => x \in Members(byTag[t])
    BY <1>1, <2>1 DEF WaitInv
  <2> QED BY <1>7, <2>2
<1>8. WaitInv'
  BY <1>7 DEF WaitInv
<1> QED BY <1>6, <1>8

-----------------------------------------------------------------------------
\* The counts start at the number of feeders and nothing is in a queue.
LEMMA StartInv ==
  ASSUME IsCondensation(dag), StartOn(dag)
  PROVE  SchedInv
<1>1. /\ indeg = Degree(dag) /\ freeNodes = <<>> /\ byTag = [t \in Tag |-> <<>>]
      /\ seq = <<>> /\ emitted = {} /\ topo = <<>> /\ lastTag = NoTag
      /\ todo = {c \in dag.comp : indeg[c] = 0} /\ step = "seed"
  BY DEF StartOn
<1>2. ASSUME NEW w \in dag.comp
      PROVE  IsFiniteSet(Feeders(w)) /\ Pending(w) = Feeders(w)
             /\ indeg[w] = Cardinality(Feeders(w))
  <2>1. IsFiniteSet(dag.comp) /\ Feeders(w) \in SUBSET dag.comp
    BY DEF IsCondensation, Feeders
  <2>2. Pending(w) = Feeders(w)
    BY <1>1 DEF Pending
  <2>3. indeg[w] = Cardinality(Feeders(w))
    BY <1>1 DEF Degree, Feeders
  <2> QED BY <2>1, <2>2, <2>3, FS_Subset, Zenon
<1>3. indeg \in [dag.comp -> Nat]
  <2>1. \A w \in dag.comp : indeg[w] \in Nat
    BY <1>2, FS_CardinalityType
  <2>2. indeg = [w \in dag.comp |-> indeg[w]]
    BY <1>1 DEF Degree
  <2> QED BY <2>1, <2>2
<1>4. SchedTypeOK
  BY <1>1, <1>3 DEF SchedTypeOK, SeqOfComps
<1>5. CountInv
  BY <1>2 DEF CountInv
<1>6. LoopInv
  BY <1>1 DEF LoopInv
<1>7. OrderInv
  BY <1>1 DEF OrderInv, Members, NoDup, ProducersFirst
<1>8. QueueInv
  BY <1>1 DEF QueueInv, Members, NoDup
<1>9. WaitInv
  BY <1>1 DEF WaitInv, Started
<1> QED BY <1>4, <1>5, <1>6, <1>7, <1>8, <1>9 DEF SchedInv

\* What is ready and emitted from a queue has all its feeders out.
LEMMA StartedIsReady ==
  ASSUME SchedInv, NEW c \in dag.comp, Started(c), step = "run", todo = {}
  PROVE  Feeders(c) \subseteq emitted
<1>1. indeg[c] = Cardinality(Pending(c)) /\ indeg[c] = 0 /\ SchedTypeOK
  BY DEF SchedInv, CountInv, Started
<1>2. Pending(c) = {}
  BY <1>1, FeedersFinite, FS_EmptySet, Zenon
<1> QED BY <1>2 DEF Pending

\* And conversely.
LEMMA ReadyIsStarted ==
  ASSUME SchedInv, NEW c \in dag.comp, Feeders(c) \subseteq emitted, step = "run", todo = {}
  PROVE  Started(c)
<1>1. indeg[c] = Cardinality(Pending(c))
  BY DEF SchedInv, CountInv
<1>2. Pending(c) = {}
  BY DEF Pending
<1> QED BY <1>1, <1>2, FS_EmptySet DEF Started

\* Emitting a ready component that is not out yet keeps counts, loop and order.
LEMMA EmitKeeps ==
  ASSUME SchedInv, NEW c \in dag.comp, Picking, c \notin emitted, Started(c), Emit(c),
         dag' = dag, indeg' = indeg, step' = step
  PROVE  /\ CountInv' /\ LoopInv' /\ OrderInv'
         /\ topo' \in Seq(dag.comp) /\ emitted' \subseteq dag.comp /\ todo' \subseteq dag.comp
         /\ \A x \in dag.comp : Started(x)' = Started(x)
<1>1. /\ SchedTypeOK /\ CountInv /\ LoopInv /\ OrderInv
      /\ step = "run" /\ todo = {}
      /\ emitted' = emitted \cup {c} /\ topo' = Append(topo, c) /\ todo' = dag.succ[c]
  BY DEF SchedInv, Picking, Emit
<1>2. /\ topo \in Seq(dag.comp) /\ emitted \subseteq dag.comp
      /\ dag.succ \in [dag.comp -> SUBSET dag.comp]
  BY <1>1, TypeFacts
<1>3. /\ topo' \in Seq(dag.comp) /\ Members(topo') = Members(topo) \cup {c}
      /\ NoDup(topo) /\ c \notin Members(topo) => NoDup(topo')
      /\ topo' # <<>> /\ topo'[Len(topo')] = c
  BY <1>1, <1>2, AppendMembers
<1>4. ASSUME NEW w \in dag.comp
      PROVE  Pending(w)' = Pending(w)
  <2>1. Feeders(w)' = Feeders(w)
    BY DEF Feeders
  <2>2. c \in Feeders(w) <=> w \in todo'
    BY <1>1 DEF Feeders
  <2>3. Pending(w)' = {b \in Feeders(w) : b \notin emitted' \/ (w \in todo' /\ b = c)}
    BY <1>1, <1>3, <2>1 DEF Pending, Current
  <2>4. Pending(w) = {b \in Feeders(w) : b \notin emitted}
    BY <1>1 DEF Pending
  <2> QED BY <1>1, <2>2, <2>3, <2>4
<1>5. CountInv'
  <2>1. \A w \in dag.comp : indeg'[w] = Cardinality(Pending(w)')
    BY <1>1, <1>4 DEF CountInv
  <2> QED BY <2>1 DEF CountInv
<1>6. LoopInv'
  BY <1>1, <1>3 DEF LoopInv, Current
<1>7. Feeders(c) \subseteq emitted
  BY <1>1, StartedIsReady
<1>8. ProducersFirst'
  <2>1. /\ Len(topo) \in Nat /\ DOMAIN topo = 1..Len(topo)
        /\ DOMAIN topo' = 1..(Len(topo) + 1)
        /\ \A k \in 1..Len(topo) : topo'[k] = topo[k]
        /\ topo'[Len(topo) + 1] = c
    BY <1>1, <1>2
  <2> SUFFICES ASSUME NEW k \in DOMAIN topo', NEW b \in Feeders(topo'[k])
               PROVE  \E j \in 1..(k - 1) : topo'[j] = b
    BY DEF ProducersFirst, Feeders
  <2>2. CASE k \in 1..Len(topo)
    <3>1. b \in Feeders(topo[k])
      BY <2>1, <2>2
    <3>2. PICK j \in 1..(k - 1) : topo[j] = b
      BY <1>1, <2>1, <2>2, <3>1 DEF OrderInv, ProducersFirst
    <3> QED BY <2>1, <2>2, <3>2
  <2>3. CASE k = Len(topo) + 1
    <3>1. b \in Members(topo)
      BY <1>1, <1>7, <2>1, <2>3 DEF OrderInv
    <3> QED BY <2>1, <2>3, <3>1 DEF Members
  <2> QED BY <2>1, <2>2, <2>3
<1>9. OrderInv'
  <2>1. indeg[c] = 0
    BY DEF Started
  <2> QED BY <1>1, <1>3, <1>8, <2>1 DEF OrderInv
<1>10. \A x \in dag.comp : Started(x)' = Started(x)
  BY <1>1 DEF Started
<1> QED BY <1>1, <1>2, <1>3, <1>5, <1>6, <1>9, <1>10

\* The loop of emit(): the count of a consumer stands for the feeders not out.
LEMMA UnblockStep ==
  ASSUME SchedInv, NEW w \in dag.comp, Unblock(w)
  PROVE  SchedInv'
<1>1. /\ SchedTypeOK /\ CountInv /\ LoopInv /\ OrderInv /\ QueueInv /\ WaitInv
      /\ step = "run" /\ w \in todo
      /\ indeg' = [indeg EXCEPT ![w] = @ - 1] /\ todo' = todo \ {w}
      /\ dag' = dag /\ emitted' = emitted /\ topo' = topo /\ lastTag' = lastTag /\ step' = step
      /\ IF indeg[w] = 1 THEN Push(w) ELSE UNCHANGED <<freeNodes, byTag, seq>>
  BY DEF SchedInv, Unblock, NextTodo, Ready, queues
<1>2. indeg \in [dag.comp -> Nat] /\ topo \in Seq(dag.comp)
  BY <1>1, TypeFacts
<1>3. topo # <<>> /\ todo \subseteq dag.succ[Current] /\ Current \in Members(topo)
  <2>1. topo # <<>> /\ todo \subseteq dag.succ[Current]
    BY <1>1 DEF LoopInv
  <2>2. Len(topo) \in DOMAIN topo
    BY <1>2, <2>1
  <2> QED BY <2>1, <2>2 DEF Members, Current
<1>4. Current \in emitted /\ Current \in Feeders(w) /\ Current \in Pending(w)
  BY <1>1, <1>3, TypeFacts DEF Feeders, Pending, OrderInv
<1>5. \A x \in dag.comp : Feeders(x)' = Feeders(x)
  BY <1>1 DEF Feeders
<1>6. Pending(w)' = Pending(w) \ {Current}
  <2>1. Pending(w)' = {b \in Feeders(w) : b \notin emitted}
    BY <1>1, <1>5 DEF Pending
  <2>2. Pending(w) = {b \in Feeders(w) : b \notin emitted \/ b = Current}
    BY <1>1 DEF Pending
  <2> QED BY <1>4, <2>1, <2>2
<1>7. \A x \in dag.comp \ {w} : Pending(x)' = Pending(x)
  BY <1>1, <1>5 DEF Pending, Current
<1>8. /\ indeg[w] # 0
      /\ indeg[w] - 1 = Cardinality(Pending(w)') /\ indeg[w] - 1 \in Nat
  <2>1. IsFiniteSet(Pending(w)) /\ indeg[w] = Cardinality(Pending(w))
    BY <1>1, FeedersFinite DEF CountInv
  <2>2. Cardinality(Pending(w) \ {Current}) = Cardinality(Pending(w)) - 1
    BY <1>4, <2>1, FS_RemoveElement
  <2>3. Cardinality(Pending(w)) # 0
    BY <1>4, <2>1, FS_EmptySet
  <2> QED BY <1>2, <1>6, <2>1, <2>2, <2>3
<1>9. indeg' \in [dag.comp -> Nat] /\ indeg'[w] = indeg[w] - 1
      /\ \A x \in dag.comp \ {w} : indeg'[x] = indeg[x]
  BY <1>1, <1>2, <1>8
<1>10. CountInv'
  <2>1. \A x \in dag.comp : indeg'[x] = Cardinality(Pending(x)')
    BY <1>1, <1>7, <1>8, <1>9 DEF CountInv
  <2> QED BY <1>1, <2>1 DEF CountInv
<1>11. LoopInv'
  BY <1>1, <1>3 DEF LoopInv, Current
<1>12. w \notin emitted /\ ~Started(w)
  BY <1>1, <1>8 DEF OrderInv, Started
<1>13. OrderInv'
  <2>1. ProducersFirst'
    BY <1>1 DEF OrderInv, ProducersFirst, Feeders
  <2>2. emitted \subseteq dag.comp
    BY <1>1, TypeFacts
  <2> QED BY <1>1, <1>9, <1>12, <2>1, <2>2 DEF OrderInv
<1>14. \A x \in dag.comp \ {w} : Started(x)' = Started(x)
  BY <1>1, <1>9 DEF Started
<1>15. freeNodes' \in Seq(dag.comp) /\ seq' \in Seq(dag.comp) /\ byTag' \in [Tag -> Seq(dag.comp)]
       /\ QueueInv' /\ WaitInv'
  <2>1. CASE indeg[w] = 1
    <3>1. Push(w) /\ Started(w)'
      BY <1>1, <1>9, <2>1 DEF Started
    <3>2. QueueInv' /\ WaitInv'
      BY <1>1, <1>12, <1>14, <3>1, PushKeeps
    <3> QED BY <1>1, <3>1, <3>2, PushEffect
  <2>2. CASE indeg[w] # 1
    <3>1. freeNodes' = freeNodes /\ byTag' = byTag /\ seq' = seq
      BY <1>1, <2>2
    <3>2. ~Started(w)'
      BY <1>1, <1>2, <1>9, <2>2 DEF Started
    <3>3. \A x \in dag.comp : Started(x)' = Started(x)
      BY <1>12, <1>14, <3>2 DEF Started
    <3>4. QueueInv'
      <4>1. /\ Members(freeNodes) \subseteq dag.comp /\ Members(seq) \subseteq dag.comp
            /\ \A t \in Tag : Members(byTag[t]) \subseteq dag.comp
        BY <1>1, TypeFacts DEF Members
      <4> QED BY <1>1, <3>1, <3>3, <4>1 DEF QueueInv
    <3>5. WaitInv'
      BY <1>1, <3>1, <3>3 DEF WaitInv
    <3> QED BY <1>1, <3>1, <3>4, <3>5, TypeFacts
  <2> QED BY <2>1, <2>2
<1>16. SchedTypeOK'
  BY <1>1, <1>9, <1>15 DEF SchedTypeOK, SeqOfComps
<1> QED BY <1>10, <1>11, <1>13, <1>15, <1>16 DEF SchedInv

\* The first loop: components without feeders are pushed.
LEMMA SeedStep ==
  ASSUME SchedInv, NEW c \in dag.comp, Seed(c)
  PROVE  SchedInv'
<1>1. /\ SchedTypeOK /\ CountInv /\ LoopInv /\ OrderInv
      /\ step = "seed" /\ c \in todo /\ Push(c) /\ todo' = todo \ {c}
      /\ dag' = dag /\ indeg' = indeg /\ emitted' = emitted /\ topo' = topo
      /\ lastTag' = lastTag /\ step' = step
  BY DEF SchedInv, Seed, NextTodo
<1>2. c \notin emitted /\ ~Started(c) /\ Started(c)'
  BY <1>1 DEF LoopInv, Started
<1>3. \A x \in dag.comp \ {c} : Started(x)' = Started(x)
  BY <1>1 DEF Started
<1>4. QueueInv' /\ WaitInv'
  BY <1>1, <1>2, <1>3, PushKeeps
<1>5. CountInv'
  <2>1. \A w \in dag.comp : Pending(w)' = Pending(w)
    BY <1>1 DEF Pending, Feeders
  <2> QED BY <1>1, <2>1 DEF CountInv
<1>6. LoopInv'
  BY <1>1 DEF LoopInv
<1>7. OrderInv'
  BY <1>1 DEF OrderInv, ProducersFirst, Feeders
<1>8. SchedTypeOK'
  BY <1>1, PushEffect DEF SchedTypeOK, SeqOfComps
<1> QED BY <1>4, <1>5, <1>6, <1>7, <1>8 DEF SchedInv

\* A component taken from the front of a queue was not emitted and is ready.
LEMMA TakenIsReady ==
  ASSUME SchedInv, DrainFree \/ TakeSameType \/ TakeOldest
  PROVE  \E c \in dag.comp \ emitted :
           /\ Picking /\ Started(c) /\ Emit(c) /\ dag' = dag /\ indeg' = indeg /\ step' = step
           /\ DrainFree => c \in dag.free
           /\ TakeSameType => c \notin dag.free /\ dag.tag[c] = lastTag
           /\ TakeOldest => c \notin dag.free
<1>1. SchedTypeOK /\ QueueInv
  BY DEF SchedInv
<1>2. CASE DrainFree
  <2>1. /\ Picking /\ freeNodes # <<>> /\ Emit(Head(freeNodes))
        /\ dag' = dag /\ indeg' = indeg /\ step' = step
    BY <1>2 DEF DrainFree
  <2>2. Head(freeNodes) \in dag.comp /\ Head(freeNodes) \in Members(freeNodes)
    BY <1>1, <2>1, TypeFacts, TailMembers
  <2>3. /\ Head(freeNodes) \in dag.free /\ Head(freeNodes) \notin emitted
        /\ Started(Head(freeNodes))
    BY <1>1, <2>2 DEF QueueInv
  <2>4. ~TakeSameType /\ ~TakeOldest
    BY <2>1 DEF TakeSameType, TakeOldest, FallBack
  <2> QED BY <2>1, <2>2, <2>3, <2>4
<1>3. CASE TakeSameType
  <2> DEFINE q == byTag[lastTag]
  <2>1. /\ Picking /\ freeNodes = <<>> /\ SameType /\ Head(q) \notin emitted /\ Emit(Head(q))
        /\ dag' = dag /\ indeg' = indeg /\ step' = step
    BY <1>3 DEF TakeSameType, IsStale
  <2>2. lastTag \in Tag /\ q \in Seq(dag.comp) /\ q # <<>>
    BY <1>1, <2>1, TypeFacts DEF SameType
  <2> HIDE DEF q
  <2>3. Head(q) \in dag.comp /\ Head(q) \in Members(q)
    BY <2>2, TailMembers
  <2>4. Head(q) \notin dag.free /\ dag.tag[Head(q)] = lastTag /\ Started(Head(q))
    BY <1>1, <2>2, <2>3 DEF QueueInv, q
  <2>5. ~DrainFree /\ ~TakeOldest
    BY <2>1 DEF DrainFree, TakeOldest, FallBack
  <2> QED BY <2>1, <2>3, <2>4, <2>5
<1>4. CASE TakeOldest
  <2>1. /\ Picking /\ freeNodes = <<>> /\ ~SameType /\ seq # <<>>
        /\ Head(seq) \notin emitted /\ Emit(Head(seq))
        /\ dag' = dag /\ indeg' = indeg /\ step' = step
    BY <1>4 DEF TakeOldest, FallBack, IsStale
  <2>2. Head(seq) \in dag.comp /\ Head(seq) \in Members(seq)
    BY <1>1, <2>1, TypeFacts, TailMembers
  <2>3. Head(seq) \notin dag.free /\ Started(Head(seq))
    BY <1>1, <2>2 DEF QueueInv
  <2>4. ~DrainFree /\ ~TakeSameType
    BY <2>1 DEF DrainFree, TakeSameType
  <2> QED BY <2>1, <2>2, <2>3, <2>4
<1> QED BY <1>2, <1>3, <1>4

\* What the pops do to the queues: only their heads go, and those are emitted.
LEMMA PopEffect ==
  ASSUME SchedInv, DrainFree \/ SkipSameType \/ TakeSameType \/ SkipOldest \/ TakeOldest
  PROVE  /\ freeNodes' \in Seq(dag.comp) /\ seq' \in Seq(dag.comp)
         /\ byTag' \in [Tag -> Seq(dag.comp)]
         /\ NoDup(freeNodes') /\ Members(freeNodes') \cap emitted' = {}
         /\ Members(freeNodes') \subseteq Members(freeNodes)
         /\ Members(freeNodes) \subseteq Members(freeNodes') \cup emitted'
         /\ Members(seq') \subseteq Members(seq)
         /\ Members(seq) \subseteq Members(seq') \cup emitted'
         /\ \A t \in Tag : /\ Members(byTag'[t]) \subseteq Members(byTag[t])
                           /\ Members(byTag[t]) \subseteq Members(byTag'[t]) \cup emitted'
<1>1. /\ SchedTypeOK /\ QueueInv /\ freeNodes \in Seq(dag.comp) /\ seq \in Seq(dag.comp)
      /\ byTag \in [Tag -> Seq(dag.comp)]
  BY TypeFacts DEF SchedInv
<1>2. NoDup(freeNodes) /\ Members(freeNodes) \cap emitted = {}
  BY <1>1 DEF QueueInv
<1>3. CASE DrainFree
  <2>1. /\ freeNodes # <<>> /\ freeNodes' = Tail(freeNodes) /\ seq' = seq /\ byTag' = byTag
        /\ emitted' = emitted \cup {Head(freeNodes)}
    BY <1>3 DEF DrainFree, Emit
  <2> QED BY <1>1, <1>2, <2>1, TailMembers
<1>4. CASE SkipSameType \/ TakeSameType
  <2> DEFINE q == byTag[lastTag]
  <2>1. /\ freeNodes = <<>> /\ freeNodes' = freeNodes /\ seq' = seq /\ SameType
        /\ byTag' = [byTag EXCEPT ![lastTag] = Tail(q)]
        /\ Head(q) \in emitted' /\ emitted \subseteq emitted'
    BY <1>4 DEF SkipSameType, TakeSameType, IsStale, Emit
  <2>2. lastTag \in Tag /\ q \in Seq(dag.comp) /\ q # <<>>
    BY <1>1, <2>1, TypeFacts DEF SameType
  <2>3. \A t \in Tag : byTag'[t] = IF t = lastTag THEN Tail(q) ELSE byTag[t]
    BY <1>1, <2>1
  <2> HIDE DEF q
  <2>4. /\ Tail(q) \in Seq(dag.comp) /\ Members(Tail(q)) \subseteq Members(q)
        /\ Members(q) \subseteq Members(Tail(q)) \cup {Head(q)}
    BY <2>2, TailMembers
  <2>5. byTag' \in [Tag -> Seq(dag.comp)]
    BY <1>1, <2>1, <2>2, <2>4
  <2>6. \A t \in Tag : /\ Members(byTag'[t]) \subseteq Members(byTag[t])
                       /\ Members(byTag[t]) \subseteq Members(byTag'[t]) \cup emitted'
    BY <2>1, <2>3, <2>4 DEF q
  <2>7. Members(freeNodes') = {}
    BY <2>1 DEF Members
  <2>8. NoDup(freeNodes')
    BY <1>2, <2>1
  <2> QED BY <1>1, <2>1, <2>5, <2>6, <2>7, <2>8
<1>5. CASE SkipOldest \/ TakeOldest
  <2>1. /\ freeNodes = <<>> /\ freeNodes' = freeNodes /\ byTag' = byTag
        /\ seq # <<>> /\ seq' = Tail(seq)
        /\ Head(seq) \in emitted' /\ emitted \subseteq emitted'
    BY <1>5 DEF SkipOldest, TakeOldest, FallBack, IsStale, Emit
  <2>2. Members(freeNodes') = {}
    BY <2>1 DEF Members
  <2>3. NoDup(freeNodes')
    BY <1>2, <2>1
  <2>4. /\ Tail(seq) \in Seq(dag.comp) /\ Members(Tail(seq)) \subseteq Members(seq)
        /\ Members(seq) \subseteq Members(Tail(seq)) \cup {Head(seq)}
    BY <1>1, <2>1, TailMembers
  <2> QED BY <1>1, <2>1, <2>2, <2>3, <2>4
<1> QED BY <1>3, <1>4, <1>5

\* Taking a component from a queue.
LEMMA TakeStep ==
  ASSUME SchedInv, DrainFree \/ TakeSameType \/ TakeOldest
  PROVE  SchedInv'
<1>1. PICK c \in dag.comp \ emitted :
        Picking /\ Started(c) /\ Emit(c) /\ dag' = dag /\ indeg' = indeg /\ step' = step
  BY TakenIsReady
<1>2. /\ CountInv' /\ LoopInv' /\ OrderInv'
      /\ topo' \in Seq(dag.comp) /\ emitted' \subseteq dag.comp /\ todo' \subseteq dag.comp
      /\ \A x \in dag.comp : Started(x)' = Started(x)
  BY <1>1, EmitKeeps
<1>3. emitted \subseteq emitted'
  BY <1>1 DEF Emit
<1>4. QueueInv' /\ WaitInv'
  BY <1>1, <1>2, <1>3, PopEffect, PopKeeps
<1>5. SchedTypeOK
  BY DEF SchedInv
<1>6. lastTag' \in Tag \cup {NoTag}
  <2>1. CASE DrainFree \/ TakeSameType
    BY <1>5, <2>1, TypeFacts DEF DrainFree, TakeSameType
  <2>2. CASE TakeOldest
    <3>1. lastTag' = dag.tag[Head(seq)] /\ seq # <<>>
      BY <2>2 DEF TakeOldest
    <3>2. Head(seq) \in dag.comp
      BY <1>5, <3>1, TypeFacts, TailMembers
    <3> QED BY <1>5, <3>1, <3>2, TypeFacts
  <2> QED BY <2>1, <2>2
<1>7. SchedTypeOK'
  BY <1>1, <1>2, <1>5, <1>6, PopEffect DEF SchedTypeOK, SeqOfComps
<1> QED BY <1>2, <1>4, <1>7 DEF SchedInv

\* Dropping a stale entry.
LEMMA SkipStep ==
  ASSUME SchedInv, SkipSameType \/ SkipOldest
  PROVE  SchedInv'
<1>1. /\ dag' = dag /\ indeg' = indeg /\ emitted' = emitted /\ topo' = topo
      /\ lastTag' = lastTag /\ todo' = todo /\ step' = step
  BY DEF SkipSameType, SkipOldest
<1>2. SchedTypeOK /\ CountInv /\ LoopInv /\ OrderInv
  BY DEF SchedInv
<1>3. \A x \in dag.comp : Started(x)' = Started(x)
  BY <1>1 DEF Started
<1>4. QueueInv' /\ WaitInv'
  BY <1>1, <1>3, PopEffect, PopKeeps
<1>5. CountInv'
  <2>1. \A w \in dag.comp : Pending(w)' = Pending(w)
    BY <1>1 DEF Pending, Feeders, Current
  <2> QED BY <1>1, <1>2, <2>1 DEF CountInv
<1>6. LoopInv' /\ OrderInv'
  BY <1>1, <1>2 DEF LoopInv, OrderInv, ProducersFirst, Feeders, Current
<1>7. SchedTypeOK'
  BY <1>1, <1>2, PopEffect DEF SchedTypeOK, SeqOfComps
<1> QED BY <1>4, <1>5, <1>6, <1>7 DEF SchedInv

\* Between the loops.
LEMMA EndLoopStep ==
  ASSUME SchedInv, EndLoop
  PROVE  SchedInv'
<1>1. /\ todo = {} /\ dag' = dag /\ indeg' = indeg /\ emitted' = emitted /\ topo' = topo
      /\ lastTag' = lastTag /\ todo' = todo
      /\ freeNodes' = freeNodes /\ byTag' = byTag /\ seq' = seq
      /\ step' \in {"run", "done"}
  BY DEF EndLoop, queues
<1>2. SchedTypeOK /\ CountInv /\ LoopInv /\ OrderInv /\ QueueInv /\ WaitInv
  BY DEF SchedInv
<1>3. \A x : Started(x)' = Started(x)
  BY <1>1 DEF Started
<1>4. CountInv'
  <2>1. \A w \in dag.comp : Pending(w)' = Pending(w)
    BY <1>1 DEF Pending, Feeders
  <2> QED BY <1>1, <1>2, <2>1 DEF CountInv
<1>5. LoopInv' /\ OrderInv'
  BY <1>1, <1>2 DEF LoopInv, OrderInv, ProducersFirst, Feeders
<1>6. QueueInv' /\ WaitInv'
  BY <1>1, <1>2, <1>3 DEF QueueInv, WaitInv
<1>7. SchedTypeOK'
  BY <1>1, <1>2 DEF SchedTypeOK, SeqOfComps
<1> QED BY <1>4, <1>5, <1>6, <1>7 DEF SchedInv

LEMMA StepInv == SchedInv /\ [Schedule]_svars => SchedInv'
<1> SUFFICES ASSUME SchedInv, [Schedule]_svars
             PROVE  SchedInv'
  OBVIOUS
<1>1. ASSUME NEW c \in dag.comp, Seed(c) PROVE SchedInv'
  BY <1>1, SeedStep
<1>2. ASSUME NEW w \in dag.comp, Unblock(w) PROVE SchedInv'
  BY <1>2, UnblockStep
<1>3. CASE DrainFree \/ TakeSameType \/ TakeOldest
  BY <1>3, TakeStep
<1>4. CASE SkipSameType \/ SkipOldest
  BY <1>4, SkipStep
<1>5. CASE EndLoop
  BY <1>5, EndLoopStep
<1>6. CASE UNCHANGED svars
  BY <1>6 DEF svars, queues, SchedInv, SchedTypeOK, CountInv, LoopInv, OrderInv, QueueInv,
              WaitInv, SeqOfComps, Pending, Feeders, Current, Started, ProducersFirst
<1> QED BY <1>1, <1>2, <1>3, <1>4, <1>5, <1>6 DEF Schedule

-----------------------------------------------------------------------------
LEMMA AlwaysInv == SchedSpec => []SchedInv
<1>1. IsCondensation(dag) /\ StartOn(dag) => SchedInv
  BY StartInv
<1> QED BY <1>1, StepInv, PTL DEF SchedSpec

\* The variables keep their types on every condensation (graph.h:222-306).
THEOREM SchedTypesHold == SchedSpec => []SchedTypeOK
<1>1. SchedInv => SchedTypeOK
  BY DEF SchedInv
<1> QED BY <1>1, AlwaysInv, PTL

\* The order of emission is topological and without repetition on every condensation,
\* whatever types the actions have: what the Flat scan relies on (graph.h:226-228).
THEOREM OrderIsTopological == SchedSpec => []TopologicalOrder
<1>1. SchedInv => TopologicalOrder
  BY DEF SchedInv, OrderInv, TopologicalOrder, EmittedOnce, NoDup
<1> QED BY <1>1, AlwaysInv, PTL

\* Of the components left, the one with the largest number has all its feeders out,
\* so it is ready and waits in seq.
LEMMA SeqHoldsLive ==
  ASSUME SchedInv, FallBack
  PROVE  \E k \in DOMAIN seq : seq[k] \notin emitted
<1>1. /\ SchedTypeOK /\ WaitInv /\ step = "run" /\ todo = {}
      /\ emitted # dag.comp /\ freeNodes = <<>>
  BY DEF SchedInv, FallBack, Picking
<1>2. /\ emitted \subseteq dag.comp /\ IsCondensation(dag)
      /\ Cardinality(dag.comp) \in Nat /\ dag.comp = 1..Cardinality(dag.comp)
  BY <1>1, TypeFacts, FS_CardinalityType DEF SchedTypeOK, IsCondensation
<1>3. PICK m \in dag.comp \ emitted : \A x \in dag.comp \ emitted : x <= m
  <2>1. dag.comp \ emitted \in SUBSET (1..Cardinality(dag.comp)) /\ dag.comp \ emitted # {}
    BY <1>1, <1>2
  <2> QED BY <1>2, <2>1, Largest
<1>4. Feeders(m) \subseteq emitted
  <2>1. ASSUME NEW b \in Feeders(m)
        PROVE  b \in dag.comp /\ m < b
    BY <1>2, <2>1 DEF Feeders, IsCondensation
  <2>2. \A b \in dag.comp : b \in Int
    BY <1>2
  <2> QED BY <1>3, <2>1, <2>2
<1>5. Started(m)
  BY <1>1, <1>4, ReadyIsStarted
<1>6. m \in Members(seq)
  BY <1>1, <1>3, <1>5 DEF WaitInv, Members
<1> QED BY <1>3, <1>6 DEF Members

\* The internal error of graph.h:295-296 is unreachable on every condensation.
THEOREM SchedulerNeverRunsOut == SchedSpec => []NeverRunsOut
<1>1. SchedInv => NeverRunsOut
  BY SeqHoldsLive DEF NeverRunsOut
<1> QED BY <1>1, AlwaysInv, PTL

\* What the scheduler emits was ready, and nothing else changes the order.
LEMMA EmissionStep ==
  ASSUME SchedInv, [Schedule]_svars
  PROVE  dag' = dag /\
         \/ topo' = topo /\ emitted' = emitted
         \/ \E c \in dag.comp \ emitted :
              /\ Feeders(c) \subseteq emitted
              /\ topo' = Append(topo, c) /\ emitted' = emitted \cup {c}
              /\ \/ c \in dag.free
                 \/ SameType /\ dag.tag[c] = lastTag
                 \/ FallBack
<1>1. CASE DrainFree \/ TakeSameType \/ TakeOldest
  <2>1. PICK c \in dag.comp \ emitted :
           /\ Picking /\ Started(c) /\ Emit(c) /\ dag' = dag
           /\ DrainFree => c \in dag.free
           /\ TakeSameType => c \notin dag.free /\ dag.tag[c] = lastTag
    BY <1>1, TakenIsReady
  <2>2. Feeders(c) \subseteq emitted
    BY <2>1, StartedIsReady DEF Picking
  <2> QED BY <1>1, <2>1, <2>2 DEF Emit, TakeSameType, TakeOldest
<1>2. CASE SkipSameType \/ SkipOldest
  BY <1>2 DEF SkipSameType, SkipOldest
<1>3. CASE EndLoop
  BY <1>3 DEF EndLoop
<1>4. CASE \E c \in dag.comp : Seed(c) \/ Unblock(c)
  BY <1>4 DEF Seed, Unblock
<1>5. CASE UNCHANGED svars
  BY <1>5 DEF svars
<1> QED BY <1>1, <1>2, <1>3, <1>4, <1>5 DEF Schedule

\* On every condensation, a run of one type goes on as long as a component of that
\* type is ready: its queue then holds the component (graph.h:223-230, 276-289).
THEOREM RunsAreGreedy == SchedSpec => TypeGreedy
<1> DEFINE Greedy ==
      \A c \in emitted' \ emitted :
        /\ c \notin dag.free /\ lastTag # NoTag
        /\ \E d \in ReadyComps \ dag.free : dag.tag[d] = lastTag
        => dag.tag[c] = lastTag
<1>1. ASSUME SchedInv, [Schedule]_svars
      PROVE  Greedy
  <2> SUFFICES ASSUME NEW c \in emitted' \ emitted, c \notin dag.free, lastTag # NoTag,
                      NEW d \in ReadyComps \ dag.free, dag.tag[d] = lastTag
               PROVE  dag.tag[c] = lastTag
    OBVIOUS
  <2>1. (SameType /\ dag.tag[c] = lastTag) \/ FallBack
    BY <1>1, EmissionStep
  <2>2. ~FallBack
    <3> SUFFICES ASSUME FallBack
                 PROVE  FALSE
      OBVIOUS
    <3>1. /\ step = "run" /\ todo = {} /\ byTag[lastTag] = <<>>
          /\ SchedTypeOK /\ WaitInv
      BY <1>1 DEF FallBack, Picking, SameType, SchedInv
    <3>2. d \in dag.comp \ emitted /\ Started(d)
      BY <1>1, <3>1, ReadyIsStarted DEF ReadyComps
    <3>3. lastTag \in Tag
      BY <3>1, TypeFacts
    <3>4. d \in Members(byTag[lastTag])
      BY <3>1, <3>2, <3>3 DEF WaitInv
    <3> QED BY <3>1, <3>4 DEF Members
  <2> QED BY <2>1, <2>2
<1>2. SchedInv /\ [Schedule]_svars => [Greedy]_svars
  BY <1>1
<1> HIDE DEF Greedy
<1>3. SchedSpec => [][Greedy]_svars
  BY <1>2, AlwaysInv, PTL DEF SchedSpec
<1> QED BY <1>3 DEF Greedy, TypeGreedy

\* The scheduler with its queues implements the placing of components in any order
\* that respects the edges: each emission places a component whose feeders are placed,
\* every other step leaves the order alone.
THEOREM SchedulerRefinesExtension == SchedSpec => ImplementsLinearExtension
<1>1. StartOn(dag) => topo = <<>>
  BY DEF StartOn
<1>2. ASSUME SchedInv, [Schedule]_svars
      PROVE  [Extension!Receive \/ \E c \in dag.comp : Extension!Place(c)]_<<dag, topo>>
  <2>1. CASE topo' = topo
    BY <1>2, <2>1, EmissionStep
  <2>2. CASE topo' # topo
    <3>1. PICK c \in dag.comp \ emitted :
            Feeders(c) \subseteq emitted /\ topo' = Append(topo, c) /\ dag' = dag
      BY <1>2, <2>2, EmissionStep
    <3>2. emitted = Members(topo)
      BY <1>2 DEF SchedInv, OrderInv
    <3>3. Extension!Place(c)
      BY <3>1, <3>2 DEF Extension!Place, Extension!Placed, Extension!Feeds, Members, Feeders
    <3> QED BY <3>3
  <2> QED BY <2>1, <2>2
<1>3. SchedInv /\ [Schedule]_svars => [Extension!Receive \/ \E c \in dag.comp : Extension!Place(c)]_<<dag, topo>>
  BY <1>2
<1> QED BY <1>1, <1>3, AlwaysInv, PTL DEF SchedSpec, ImplementsLinearExtension, Extension!AnyOrder
=============================================================================
