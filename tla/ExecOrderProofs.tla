-------------------------- MODULE ExecOrderProofs --------------------------
(***************************************************************************)
(* buildExecOrder() from the flat model to execOrder, for every model: the *)
(* theorems about Tarjan and about Scheduler put together, and what they   *)
(* give the scan.                                                          *)
(***************************************************************************)
EXTENDS ExecOrder, GraphProofs

-----------------------------------------------------------------------------
(***************************************************************************)
(* Numbers, ranks and iteration.                                           *)
(***************************************************************************)
\* A set of numbers has a least one.
LEMMA LeastNat ==
  ASSUME NEW S \in SUBSET Nat, S # {}
  PROVE  \E a \in S : \A b \in S : a <= b
<1>1. \A a, b \in Nat : b < a => <<b, a>> \in OpToRel(<, Nat)
  BY Zenon DEF OpToRel
<1>2. PICK R : IsWellFoundedOn(R, Nat) /\ \A a, b \in Nat : b < a => <<b, a>> \in R
  BY <1>1, NatLessThanWellFounded, Zenon
<1>3. \E a \in S : \A b \in S : <<b, a>> \notin R
  BY <1>2, WFMin, Zenon
<1>4. PICK a \in S : \A b \in S : <<b, a>> \notin R
  BY <1>3
<1>5. \A b \in S : a <= b
  <2> TAKE b \in S
  <2>1. a \in Nat /\ b \in Nat
    OBVIOUS
  <2>2. ~(b < a)
    BY <1>2, <1>4, <2>1, Zenon
  <2> QED BY <2>1, <2>2
<1> QED BY <1>5

\* In a set ranked by numbers, what holds of an element if it holds of all of lower
\* rank holds of all.
LEMMA RankInduction ==
  ASSUME NEW S, NEW rank \in [S -> Nat], NEW P \in SUBSET S,
         \A x \in S : (\A y \in S : rank[y] < rank[x] => y \in P) => x \in P
  PROVE  P = S
<1> SUFFICES ASSUME P # S PROVE FALSE
  OBVIOUS
<1> DEFINE ranks == {rank[x] : x \in S \ P}
<1>1. ranks \in SUBSET Nat /\ ranks # {}
  OBVIOUS
<1>2. PICK n \in ranks : \A k \in ranks : n <= k
  BY <1>1, LeastNat
<1>3. PICK x \in S \ P : rank[x] = n
  BY <1>2
<1>4. PICK y \in S \ P : rank[y] < rank[x]
  OBVIOUS
<1>5. rank[y] \in ranks /\ rank[y] \in Nat /\ rank[x] \in Nat
  BY <1>4
<1> QED BY <1>2, <1>3, <1>4, <1>5

\* Induction up to N, for a set of numbers.
LEMMA Induction ==
  ASSUME NEW N \in Nat, NEW P \in SUBSET (0..N), 0 \in P,
         \A n \in 0..(N - 1) : n \in P => n + 1 \in P
  PROVE  P = 0..N
<1> SUFFICES ASSUME P # 0..N PROVE FALSE
  OBVIOUS
<1> DEFINE bad == (0..N) \ P
<1>0. P \in SUBSET (0..N) /\ P # 0..N /\ 0..N \in SUBSET Nat
  OBVIOUS
<1>1. bad \in SUBSET Nat /\ bad # {}
  BY <1>0
<1> HIDE DEF bad
<1>2. PICK n \in bad : \A k \in bad : n <= k
  BY <1>1, LeastNat
<1>3. n \in 0..N /\ n # 0 /\ n \notin P
  BY <1>2 DEF bad
<1>4. n - 1 \in 0..(N - 1) /\ n - 1 \in P
  BY <1>2, <1>3 DEF bad
<1>5. (n - 1) + 1 = n
  BY <1>3
<1> QED BY <1>3, <1>4, <1>5

\* f[0], f[1], ... are d0 and what the step g makes of the one before.
Iterates(f, g, d0, n) ==
  f[0] = d0 /\ \A k \in 1..n : f[k - 1] \in DOMAIN g => f[k] = g[f[k - 1]]

\* A step can be iterated on a set the step stays in.
LEMMA IterExists ==
  ASSUME NEW D, NEW g \in [D -> D], NEW d0 \in D, NEW N \in Nat
  PROVE  \E f \in [0..N -> D] : Iterates(f, g, d0, N)
<1> DEFINE Good(n, f) == f[0] = d0 /\ \A k \in 1..n : f[k] = g[f[k - 1]]
           P == {n \in 0..N : \E f \in [0..n -> D] : Good(n, f)}
<1>1. 0 \in P
  <2> DEFINE f == [k \in 0..0 |-> d0]
  <2>1. f \in [0..0 -> D] /\ Good(0, f)
    OBVIOUS
  <2> HIDE DEF f, Good
  <2>2. 0 \in 0..N
    OBVIOUS
  <2> QED BY <2>1, <2>2
<1>2. ASSUME NEW n \in 0..(N - 1), n \in P PROVE n + 1 \in P
  <2>1. PICK f \in [0..n -> D] : Good(n, f)
    BY <1>2
  <2> DEFINE h == [k \in 0..(n + 1) |-> IF k = n + 1 THEN g[f[n]] ELSE f[k]]
  <2>2. h \in [0..(n + 1) -> D]
    <3>1. f[n] \in D /\ g[f[n]] \in D
      BY <2>1
    <3>2. ASSUME NEW k \in 0..(n + 1) PROVE h[k] \in D
      <4>1. CASE k = n + 1
        BY <3>1, <4>1
      <4>2. CASE k # n + 1
        <5>1. k \in 0..n
          BY <4>2
        <5>2. f[k] \in D
          BY <2>1, <5>1
        <5> QED BY <4>2, <5>2
      <4> QED BY <4>1, <4>2
    <3> QED BY <3>2
  <2>3. Good(n + 1, h)
    <3>1. h[0] = d0
      BY <2>1
    <3>2. ASSUME NEW k \in 1..(n + 1) PROVE h[k] = g[h[k - 1]]
      <4>1. CASE k = n + 1
        <5>1. h[k] = g[f[n]] /\ h[k - 1] = f[n]
          BY <4>1
        <5> QED BY <5>1
      <4>2. CASE k # n + 1
        <5>1. k \in 1..n /\ k - 1 \in 0..n /\ k - 1 # n + 1
          BY <4>2
        <5>2. h[k] = f[k] /\ h[k - 1] = f[k - 1]
          BY <4>2, <5>1
        <5> QED BY <2>1, <5>1, <5>2
      <4> QED BY <4>1, <4>2
    <3> QED BY <3>1, <3>2
  <2> HIDE DEF h, Good
  <2>4. n + 1 \in 0..N
    OBVIOUS
  <2> QED BY <2>2, <2>3, <2>4
<1>3. P = 0..N
  <2>1. P \in SUBSET (0..N)
    OBVIOUS
  <2> HIDE DEF P
  <2> QED BY <1>1, <1>2, <2>1, Induction
<1>4. PICK f \in [0..N -> D] : Good(N, f)
  BY <1>3
<1> QED BY <1>4 DEF Iterates

\* X holds d0 and rests under the step g, and is the least set that g does not leave.
IsLeastRest(S, g, d0, X) ==
  /\ X \in SUBSET S /\ d0 \subseteq X /\ g[X] = X
  /\ \A T \in SUBSET S :
       d0 \subseteq T /\ (\A Y \in SUBSET T : g[Y] \subseteq T) => X \subseteq T

\* An extensive step on the subsets of S, iterated as often as S has elements, has
\* come to rest, and on no more than any set the step does not leave.
LEMMA IterRests ==
  ASSUME NEW S, IsFiniteSet(S), NEW g \in [SUBSET S -> SUBSET S], NEW d0 \in SUBSET S,
         \A X \in SUBSET S : X \subseteq g[X],
         NEW f, Iterates(f, g, d0, Cardinality(S))
  PROVE  IsLeastRest(S, g, d0, f[Cardinality(S)])
<1> DEFINE N == Cardinality(S)
<1>0. N \in Nat
  BY FS_CardinalityType
<1>start. f[0] = d0 /\ \A n \in 1..N : f[n - 1] \in SUBSET S => f[n] = g[f[n - 1]]
  BY DEF Iterates
<1> HIDE DEF N
<1> DEFINE P == {n \in 0..N : f[n] \in SUBSET S /\ d0 \subseteq f[n]}
<1>1. P = 0..N
  <2>1. P \in SUBSET (0..N) /\ 0 \in P
    BY <1>0, <1>start
  <2>2. ASSUME NEW n \in 0..(N - 1), n \in P PROVE n + 1 \in P
    <3>1. n + 1 \in 1..N /\ (n + 1) - 1 = n /\ n + 1 \in 0..N
      BY <1>0
    <3>2. f[n] \in SUBSET S /\ d0 \subseteq f[n]
      BY <2>2
    <3>3. f[n + 1] = g[f[n]]
      BY <1>start, <3>1, <3>2
    <3>4. g[f[n]] \in SUBSET S /\ f[n] \subseteq g[f[n]]
      BY <3>2
    <3> QED BY <3>1, <3>2, <3>3, <3>4
  <2> HIDE DEF P
  <2> QED BY <1>0, <2>1, <2>2, Induction
<1>2. ASSUME NEW n \in 0..(N - 1)
      PROVE  f[n] \in SUBSET S /\ f[n + 1] = g[f[n]] /\ f[n] \subseteq f[n + 1]
  <2>1. n + 1 \in 1..N /\ (n + 1) - 1 = n /\ n \in P
    BY <1>0, <1>1
  <2>2. f[n] \in SUBSET S
    BY <2>1
  <2>3. f[n + 1] = g[f[n]]
    BY <1>start, <2>1, <2>2
  <2> QED BY <2>2, <2>3
<1> DEFINE Q == {n \in 0..N : g[f[n]] = f[n] \/ Cardinality(f[n]) >= n}
<1>3. \A n \in 0..N : f[n] \in SUBSET S /\ IsFiniteSet(f[n]) /\ Cardinality(f[n]) \in Nat
  <2> TAKE n \in 0..N
  <2>1. f[n] \in SUBSET S
    BY <1>1
  <2>2. IsFiniteSet(f[n])
    BY <2>1, FS_Subset
  <2> QED BY <2>1, <2>2, FS_CardinalityType
<1>4. Q = 0..N
  <2>1. Q \in SUBSET (0..N) /\ 0 \in Q
    BY <1>0, <1>3
  <2>2. ASSUME NEW n \in 0..(N - 1), n \in Q PROVE n + 1 \in Q
    <3>1. n + 1 \in 0..N /\ n \in 0..N /\ n \in Nat
      BY <1>0
    <3>2. CASE g[f[n]] = f[n]
      BY <1>2, <3>1, <3>2
    <3>3. CASE g[f[n]] # f[n]
      <4>1. Cardinality(f[n]) >= n
        BY <2>2, <3>3
      <4>2. f[n] \subseteq f[n + 1] /\ f[n] # f[n + 1]
        BY <1>2, <3>3
      <4>3. Cardinality(f[n]) <= Cardinality(f[n + 1]) /\ Cardinality(f[n]) # Cardinality(f[n + 1])
        BY <1>3, <3>1, <4>2, FS_Subset
      <4>4. Cardinality(f[n]) \in Nat /\ Cardinality(f[n + 1]) \in Nat
        BY <1>3, <3>1
      <4>5. Cardinality(f[n + 1]) >= n + 1
        BY <3>1, <4>1, <4>3, <4>4
      <4> QED BY <3>1, <4>5
    <3> QED BY <3>2, <3>3
  <2> HIDE DEF Q
  <2> QED BY <1>0, <2>1, <2>2, Induction
<1>5. f[N] \in SUBSET S /\ d0 \subseteq f[N] /\ N \in 0..N
  BY <1>0, <1>1
<1>6. g[f[N]] = f[N]
  <2>1. CASE Cardinality(f[N]) >= N
    <3>1. f[N] = S
      <4>1. Cardinality(f[N]) <= N
        BY <1>5, FS_Subset DEF N
      <4>2. Cardinality(f[N]) = N
        BY <1>0, <1>3, <1>5, <2>1, <4>1
      <4> QED BY <1>5, <4>2, FS_Subset DEF N
    <3> QED BY <1>5, <3>1
  <2> QED BY <1>4, <1>5, <2>1
<1>7. ASSUME NEW T \in SUBSET S, d0 \subseteq T, \A X \in SUBSET T : g[X] \subseteq T
      PROVE  f[N] \subseteq T
  <2> DEFINE R == {n \in 0..N : f[n] \subseteq T}
  <2>1. R \in SUBSET (0..N) /\ 0 \in R
    BY <1>0, <1>start, <1>7
  <2>2. ASSUME NEW n \in 0..(N - 1), n \in R PROVE n + 1 \in R
    <3>1. n + 1 \in 0..N
      BY <1>0
    <3>2. f[n + 1] = g[f[n]] /\ f[n] \in SUBSET T
      BY <1>2, <2>2
    <3>3. g[f[n]] \subseteq T
      BY <1>7, <3>2
    <3> QED BY <3>1, <3>2, <3>3
  <2>3. R = 0..N
    <3> HIDE DEF R
    <3> QED BY <1>0, <2>1, <2>2, Induction
  <2> QED BY <1>5, <2>3
<1> QED BY <1>5, <1>6, <1>7 DEF N, IsLeastRest

-----------------------------------------------------------------------------
\* What each phase leaves to the next.
StagesInv ==
  /\ IsModel(model)
  /\ phase \in {"graph", "scc", "schedule", "done", "failed"}
  /\ Node = Nodes(model)
  /\ phase = "graph" => TarjanOn(adj)
  /\ phase # "graph" => adj = Graph(model)
  /\ phase \in {"graph", "scc"} =>
       /\ freeNodes = <<>> /\ byTag = [t \in Tag |-> <<>>] /\ seq = <<>>
       /\ emitted = {} /\ topo = <<>> /\ lastTag = NoTag /\ step = "seed"
  /\ phase \in {"schedule", "done", "failed"} => TarjanDone /\ dag = Condensed
  /\ step = "done" => emitted = dag.comp

\* The items so far are those of the components before topoAt that give one, in order.
Placing(at) ==
  /\ \A p \in DOMAIN execOrder :
       /\ at[p] \in 1..(topoAt - 1)
       /\ ~EmitsNothing(topo[at[p]]) /\ execOrder[p] = ItemOf(topo[at[p]])
  /\ \A p, q \in DOMAIN execOrder : p < q => at[p] < at[q]
  /\ \A k \in 1..(topoAt - 1) :
       ~EmitsNothing(topo[k]) => \E p \in DOMAIN execOrder : at[p] = k

ItemsInv ==
  /\ DOMAIN execOrder = 1..Len(execOrder) /\ Len(execOrder) \in Nat
  /\ topoAt \in 1..(Len(topo) + 1)
  /\ step # "done" => execOrder = <<>> /\ topoAt = 1
  /\ phase = "done" => step = "done" /\ topoAt = Len(topo) + 1
  /\ \A k \in 1..(topoAt - 1) : ~Refused(topo[k])
  /\ phase = "failed" => step = "done" /\ topoAt <= Len(topo) /\ Refused(topo[topoAt])
  /\ \E at : Placing(at)

GraphInv == TarjanInv /\ PathInv
BuildInv == GraphInv /\ SchedInv /\ StagesInv /\ ItemsInv

-----------------------------------------------------------------------------
\* Ascending(S) lists S, each element once, going up.
LEMMA AscendingLists ==
  ASSUME NEW S \in SUBSET Int, IsFiniteSet(S)
  PROVE  /\ Cardinality(S) \in Nat /\ DOMAIN Ascending(S) = 1..Cardinality(S)
         /\ \A k \in DOMAIN Ascending(S) :
              /\ Ascending(S)[k] \in S
              /\ Cardinality({y \in S : y < Ascending(S)[k]}) = k - 1
         /\ \A j, k \in DOMAIN Ascending(S) : j < k => Ascending(S)[j] < Ascending(S)[k]
         /\ \A x \in S : \E k \in DOMAIN Ascending(S) : Ascending(S)[k] = x
         /\ \A j, k \in DOMAIN Ascending(S) : Ascending(S)[j] = Ascending(S)[k] => j = k
<1> DEFINE n == Cardinality(S)
<1> DEFINE Under(x) == {y \in S : y < x}
<1> DEFINE r == [x \in S |-> Cardinality(Under(x))]
<1>1. n \in Nat
  BY FS_CardinalityType
<1>2. ASSUME NEW x \in S PROVE r[x] \in 0..(n - 1) /\ IsFiniteSet(Under(x))
  <2>1. Under(x) \in SUBSET S /\ Under(x) # S
    OBVIOUS
  <2>2. IsFiniteSet(Under(x)) /\ Cardinality(Under(x)) <= n /\ Cardinality(Under(x)) # n
    BY <2>1, FS_Subset
  <2>3. Cardinality(Under(x)) \in Nat
    BY <2>2, FS_CardinalityType
  <2> HIDE DEF Under, n
  <2> QED BY <1>1, <2>2, <2>3
<1>3. ASSUME NEW x \in S, NEW y \in S, x < y PROVE r[x] # r[y]
  <2>1. Under(x) \in SUBSET Under(y) /\ x \in Under(y) /\ x \notin Under(x)
    <3>1. x \in Int /\ y \in Int /\ \A z \in S : z \in Int
      OBVIOUS
    <3>2. ASSUME NEW z \in S, z < x PROVE z < y
      BY <1>3, <3>1, <3>2
    <3>3. \A z \in Under(x) : z \in Under(y)
      BY <3>2
    <3>4. x \in Under(y) /\ x \notin Under(x)
      BY <1>3, <3>1
    <3> HIDE DEF Under
    <3> QED BY <3>3, <3>4
  <2>2. IsFiniteSet(Under(y))
    BY <1>2
  <2> HIDE DEF Under
  <2>3. Cardinality(Under(y)) # Cardinality(Under(x))
    BY <2>1, <2>2, FS_Subset
  <2> QED BY <2>3
<1>4. \A x, y \in S : r[x] = r[y] => x = y
  <2> TAKE x, y \in S
  <2> HAVE r[x] = r[y]
  <2>1. x \in Int /\ y \in Int
    OBVIOUS
  <2>2. ~(x < y) /\ ~(y < x)
    BY <1>3
  <2> QED BY <2>1, <2>2
<1>5. \A k \in 0..(n - 1) : \E x \in S : r[x] = k
  <2>1. IsFiniteSet(0..(n - 1)) /\ Cardinality(0..(n - 1)) = n
    <3>1. 0 \in Int /\ n - 1 \in Int
      BY <1>1
    <3>2. /\ IsFiniteSet(0..(n - 1))
          /\ Cardinality(0..(n - 1)) = IF 0 > n - 1 THEN 0 ELSE (n - 1) - 0 + 1
      BY <3>1, FS_Interval
    <3> HIDE DEF n
    <3> QED BY <1>1, <3>2
  <2>2. r \in [S -> 0..(n - 1)]
    BY <1>2
  <2> HIDE DEF r
  <2>3. r \in Injection(S, 0..(n - 1))
    BY <1>4, <2>2 DEF Injection, IsInjective
  <2>4. r \in Surjection(S, 0..(n - 1))
    BY <2>1, <2>3, FS_Injection
  <2> QED BY <2>4 DEF Surjection
<1> DEFINE A == Ascending(S)
<1>6. DOMAIN A = 1..n
  BY DEF Ascending
<1>7. ASSUME NEW k \in 1..n
      PROVE  /\ A[k] \in S /\ r[A[k]] = k - 1
             /\ Cardinality({y \in S : y < A[k]}) = k - 1
  <2>1. A[k] = CHOOSE x \in S : Cardinality({y \in S : y < x}) = k - 1
    BY <1>7 DEF Ascending
  <2>2. k - 1 \in 0..(n - 1)
    BY <1>1
  <2>3. \E x \in S : r[x] = k - 1
    BY <1>5, <2>2
  <2>4. \E x \in S : Cardinality({y \in S : y < x}) = k - 1
    BY <2>3
  <2>5. A[k] \in S /\ Cardinality({y \in S : y < A[k]}) = k - 1
    BY <2>1, <2>4
  <2> QED BY <2>5
<1>8. ASSUME NEW x \in S PROVE \E k \in 1..n : A[k] = x
  <2>1. r[x] + 1 \in 1..n /\ (r[x] + 1) - 1 = r[x]
    <3>1. r[x] \in 0..(n - 1)
      BY <1>2
    <3> HIDE DEF n, r
    <3> QED BY <1>1, <3>1
  <2>2. A[r[x] + 1] \in S /\ r[A[r[x] + 1]] = r[x]
    BY <1>7, <2>1
  <2>3. A[r[x] + 1] = x
    BY <1>4, <2>2
  <2> QED BY <2>1, <2>3
<1>9. \A j, k \in 1..n : A[j] = A[k] => j = k
  <2> TAKE j, k \in 1..n
  <2> HAVE A[j] = A[k]
  <2>1. r[A[j]] = j - 1 /\ r[A[k]] = k - 1
    BY <1>7
  <2> HIDE DEF r, A, n
  <2>2. j - 1 = k - 1
    BY <2>1
  <2> QED BY <1>1, <2>2
<1>10. ASSUME NEW j \in 1..n, NEW k \in 1..n, j < k PROVE A[j] < A[k]
  <2> SUFFICES ASSUME ~(A[j] < A[k]) PROVE FALSE
    OBVIOUS
  <2>1. /\ A[j] \in S /\ A[j] \in Int /\ r[A[j]] = j - 1
        /\ A[k] \in S /\ A[k] \in Int /\ r[A[k]] = k - 1
    <3> HIDE DEF n, A, r
    <3>1. A[j] \in S /\ r[A[j]] = j - 1 /\ A[k] \in S /\ r[A[k]] = k - 1
      BY <1>7
    <3> QED BY <3>1
  <2>2. Under(A[k]) \in SUBSET Under(A[j])
    <3>1. \A z \in S : z \in Int
      OBVIOUS
    <3> HIDE DEF n, A, r
    <3>2. \A z \in S : z < A[k] => z < A[j]
      BY <2>1, <3>1
    <3> QED BY <3>2
  <2>3. Cardinality(Under(A[k])) <= Cardinality(Under(A[j]))
    <3>1. IsFiniteSet(Under(A[j]))
      BY <1>2, <2>1
    <3> HIDE DEF Under, A
    <3> QED BY <2>2, <3>1, FS_Subset
  <2>4. r[A[k]] = Cardinality(Under(A[k])) /\ r[A[j]] = Cardinality(Under(A[j]))
    <3> HIDE DEF A, Under
    <3> QED BY <2>1
  <2> HIDE DEF r, A, n, Under
  <2>5. k - 1 <= j - 1
    BY <2>1, <2>3, <2>4
  <2> QED BY <1>1, <1>10, <2>5
<1> HIDE DEF n, A, r
<1> QED BY <1>1, <1>6, <1>7, <1>8, <1>9, <1>10 DEF n, A

\* The evaluation graph is one, over the entities and the actions.
LEMMA GraphIsOne ==
  ASSUME NEW m, IsModel(m)
  PROVE  /\ IsGraph(Graph(m)) /\ DOMAIN Graph(m) = Nodes(m)
         /\ Nodes(m) \subseteq Nat /\ IsFiniteSet(Nodes(m))
         /\ \A v \in Nodes(m) : IsEntity(v) \/ v \in Acts(m)
         /\ \A a \in Acts(m) : a \in Nodes(m) /\ ~IsEntity(a)
<1>1. /\ E \in Nat /\ Cardinality(Acts(m)) \in Nat
      /\ Acts(m) = (E + 1)..(E + Cardinality(Acts(m)))
      /\ m.canon \in [1..E -> 1..E] /\ \A a \in Acts(m) : m.act[a].target \in 1..E
  BY EntityAssumption, FS_CardinalityType DEF IsModel
<1>2. Nodes(m) = 1..(E + Cardinality(Acts(m)))
  BY DEF Nodes
<1> DEFINE c == Cardinality(Acts(m))
<1> HIDE DEF c
<1>3. c \in Nat /\ Nodes(m) = 1..(E + c) /\ Acts(m) = (E + 1)..(E + c)
  BY <1>1, <1>2 DEF c
<1>4. \A a \in Acts(m) : a \in Nodes(m) /\ ~IsEntity(a)
  BY <1>1, <1>3 DEF IsEntity
<1>5. \A v \in Nodes(m) : IsEntity(v) \/ v \in Acts(m)
  BY <1>1, <1>3 DEF IsEntity
<1>6. 1..E \subseteq Nodes(m) /\ Nodes(m) \subseteq Nat
  BY <1>1, <1>3
<1>7. \A v \in Nodes(m) : LeadsTo(m, v) \subseteq Nodes(m)
  BY <1>1, <1>4, <1>5, <1>6 DEF LeadsTo
<1>8. IsGraph(Graph(m)) /\ DOMAIN Graph(m) = Nodes(m)
  BY <1>7 DEF IsGraph, Graph
<1>9. IsFiniteSet(Nodes(m))
  <2>1. 1 \in Int /\ E + c \in Int
    BY <1>1, <1>3
  <2> QED BY <1>3, <2>1, FS_Interval
<1> QED BY <1>4, <1>5, <1>6, <1>8, <1>9

\* Components are non-empty, finite, disjoint sets of entities and actions.
LEMMA CompFacts ==
  ASSUME GraphInv, StagesInv
  PROVE  /\ Len(comps) \in Nat /\ DOMAIN comps = 1..Len(comps)
         /\ \A c \in DOMAIN comps :
              /\ comps[c] \subseteq Nodes(model) /\ IsFiniteSet(comps[c])
              /\ Only(c) \in comps[c]
              /\ ~NonTrivial(c) => \A v \in comps[c] : v = Only(c)
         /\ \A b, c \in DOMAIN comps : comps[b] \cap comps[c] # {} => b = c
<1>1. TarjanTypes /\ ClosedInv /\ Node = Nodes(model) /\ IsModel(model)
  BY DEF GraphInv, TarjanInv, StagesInv
<1>2. Len(comps) \in Nat /\ DOMAIN comps = 1..Len(comps)
  BY <1>1, TarjanFacts
<1>3. \A b, c \in DOMAIN comps : comps[b] \cap comps[c] # {} => b = c
  BY <1>1 DEF ClosedInv
<1>4. ASSUME NEW c \in DOMAIN comps
      PROVE  /\ comps[c] \subseteq Nodes(model) /\ IsFiniteSet(comps[c])
             /\ Only(c) \in comps[c]
             /\ ~NonTrivial(c) => \A v \in comps[c] : v = Only(c)
  <2>1. comps[c] \in SUBSET Nodes(model)
    BY <1>1, Element DEF TarjanTypes
  <2>2. IsFiniteSet(comps[c])
    BY <1>1, <2>1, GraphIsOne, FS_Subset
  <2>3. comps[c] # {} /\ Only(c) \in comps[c]
    BY <1>1 DEF ClosedInv, Only
  <2>4. ASSUME ~NonTrivial(c), NEW v \in comps[c] PROVE v = Only(c)
    <3>1. ~(Cardinality(comps[c]) > 1)
      BY <2>4 DEF NonTrivial
    <3>2. Cardinality(comps[c]) \in Nat /\ Cardinality(comps[c]) # 0
      BY <2>2, <2>3, FS_CardinalityType, FS_EmptySet
    <3>3. Cardinality(comps[c]) = 1
      BY <3>1, <3>2
    <3>4. PICK x : comps[c] = {x}
      BY <2>2, <3>3, FS_Singleton
    <3> QED BY <2>3, <3>4
  <2> QED BY <2>1, <2>2, <2>3, <2>4
<1> QED BY <1>2, <1>3, <1>4

\* What the scheduler starts from is a condensation.
LEMMA CondensedIsOne ==
  ASSUME GraphInv, StagesInv
  PROVE  IsCondensation(Condensed)
<1>1. /\ Len(comps) \in Nat /\ DOMAIN comps = 1..Len(comps)
      /\ \A c \in DOMAIN comps : Only(c) \in comps[c] /\ comps[c] \subseteq Nodes(model)
      /\ \A b, c \in DOMAIN comps : comps[b] \cap comps[c] # {} => b = c
  BY CompFacts
<1>2. SinksClosedFirst /\ IsModel(model)
  BY DEF GraphInv, TarjanInv, StagesInv
<1>3. IsFiniteSet(DOMAIN comps) /\ DOMAIN comps = 1..Cardinality(DOMAIN comps)
  <2>1. /\ IsFiniteSet(1..Len(comps))
        /\ Cardinality(1..Len(comps)) = IF 1 > Len(comps) THEN 0 ELSE Len(comps) - 1 + 1
    BY <1>1, FS_Interval
  <2>2. Cardinality(1..Len(comps)) = Len(comps)
    BY <1>1, <2>1
  <2> QED BY <1>1, <2>1, <2>2
<1>4. ASSUME NEW c \in DOMAIN comps, NEW d \in DOMAIN comps \ {c},
             NEW v \in comps[c], adj[v] \cap comps[d] # {}
      PROVE  d < c
  <2>1. PICK w \in adj[v] : w \in comps[d]
    BY <1>4
  <2>2. PICK j \in 1..c : w \in comps[j]
    BY <1>2, <2>1 DEF SinksClosedFirst
  <2>3. j \in DOMAIN comps
    BY <1>1
  <2>4. j = d
    BY <1>1, <2>1, <2>2, <2>3
  <2> QED BY <1>1, <2>4
<1>5. ASSUME NEW c \in DOMAIN comps
      PROVE  (IF NonTrivial(c) \/ IsEntity(Only(c)) THEN NoTag ELSE model.act[Only(c)].tag)
               \in Tag \cup {NoTag}
  <2>1. CASE ~IsEntity(Only(c))
    <3>1. Only(c) \in Acts(model)
      BY <1>1, <1>2, <2>1, GraphIsOne
    <3>2. model.act[Only(c)].tag \in Tag
      BY <1>2, <3>1 DEF IsModel
    <3> QED BY <3>2
  <2>2. CASE IsEntity(Only(c))
    BY <2>2
  <2> QED BY <2>1, <2>2
<1>6. /\ Condensed.comp = DOMAIN comps
      /\ Condensed.succ = [c \in DOMAIN comps |->
           {d \in DOMAIN comps \ {c} : \E v \in comps[c] : adj[v] \cap comps[d] # {}}]
      /\ Condensed.free = {c \in DOMAIN comps : EmitsNothing(c)}
      /\ Condensed.tag = [c \in DOMAIN comps |->
           IF NonTrivial(c) \/ IsEntity(Only(c)) THEN NoTag ELSE model.act[Only(c)].tag]
  BY DEF Condensed
<1>7. Condensed.succ \in [DOMAIN comps -> SUBSET DOMAIN comps]
  BY <1>6
<1>8. Condensed.tag \in [DOMAIN comps -> Tag \cup {NoTag}]
  BY <1>5, <1>6
<1>9. \A c \in DOMAIN comps : \A d \in Condensed.succ[c] : d < c
  BY <1>4, <1>6
<1>10. Condensed.free \subseteq DOMAIN comps
  BY <1>6
<1> QED BY <1>3, <1>6, <1>7, <1>8, <1>9, <1>10 DEF IsCondensation

-----------------------------------------------------------------------------
\* Whatever step leads there, a fresh start of either part has its invariant.
LEMMA TarjanAfresh == (IsGraph(adj) /\ TarjanOn(adj))' => GraphInv'
<1>1. IsGraph(adj) /\ TarjanOn(adj) => GraphInv
  BY TarjanInit, PathsInit DEF GraphInv
<1> QED BY <1>1, PTL

LEMMA SchedulerAfresh == (IsCondensation(dag) /\ StartOn(dag))' => SchedInv'
<1>1. IsCondensation(dag) /\ StartOn(dag) => SchedInv
  BY StartInv
<1> QED BY <1>1, PTL

LEMMA SameComps ==
  ASSUME adj' = adj, comps' = comps, model' = model
  PROVE  /\ \A c : (EmitsNothing(c)' <=> EmitsNothing(c)) /\ ItemOf(c)' = ItemOf(c)
                   /\ (Refused(c)' <=> Refused(c))
         /\ Condensed' = Condensed
<1>1. \A c : /\ Only(c)' = Only(c) /\ Signals(c)' = Signals(c)
             /\ NonTrivial(c)' <=> NonTrivial(c)
  BY DEF Only, NonTrivial, Signals
<1>2. \A c : (EmitsNothing(c)' <=> EmitsNothing(c)) /\ ItemOf(c)' = ItemOf(c)
               /\ (Refused(c)' <=> Refused(c))
  BY <1>1 DEF EmitsNothing, ItemOf, Refused
<1>3. Condensed' = Condensed
  BY <1>1, <1>2 DEF Condensed
<1> QED BY <1>2, <1>3

LEMMA NothingPlaced ==
  ASSUME execOrder = <<>>, topoAt = 1
  PROVE  DOMAIN execOrder = {} /\ \A at : Placing(at)
BY DEF Placing

LEMMA NothingIsADag == IsCondensation(NoDag)
<1>1. 1..Cardinality({}) = {}
  BY FS_EmptySet
<1> QED BY <1>1, FS_EmptySet DEF NoDag, IsCondensation

LEMMA OrderStart ==
  ASSUME IsModel(model), phase = "graph", OrderOn(model)
  PROVE  BuildInv
<1> DEFINE bare == [v \in Nodes(model) |-> {}]
<1>1. TarjanOn(bare) /\ StartOn(NoDag) /\ execOrder = <<>> /\ topoAt = 1
  BY DEF OrderOn
<1>2. IsGraph(bare)
  BY DEF IsGraph
<1>3. GraphInv
  <2> HIDE DEF bare
  <2> QED BY <1>1, <1>2, TarjanInit, PathsInit DEF GraphInv
<1>4. TarjanOn(adj) /\ Node = Nodes(model)
  BY <1>1 DEF TarjanOn, Node
<1>5. dag = NoDag /\ IsCondensation(NoDag)
  BY <1>1, NothingIsADag DEF StartOn
<1>6. SchedInv
  BY <1>1, <1>5, StartInv
<1>7. StagesInv
  BY <1>1, <1>4 DEF StagesInv, StartOn
<1>8. ItemsInv
  BY <1>1, NothingPlaced DEF ItemsInv, StartOn
<1> QED BY <1>3, <1>6, <1>7, <1>8 DEF BuildInv

LEMMA BuildGraphStep ==
  ASSUME BuildInv, BuildGraph
  PROVE  BuildInv'
<1>1. GraphInv /\ SchedInv /\ StagesInv /\ ItemsInv /\ TarjanOn(adj) /\ IsModel(model)
  BY DEF BuildInv, StagesInv, BuildGraph
<1>2. /\ phase' = "scc" /\ adj' = Graph(model) /\ UNCHANGED svars
      /\ index' = index /\ low' = low /\ onStack' = onStack /\ stack' = stack
      /\ calls' = calls /\ comps' = comps /\ nextIndex' = nextIndex
      /\ model' = model /\ execOrder' = execOrder /\ topoAt' = topoAt /\ phase = "graph"
  BY DEF BuildGraph
<1>3. Node' = Node /\ Node = Nodes(model) /\ IsGraph(adj)'
  BY <1>1, <1>2, GraphIsOne DEF StagesInv, Node
<1>4. TarjanOn(adj)'
  BY <1>1, <1>2, <1>3 DEF TarjanOn
<1>5. GraphInv'
  BY <1>3, <1>4, TarjanAfresh
<1>6. SchedInv'
  BY <1>1, <1>2, StepInv
<1>7. /\ dag' = dag /\ emitted' = emitted /\ topo' = topo /\ step' = step /\ lastTag' = lastTag
      /\ freeNodes' = freeNodes /\ byTag' = byTag /\ seq' = seq
  BY <1>2 DEF svars, queues
<1>8. StagesInv'
  BY <1>1, <1>2, <1>3, <1>7 DEF StagesInv, Nodes, Acts
<1>9. execOrder = <<>> /\ topoAt = 1
  BY <1>1, <1>2 DEF StagesInv, ItemsInv
<1>10. ItemsInv'
  BY <1>1, <1>2, <1>7, <1>9 DEF ItemsInv, Placing
<1> QED BY <1>5, <1>6, <1>8, <1>10 DEF BuildInv

LEMMA RunTarjanStep ==
  ASSUME BuildInv, RunTarjan
  PROVE  BuildInv'
<1>1. GraphInv /\ SchedInv /\ StagesInv /\ ItemsInv
  BY DEF BuildInv
<1>2. /\ phase = "scc" /\ TarjanStep /\ UNCHANGED svars
      /\ phase' = phase /\ model' = model /\ execOrder' = execOrder /\ topoAt' = topoAt
  BY DEF RunTarjan, ovars
<1>3. adj' = adj
  BY <1>2 DEF TarjanStep, VisitRoot, FollowEdge, LookBack, Leave, Enter
<1>4. GraphInv'
  BY <1>1, <1>2, TarjanKeeps, PathsKeep DEF GraphInv
<1>5. SchedInv'
  BY <1>1, <1>2, StepInv
<1>6. /\ dag' = dag /\ emitted' = emitted /\ topo' = topo /\ step' = step /\ lastTag' = lastTag
      /\ freeNodes' = freeNodes /\ byTag' = byTag /\ seq' = seq
  BY <1>2 DEF svars, queues
<1>7. StagesInv'
  BY <1>1, <1>2, <1>3, <1>6 DEF StagesInv, Nodes, Acts, Node
<1>8. execOrder = <<>> /\ topoAt = 1
  BY <1>1, <1>2 DEF StagesInv, ItemsInv
<1>9. ItemsInv'
  BY <1>1, <1>2, <1>6, <1>8 DEF ItemsInv, Placing
<1> QED BY <1>4, <1>5, <1>7, <1>9 DEF BuildInv

LEMMA CondenseStep ==
  ASSUME BuildInv, Condense
  PROVE  BuildInv'
<1>1. GraphInv /\ SchedInv /\ StagesInv /\ ItemsInv
  BY DEF BuildInv
<1>2. /\ phase = "scc" /\ TarjanDone /\ phase' = "schedule" /\ dag' = Condensed
      /\ indeg' = Degree(Condensed)
      /\ todo' = {c \in DOMAIN comps : Degree(Condensed)[c] = 0}
      /\ UNCHANGED <<tvars, queues, emitted, topo, lastTag, step, model, execOrder, topoAt>>
  BY DEF Condense
<1>3. /\ UNCHANGED tvars /\ adj' = adj /\ comps' = comps /\ calls' = calls /\ index' = index
      /\ model' = model /\ execOrder' = execOrder /\ topoAt' = topoAt
      /\ emitted' = emitted /\ topo' = topo /\ lastTag' = lastTag /\ step' = step
      /\ freeNodes' = freeNodes /\ byTag' = byTag /\ seq' = seq
  BY <1>2 DEF tvars, queues
<1>4. /\ freeNodes = <<>> /\ byTag = [t \in Tag |-> <<>>] /\ seq = <<>>
      /\ emitted = {} /\ topo = <<>> /\ lastTag = NoTag /\ step = "seed"
  BY <1>1, <1>2 DEF StagesInv
<1>5. GraphInv'
  BY <1>1, <1>3, TarjanKeeps, PathsKeep DEF GraphInv
<1>6. IsCondensation(dag)'
  BY <1>1, <1>2, CondensedIsOne
<1>7. StartOn(dag)'
  <2>1. Condensed.comp = DOMAIN comps
    BY DEF Condensed
  <2> QED BY <1>2, <1>3, <1>4, <2>1 DEF StartOn
<1>8. SchedInv'
  BY <1>6, <1>7, SchedulerAfresh
<1>9. Condensed' = Condensed
  BY <1>3, SameComps
<1>10. StagesInv'
  BY <1>1, <1>2, <1>3, <1>4, <1>9 DEF StagesInv, TarjanDone, Nodes, Acts, Node
<1>11. execOrder = <<>> /\ topoAt = 1
  BY <1>1, <1>4 DEF ItemsInv
<1>12. ItemsInv'
  BY <1>1, <1>2, <1>3, <1>4, <1>11 DEF ItemsInv, Placing
<1> QED BY <1>5, <1>8, <1>10, <1>12 DEF BuildInv

LEMMA RunSchedulerStep ==
  ASSUME BuildInv, RunScheduler
  PROVE  BuildInv'
<1>1. GraphInv /\ SchedInv /\ StagesInv /\ ItemsInv
  BY DEF BuildInv
<1>2. /\ phase = "schedule" /\ Schedule /\ UNCHANGED tvars /\ phase' = phase
      /\ adj' = adj /\ comps' = comps /\ calls' = calls /\ index' = index
      /\ model' = model /\ execOrder' = execOrder /\ topoAt' = topoAt
  BY DEF RunScheduler, ovars, tvars
<1>3. GraphInv'
  BY <1>1, <1>2, TarjanKeeps, PathsKeep DEF GraphInv
<1>4. SchedInv' /\ dag' = dag
  BY <1>1, <1>2, StepInv, EmissionStep
<1>5. step # "done" /\ (step' = "done" => emitted' = dag'.comp)
  BY <1>2 DEF Schedule, Seed, Unblock, DrainFree, SkipSameType, TakeSameType, SkipOldest,
              TakeOldest, FallBack, EndLoop, Picking
<1>6. Condensed' = Condensed
  BY <1>2, SameComps
<1>7. StagesInv'
  BY <1>1, <1>2, <1>4, <1>5, <1>6 DEF StagesInv, TarjanDone, Nodes, Acts, Node
<1>8. execOrder = <<>> /\ topoAt = 1
  BY <1>1, <1>5 DEF ItemsInv
<1>9. Len(topo') \in Nat
  <2>1. topo' \in Seq(dag'.comp)
    BY <1>4 DEF SchedInv, SchedTypeOK, SeqOfComps
  <2> QED BY <2>1
<1>10. topoAt' \in 1..(Len(topo') + 1)
  BY <1>2, <1>8, <1>9
<1>11. ItemsInv'
  BY <1>1, <1>2, <1>8, <1>10 DEF ItemsInv, Placing
<1> QED BY <1>3, <1>4, <1>7, <1>11 DEF BuildInv

LEMMA BuildItemStep ==
  ASSUME BuildInv, BuildItem
  PROVE  BuildInv'
<1>1. GraphInv /\ SchedInv /\ StagesInv /\ ItemsInv
  BY DEF BuildInv
<1>2. /\ phase = "schedule" /\ step = "done" /\ topoAt <= Len(topo)
      /\ UNCHANGED tvars /\ UNCHANGED svars /\ model' = model
      /\ phase' \in {"schedule", "failed"}
  BY <1>1 DEF BuildItem
<1>3. /\ adj' = adj /\ comps' = comps /\ calls' = calls /\ index' = index
      /\ dag' = dag /\ emitted' = emitted /\ topo' = topo /\ step' = step
  BY <1>2 DEF tvars, svars
<1>4. GraphInv'
  BY <1>1, <1>2, TarjanKeeps, PathsKeep DEF GraphInv
<1>5. SchedInv'
  BY <1>1, <1>2, StepInv
<1>6. /\ Condensed' = Condensed
      /\ \A c : (EmitsNothing(c)' <=> EmitsNothing(c)) /\ ItemOf(c)' = ItemOf(c)
               /\ (Refused(c)' <=> Refused(c))
  BY <1>2, <1>3, SameComps
<1>7. StagesInv'
  BY <1>1, <1>2, <1>3, <1>6 DEF StagesInv, TarjanDone, Nodes, Acts, Node
<1>8. PICK at : Placing(at)
  BY <1>1 DEF ItemsInv
<1>9. /\ DOMAIN execOrder = 1..Len(execOrder) /\ Len(execOrder) \in Nat
      /\ topoAt \in 1..(Len(topo) + 1) /\ topoAt \in Nat /\ Len(topo) \in Nat
  <2>1. topo \in Seq(dag.comp)
    BY <1>1 DEF SchedInv, SchedTypeOK, SeqOfComps
  <2> QED BY <1>1, <2>1 DEF ItemsInv
<1>10. CASE Refused(topo[topoAt])
  <2>1. execOrder' = execOrder /\ topoAt' = topoAt /\ phase' = "failed"
    BY <1>10 DEF BuildItem
  <2>2. Placing(at)'
    BY <1>3, <1>6, <1>8, <2>1 DEF Placing
  <2>3. ItemsInv'
    BY <1>1, <1>2, <1>3, <1>6, <1>10, <2>1, <2>2 DEF ItemsInv
  <2> QED BY <1>4, <1>5, <1>7, <2>3 DEF BuildInv
<1>11. CASE ~Refused(topo[topoAt]) /\ EmitsNothing(topo[topoAt])
  <2>1. execOrder' = execOrder /\ topoAt' = topoAt + 1 /\ phase' = phase
    BY <1>11 DEF BuildItem
  <2>2. Placing(at)'
    <3>1. \A k \in 1..(topoAt' - 1) : k \in 1..(topoAt - 1) \/ k = topoAt
      BY <1>9, <2>1
    <3>2. \A k \in 1..(topoAt - 1) : k \in 1..(topoAt' - 1)
      BY <1>9, <2>1
    <3> QED BY <1>3, <1>6, <1>8, <1>11, <2>1, <3>1, <3>2 DEF Placing
  <2>3. (\A k \in 1..(topoAt - 1) : ~Refused(topo[k]))'
    BY <1>1, <1>3, <1>6, <1>9, <1>11, <2>1 DEF ItemsInv
  <2>4. topoAt' \in 1..(Len(topo') + 1)
    BY <1>2, <1>3, <1>9, <2>1
  <2>5. ItemsInv'
    BY <1>1, <1>2, <1>3, <2>1, <2>2, <2>3, <2>4 DEF ItemsInv
  <2> QED BY <1>4, <1>5, <1>7, <2>5 DEF BuildInv
<1>12. CASE ~Refused(topo[topoAt]) /\ ~EmitsNothing(topo[topoAt])
  <2> DEFINE n == Len(execOrder)
  <2>1. execOrder' = Append(execOrder, ItemOf(topo[topoAt])) /\ topoAt' = topoAt + 1
          /\ phase' = phase
    BY <1>12 DEF BuildItem
  <2>2. /\ DOMAIN execOrder' = 1..(n + 1) /\ Len(execOrder') = n + 1
        /\ \A p \in 1..n : execOrder'[p] = execOrder[p]
        /\ execOrder'[n + 1] = ItemOf(topo[topoAt])
    BY <1>9, <2>1
  <2>3. PICK at1 : at1[n + 1] = topoAt /\ \A p \in 1..n : at1[p] = at[p]
    <3> DEFINE f == [p \in 1..(n + 1) |-> IF p = n + 1 THEN topoAt ELSE at[p]]
    <3>1. f[n + 1] = topoAt /\ \A p \in 1..n : f[p] = at[p]
      BY <1>9
    <3> QED BY <3>1
  <2>4. \A p \in 1..n : /\ at[p] \in 1..(topoAt - 1) /\ ~EmitsNothing(topo[at[p]])
                        /\ execOrder[p] = ItemOf(topo[at[p]])
    BY <1>8, <1>9 DEF Placing
  <2> HIDE DEF n
  <2>5. n \in Nat /\ DOMAIN execOrder = 1..n
    BY <1>9 DEF n
  <2>6. ASSUME NEW p \in 1..(n + 1)
        PROVE  /\ at1[p] \in 1..topoAt
               /\ ~EmitsNothing(topo[at1[p]]) /\ execOrder'[p] = ItemOf(topo[at1[p]])
    <3>1. CASE p = n + 1
      BY <1>9, <1>12, <2>2, <2>3, <3>1
    <3>2. CASE p \in 1..n
      BY <1>9, <2>2, <2>3, <2>4, <3>2
    <3> QED BY <2>5, <3>1, <3>2
  <2>7. ASSUME NEW p \in 1..(n + 1), NEW q \in 1..(n + 1), p < q PROVE at1[p] < at1[q]
    <3>1. p \in 1..n /\ at1[p] = at[p] /\ at[p] < topoAt
      BY <1>9, <2>3, <2>4, <2>5, <2>7
    <3>2. CASE q = n + 1
      BY <2>3, <3>1, <3>2
    <3>3. CASE q \in 1..n
      BY <1>8, <2>3, <2>5, <2>7, <3>1, <3>3 DEF Placing
    <3> QED BY <2>5, <3>2, <3>3
  <2>8. ASSUME NEW k \in 1..topoAt, ~EmitsNothing(topo[k])
        PROVE  \E p \in 1..(n + 1) : at1[p] = k
    <3>1. CASE k = topoAt
      BY <2>3, <2>5, <3>1
    <3>2. CASE k \in 1..(topoAt - 1)
      <4>1. PICK p \in 1..n : at[p] = k
        BY <1>8, <2>5, <2>8, <3>2 DEF Placing
      <4> QED BY <2>3, <2>5, <4>1
    <3> QED BY <1>9, <3>1, <3>2
  <2>9. topoAt' - 1 = topoAt
    BY <1>9, <2>1
  <2>10. Placing(at1)'
    BY <1>3, <1>6, <2>2, <2>6, <2>7, <2>8, <2>9 DEF Placing
  <2>11. ItemsInv'
    <3>1. topoAt' \in 1..(Len(topo') + 1)
      BY <1>2, <1>3, <1>9, <2>1
    <3>2. (\A k \in 1..(topoAt - 1) : ~Refused(topo[k]))'
      BY <1>1, <1>3, <1>6, <1>9, <1>12, <2>1 DEF ItemsInv
    <3> QED BY <1>2, <1>3, <2>1, <2>2, <2>5, <2>10, <3>1, <3>2 DEF ItemsInv
  <2> QED BY <1>4, <1>5, <1>7, <2>11 DEF BuildInv
<1> QED BY <1>10, <1>11, <1>12

LEMMA EndOrderStep ==
  ASSUME BuildInv, EndOrder
  PROVE  BuildInv'
<1>1. GraphInv /\ SchedInv /\ StagesInv /\ ItemsInv
  BY DEF BuildInv
<1>2. /\ phase = "schedule" /\ step = "done" /\ topoAt > Len(topo) /\ phase' = "done"
      /\ UNCHANGED tvars /\ UNCHANGED svars /\ model' = model /\ execOrder' = execOrder
      /\ topoAt' = topoAt
  BY DEF EndOrder
<1>3. /\ adj' = adj /\ comps' = comps /\ calls' = calls /\ index' = index
      /\ dag' = dag /\ emitted' = emitted /\ topo' = topo /\ step' = step
  BY <1>2 DEF tvars, svars
<1>4. GraphInv'
  BY <1>1, <1>2, TarjanKeeps, PathsKeep DEF GraphInv
<1>5. SchedInv'
  BY <1>1, <1>2, StepInv
<1>6. /\ Condensed' = Condensed
      /\ \A c : (EmitsNothing(c)' <=> EmitsNothing(c)) /\ ItemOf(c)' = ItemOf(c)
               /\ (Refused(c)' <=> Refused(c))
  BY <1>2, <1>3, SameComps
<1>7. StagesInv'
  BY <1>1, <1>2, <1>3, <1>6 DEF StagesInv, TarjanDone, Nodes, Acts, Node
<1>8. topoAt = Len(topo) + 1
  <2>1. topo \in Seq(dag.comp)
    BY <1>1 DEF SchedInv, SchedTypeOK, SeqOfComps
  <2> QED BY <1>1, <1>2, <2>1 DEF ItemsInv
<1>9. \A at : Placing(at)' <=> Placing(at)
  BY <1>2, <1>3, <1>6 DEF Placing
<1>10. ItemsInv'
  BY <1>1, <1>2, <1>3, <1>6, <1>8, <1>9 DEF ItemsInv
<1> QED BY <1>4, <1>5, <1>7, <1>10 DEF BuildInv

LEMMA BuildStutters ==
  ASSUME BuildInv, UNCHANGED xvars
  PROVE  BuildInv'
<1>1. GraphInv /\ SchedInv /\ StagesInv /\ ItemsInv
  BY DEF BuildInv
<1>2. /\ UNCHANGED tvars /\ UNCHANGED svars /\ model' = model /\ execOrder' = execOrder
      /\ topoAt' = topoAt /\ phase' = phase
  BY DEF xvars, ovars
<1>3. /\ adj' = adj /\ comps' = comps /\ calls' = calls /\ index' = index
      /\ low' = low /\ onStack' = onStack /\ stack' = stack /\ nextIndex' = nextIndex
      /\ dag' = dag /\ emitted' = emitted /\ topo' = topo /\ step' = step /\ lastTag' = lastTag
      /\ freeNodes' = freeNodes /\ byTag' = byTag /\ seq' = seq
  BY <1>2 DEF tvars, svars, queues
<1>4. GraphInv'
  BY <1>1, <1>2, TarjanKeeps, PathsKeep DEF GraphInv
<1>5. SchedInv'
  BY <1>1, <1>2, StepInv
<1>6. /\ Condensed' = Condensed
      /\ \A c : (EmitsNothing(c)' <=> EmitsNothing(c)) /\ ItemOf(c)' = ItemOf(c)
               /\ (Refused(c)' <=> Refused(c))
  BY <1>2, <1>3, SameComps
<1>7. StagesInv'
  BY <1>1, <1>2, <1>3, <1>6 DEF StagesInv, TarjanOn, TarjanDone, Nodes, Acts, Node
<1>8. \A at : Placing(at)' <=> Placing(at)
  BY <1>2, <1>3, <1>6 DEF Placing
<1>9. ItemsInv'
  BY <1>1, <1>2, <1>3, <1>6, <1>8 DEF ItemsInv
<1> QED BY <1>4, <1>5, <1>7, <1>9 DEF BuildInv

LEMMA BuildKeeps == BuildInv /\ [BuildExecOrder]_xvars => BuildInv'
BY BuildGraphStep, RunTarjanStep, CondenseStep, RunSchedulerStep, BuildItemStep,
   EndOrderStep, BuildStutters DEF BuildExecOrder

LEMMA BuildAlways == OrderSpec => []BuildInv
<1>1. IsModel(model) /\ phase = "graph" /\ OrderOn(model) => BuildInv
  BY OrderStart
<1> QED BY <1>1, BuildKeeps, PTL DEF OrderSpec

-----------------------------------------------------------------------------
\* Once the scheduler is done, topo lists every component once.
LEMMA Scheduled ==
  ASSUME BuildInv, step = "done"
  PROVE  /\ adj = Graph(model) /\ IsModel(model) /\ Closed = Nodes(model)
         /\ DOMAIN topo = 1..Len(topo) /\ Len(topo) \in Nat
         /\ \A k \in DOMAIN topo : topo[k] \in DOMAIN comps
         /\ \A c \in DOMAIN comps : \E k \in DOMAIN topo : topo[k] = c
         /\ \A j, k \in DOMAIN topo : topo[j] = topo[k] => j = k
<1>1. StagesInv /\ SchedInv /\ TarjanInv /\ PathInv
  BY DEF BuildInv, GraphInv
<1>2. phase \in {"schedule", "done", "failed"}
  BY <1>1 DEF StagesInv
<1>3. /\ adj = Graph(model) /\ IsModel(model) /\ dag = Condensed /\ TarjanDone
      /\ Node = Nodes(model) /\ emitted = dag.comp
  BY <1>1, <1>2 DEF StagesInv
<1>4. Closed = Nodes(model)
  BY <1>1, <1>3, SccsFollow DEF SccsExact
<1>5. dag.comp = DOMAIN comps
  BY <1>3 DEF Condensed
<1>6. topo \in Seq(dag.comp) /\ emitted = Members(topo) /\ NoDup(topo)
  BY <1>1 DEF SchedInv, SchedTypeOK, SeqOfComps, OrderInv
<1>7. \A k \in DOMAIN topo : topo[k] \in DOMAIN comps
  BY <1>5, <1>6, Element
<1> QED BY <1>3, <1>4, <1>5, <1>6, <1>7 DEF Members, NoDup

\* An edge between two components puts the first before the second in topo.
LEMMA EdgesGoForward ==
  ASSUME BuildInv, step = "done", NEW b \in DOMAIN comps, NEW c \in DOMAIN comps,
         NEW u \in comps[b], NEW w \in comps[c], w \in adj[u],
         NEW k \in DOMAIN topo, topo[k] = c
  PROVE  \E j \in 1..k : topo[j] = b
<1>1. StagesInv /\ SchedInv
  BY DEF BuildInv
<1>2. dag = Condensed /\ ProducersFirst
  BY <1>1 DEF StagesInv, SchedInv, OrderInv
<1>3. k \in 1..k /\ k \in Nat
  BY Scheduled
<1>4. CASE b = c
  BY <1>3, <1>4
<1>5. CASE b # c
  <2>1. c \in Condensed.succ[b] /\ b \in Condensed.comp
    BY <1>5 DEF Condensed
  <2>2. b \in Feeders(topo[k])
    BY <1>2, <2>1 DEF Feeders
  <2>3. PICK j \in 1..(k - 1) : topo[j] = b
    BY <1>2, <2>2 DEF ProducersFirst
  <2> QED BY <1>3, <2>3
<1> QED BY <1>4, <1>5

\* A component that gives an item has no eliminated action: no edge leaves one.
LEMMA NothingGone ==
  ASSUME BuildInv, step = "done", NEW c \in DOMAIN comps, ~EmitsNothing(c),
         NEW a \in comps[c], a \in Acts(model)
  PROVE  ~Gone(model, a)
<1> SUFFICES ASSUME Gone(model, a) PROVE FALSE
  OBVIOUS
<1>1. StagesInv /\ GraphInv /\ PathInv /\ IsModel(model) /\ adj = Graph(model)
  BY Scheduled DEF BuildInv, GraphInv
<1>2. a \in Nodes(model) /\ ~IsEntity(a) /\ Node = Nodes(model)
  BY <1>1, GraphIsOne DEF StagesInv
<1>3. adj[a] = {}
  BY <1>1, <1>2 DEF Graph, LeadsTo
<1>4. \A x \in comps[c] : x = a
  <2> TAKE x \in comps[c]
  <2>1. Leads(a, x)
    BY <1>1 DEF PathInv
  <2>2. {a} \in SUBSET Node /\ \A y \in {a} : adj[y] \subseteq {a}
    BY <1>2, <1>3
  <2>3. x \in {a}
    BY <2>1, <2>2 DEF Leads
  <2> QED BY <2>3
<1>5. Only(c) = a
  BY <1>1, <1>4, CompFacts
<1>6. comps[c] = {a}
  BY <1>4
<1>7. ~NonTrivial(c)
  <2>1. Cardinality(comps[c]) = 1
    BY <1>6, FS_Singleton
  <2> QED BY <1>3, <1>5, <2>1 DEF NonTrivial
<1> QED BY <1>5, <1>7 DEF EmitsNothing

\* An item lists each action of its component once.
LEMMA ItemLists ==
  ASSUME BuildInv, step = "done", NEW c \in DOMAIN comps
  PROVE  /\ \A i \in DOMAIN ItemOf(c).acts :
              ItemOf(c).acts[i] \in comps[c] /\ ItemOf(c).acts[i] \in Acts(model)
         /\ \A a \in comps[c] : a \in Acts(model) =>
              \E i \in DOMAIN ItemOf(c).acts : ItemOf(c).acts[i] = a
         /\ \A i, j \in DOMAIN ItemOf(c).acts :
              ItemOf(c).acts[i] = ItemOf(c).acts[j] => i = j
         /\ \E n \in Nat : DOMAIN ItemOf(c).acts = 1..n
         /\ \A i, j \in DOMAIN ItemOf(c).acts : i < j => ItemOf(c).acts[i] < ItemOf(c).acts[j]
<1> DEFINE S == comps[c] \ Signals(c)
<1>1. /\ comps[c] \subseteq Nodes(model) /\ IsFiniteSet(comps[c]) /\ IsModel(model)
  BY CompFacts, Scheduled DEF BuildInv
<1>2. S \in SUBSET comps[c] /\ S \in SUBSET Int /\ IsFiniteSet(S)
  <2>1. S \in SUBSET comps[c]
    OBVIOUS
  <2>2. comps[c] \subseteq Int
    BY <1>1, GraphIsOne
  <2> QED BY <1>1, <2>1, <2>2, FS_Subset
<1>3. \A x : x \in S <=> x \in comps[c] /\ x \in Acts(model)
  BY <1>1, GraphIsOne DEF Signals
<1>4. ItemOf(c).acts = Ascending(S)
  BY DEF ItemOf
<1> HIDE DEF S
<1>5. /\ \A i \in DOMAIN Ascending(S) : Ascending(S)[i] \in S
      /\ \A x \in S : \E i \in DOMAIN Ascending(S) : Ascending(S)[i] = x
      /\ \A i, j \in DOMAIN Ascending(S) : Ascending(S)[i] = Ascending(S)[j] => i = j
      /\ Cardinality(S) \in Nat /\ DOMAIN Ascending(S) = 1..Cardinality(S)
      /\ \A i, j \in DOMAIN Ascending(S) : i < j => Ascending(S)[i] < Ascending(S)[j]
  BY <1>2, AscendingLists
<1> QED BY <1>3, <1>4, <1>5

\* What an item holds, and where its component is in topo.
LEMMA ItemAt ==
  ASSUME BuildInv, step = "done", NEW at, Placing(at), NEW p \in DOMAIN execOrder
  PROVE  \E c \in DOMAIN comps :
           /\ at[p] \in DOMAIN topo /\ topo[at[p]] = c /\ ~EmitsNothing(c)
           /\ execOrder[p] = ItemOf(c)
           /\ \A i \in DOMAIN execOrder[p].acts :
                /\ execOrder[p].acts[i] \in comps[c] /\ execOrder[p].acts[i] \in Acts(model)
                /\ ~Gone(model, execOrder[p].acts[i])
<1>1. /\ at[p] \in 1..(topoAt - 1) /\ ~EmitsNothing(topo[at[p]])
      /\ execOrder[p] = ItemOf(topo[at[p]])
  BY DEF Placing
<1>2. /\ topoAt \in 1..(Len(topo) + 1) /\ DOMAIN topo = 1..Len(topo) /\ Len(topo) \in Nat
  BY Scheduled DEF BuildInv, ItemsInv
<1>3. at[p] \in DOMAIN topo
  BY <1>1, <1>2
<1>4. PICK c \in DOMAIN comps : topo[at[p]] = c
  BY <1>3, Scheduled
<1> QED BY <1>1, <1>3, <1>4, ItemLists, NothingGone

-----------------------------------------------------------------------------
LEMMA ForwardOnly ==
  ASSUME BuildInv, step = "done"
  PROVE  \A p, q \in DOMAIN execOrder :
           \A i \in DOMAIN execOrder[p].acts, j \in DOMAIN execOrder[q].acts :
             (\E c \in Cells(execOrder[p].acts[i]) : Drives(execOrder[q].acts[j], c))
               => q < p \/ (q = p /\ execOrder[p].group)
<1> SUFFICES ASSUME NEW p \in DOMAIN execOrder, NEW q \in DOMAIN execOrder,
                    NEW i \in DOMAIN execOrder[p].acts, NEW j \in DOMAIN execOrder[q].acts,
                    NEW e \in Cells(execOrder[p].acts[i]), Drives(execOrder[q].acts[j], e)
             PROVE  q < p \/ (q = p /\ execOrder[p].group)
  OBVIOUS
<1> DEFINE a == execOrder[p].acts[i]
<1> DEFINE d == execOrder[q].acts[j]
<1>1. PICK at : Placing(at)
  BY DEF BuildInv, ItemsInv
<1>2. PICK x \in DOMAIN comps :
        /\ at[p] \in DOMAIN topo /\ topo[at[p]] = x /\ execOrder[p] = ItemOf(x)
        /\ a \in comps[x] /\ a \in Acts(model) /\ ~Gone(model, a)
  BY <1>1, ItemAt
<1>3. PICK y \in DOMAIN comps :
        /\ at[q] \in DOMAIN topo /\ topo[at[q]] = y
        /\ d \in comps[y] /\ d \in Acts(model) /\ ~Gone(model, d)
  BY <1>1, ItemAt
<1>4. /\ IsModel(model) /\ adj = Graph(model) /\ Closed = Nodes(model)
      /\ DOMAIN topo = 1..Len(topo) /\ Len(topo) \in Nat
  BY Scheduled
<1>5. e \in 1..E /\ e \in Nodes(model) /\ IsEntity(e)
  <2>1. PICK r \in model.act[a].reads : e = model.canon[r]
    BY DEF Cells
  <2>2. e \in 1..E
    BY <1>2, <1>4, <2>1 DEF IsModel
  <2>3. E \in Nat /\ Cardinality(Acts(model)) \in Nat
    BY <1>4, EntityAssumption, FS_CardinalityType DEF IsModel
  <2> QED BY <2>2, <2>3 DEF Nodes, IsEntity
<1> HIDE DEF a, d
<1>6. /\ a \in Nodes(model) /\ ~IsEntity(a) /\ d \in Nodes(model) /\ ~IsEntity(d)
  BY <1>2, <1>3, <1>4, GraphIsOne
<1>7. e \in adj[d]
  <2>1. model.act[d].assign /\ model.canon[model.act[d].target] = e
    BY DEF Drives, d
  <2>2. LeadsTo(model, d) = {e}
    BY <1>3, <1>6, <2>1 DEF LeadsTo
  <2> QED BY <1>4, <1>6, <2>2 DEF Graph
<1>8. a \in adj[e]
  <2>1. \E r \in model.act[a].reads : model.canon[r] = e
    BY DEF Cells, a
  <2>2. a \in LeadsTo(model, e)
    BY <1>2, <1>5, <2>1 DEF LeadsTo
  <2> QED BY <1>4, <1>5, <2>2 DEF Graph
<1>9. PICK z \in DOMAIN comps : e \in comps[z]
  BY <1>4, <1>5 DEF Closed
<1>10. PICK m \in 1..at[p] : topo[m] = z
  BY <1>2, <1>8, <1>9, EdgesGoForward
<1>11. m \in DOMAIN topo
  BY <1>2, <1>4
<1>12. PICK l \in 1..m : topo[l] = y
  BY <1>3, <1>7, <1>9, <1>10, <1>11, EdgesGoForward
<1>13. l = at[q]
  <2>1. l \in DOMAIN topo
    BY <1>4, <1>11
  <2> QED BY <1>3, <1>12, <2>1, Scheduled
<1>14. at[q] <= m /\ m <= at[p] /\ at[q] \in Nat /\ at[p] \in Nat /\ m \in Nat
  BY <1>2, <1>3, <1>4, <1>10, <1>12, <1>13
<1>15. p \in Nat /\ q \in Nat
  BY DEF BuildInv, ItemsInv
<1>16. ~(p < q)
  <2>1. p < q => at[p] < at[q]
    BY <1>1 DEF Placing
  <2> QED BY <1>14, <2>1
<1>17. ASSUME q = p PROVE execOrder[p].group
  <2>1. at[q] = m /\ z = x
    BY <1>2, <1>10, <1>14, <1>17
  <2>2. a \in comps[x] /\ e \in comps[x] /\ a # e
    BY <1>2, <1>5, <1>6, <1>9, <2>1
  <2>3. NonTrivial(x)
    BY <2>2, CompFacts DEF BuildInv
  <2> QED BY <1>2, <2>3 DEF ItemOf
<1> QED BY <1>15, <1>16, <1>17

\* The scan never meets a consumer before its producer outside a group.
LEMMA NoneGoesBack == BuildInv => NoBackwardEdge
<1> SUFFICES ASSUME BuildInv, phase = "done" PROVE NoBackwardEdge
  BY DEF NoBackwardEdge
<1>1. step = "done"
  BY DEF BuildInv, ItemsInv
<1> QED BY <1>1, ForwardOnly DEF NoBackwardEdge

\* Each kept action has one place.
LEMMA PlacedOnce ==
  ASSUME BuildInv, phase = "done", NEW a \in Kept
  PROVE  \E p \in DOMAIN execOrder : \E k \in DOMAIN execOrder[p].acts :
           /\ execOrder[p].acts[k] = a
           /\ \A q \in DOMAIN execOrder : \A j \in DOMAIN execOrder[q].acts :
                execOrder[q].acts[j] = a => q = p /\ j = k
<1>1. BuildInv /\ phase = "done" /\ a \in Acts(model) /\ ~Gone(model, a)
  BY DEF Kept
<1>2. step = "done" /\ topoAt = Len(topo) + 1
  BY <1>1 DEF BuildInv, ItemsInv
<1>3. PICK at : Placing(at)
  BY <1>1 DEF BuildInv, ItemsInv
<1>4. /\ IsModel(model) /\ Closed = Nodes(model) /\ Len(topo) \in Nat
      /\ DOMAIN topo = 1..Len(topo)
  BY <1>1, <1>2, Scheduled
<1>5. a \in Nodes(model) /\ ~IsEntity(a)
  BY <1>1, <1>4, GraphIsOne
<1>6. PICK c \in DOMAIN comps : a \in comps[c]
  BY <1>4, <1>5 DEF Closed
<1>7. ~EmitsNothing(c)
  <2>1. ~NonTrivial(c) => Only(c) = a
    BY <1>1, <1>6, CompFacts DEF BuildInv
  <2> QED BY <1>1, <1>5, <2>1 DEF EmitsNothing
<1>8. PICK n \in DOMAIN topo : topo[n] = c
  BY <1>1, <1>2, Scheduled
<1>9. n \in 1..(topoAt - 1)
  BY <1>2, <1>4
<1>10. PICK p \in DOMAIN execOrder : at[p] = n
  BY <1>3, <1>7, <1>8, <1>9 DEF Placing
<1>11. execOrder[p] = ItemOf(c)
  BY <1>3, <1>8, <1>10 DEF Placing
<1>12. PICK k \in DOMAIN execOrder[p].acts : execOrder[p].acts[k] = a
  BY <1>1, <1>2, <1>6, <1>11, ItemLists
<1>13. ASSUME NEW q \in DOMAIN execOrder, NEW j \in DOMAIN execOrder[q].acts,
              execOrder[q].acts[j] = a
       PROVE  q = p /\ j = k
  <2>1. PICK b \in DOMAIN comps :
          at[q] \in DOMAIN topo /\ topo[at[q]] = b /\ execOrder[q].acts[j] \in comps[b]
    BY <1>1, <1>2, <1>3, ItemAt
  <2>2. b = c
    BY <1>1, <1>6, <1>13, <2>1, CompFacts DEF BuildInv
  <2>3. at[q] = at[p]
    BY <1>1, <1>2, <1>8, <1>10, <2>1, <2>2, Scheduled
  <2>4. at[p] \in Nat
    BY <1>4, <1>10
  <2>5. ~(p < q) /\ ~(q < p)
    <3>1. (p < q => at[p] < at[q]) /\ (q < p => at[q] < at[p])
      BY <1>3 DEF Placing
    <3> QED BY <2>3, <2>4, <3>1
  <2>6. p \in Nat /\ q \in Nat
    BY <1>1 DEF BuildInv, ItemsInv
  <2>7. q = p
    BY <2>5, <2>6
  <2> QED BY <1>1, <1>2, <1>11, <1>12, <1>13, <2>7, ItemLists
<1> QED BY <1>12, <1>13

\* An eliminated one has none.
LEMMA EachOnce == BuildInv => ScheduledOnce
<1>1. ASSUME BuildInv, phase = "done", NEW a \in Acts(model)
      PROVE  Cardinality(Places(a)) = IF a \in Kept THEN 1 ELSE 0
  <2>1. \A x : x \in Places(a) <=>
          \E p \in DOMAIN execOrder : \E k \in DOMAIN execOrder[p].acts :
            x = <<p, k>> /\ execOrder[p].acts[k] = a
    BY DEF Places
  <2>2. CASE a \notin Kept
    <3>1. step = "done" /\ Gone(model, a)
      BY <1>1, <2>2 DEF BuildInv, ItemsInv, Kept
    <3>2. PICK at : Placing(at)
      BY <1>1 DEF BuildInv, ItemsInv
    <3>3. ASSUME NEW p \in DOMAIN execOrder, NEW k \in DOMAIN execOrder[p].acts
          PROVE  execOrder[p].acts[k] # a
      BY <1>1, <3>1, <3>2, ItemAt
    <3>4. Places(a) = {}
      BY <2>1, <3>3
    <3> QED BY <2>2, <3>4, FS_EmptySet
  <2>3. CASE a \in Kept
    <3>1. PICK p \in DOMAIN execOrder : \E k \in DOMAIN execOrder[p].acts :
            /\ execOrder[p].acts[k] = a
            /\ \A q \in DOMAIN execOrder : \A j \in DOMAIN execOrder[q].acts :
                 execOrder[q].acts[j] = a => q = p /\ j = k
      BY <1>1, <2>3, PlacedOnce
    <3>2. PICK k \in DOMAIN execOrder[p].acts :
            /\ execOrder[p].acts[k] = a
            /\ \A q \in DOMAIN execOrder : \A j \in DOMAIN execOrder[q].acts :
                 execOrder[q].acts[j] = a => q = p /\ j = k
      BY <3>1
    <3>3. Places(a) = {<<p, k>>}
      BY <2>1, <3>2
    <3> QED BY <2>3, <3>3, FS_Singleton
  <2> QED BY <2>2, <2>3
<1> QED BY <1>1 DEF ScheduledOnce

\* The stages before hand over what their theorems promise.
LEMMA OnComponents ==
  ASSUME BuildInv
  PROVE  ComponentsExact /\ SinksClosedFirst /\ TopologicalOrder /\ NeverRunsOut
<1>1. TarjanInv /\ PathInv /\ SchedInv
  BY DEF BuildInv, GraphInv
<1>2. ComponentsExact /\ SinksClosedFirst
  BY <1>1, SccsFollow DEF ComponentsExact, TarjanInv
<1>3. TopologicalOrder
  BY <1>1 DEF SchedInv, OrderInv, TopologicalOrder, EmittedOnce, NoDup
<1>4. NeverRunsOut
  BY <1>1, SeqHoldsLive DEF NeverRunsOut
<1> QED BY <1>2, <1>3, <1>4

-----------------------------------------------------------------------------
(***************************************************************************)
(* Dependence of actions through the cells, and the evaluation graph.      *)
(***************************************************************************)
Feeds(b, a) == \E c \in Cells(a) : Drives(b, c)

\* Waits(a) is the least set that holds what feeds a and what feeds a member.
Grown(S, a) ==
  /\ \A b \in Kept : Feeds(b, a) => b \in S
  /\ \A d \in S : \A b \in Kept : Feeds(b, d) => b \in S
IsWaits(W, a) ==
  W \in SUBSET Kept /\ Grown(W, a) /\ \A T \in SUBSET Kept : Grown(T, a) => W \subseteq T

LEMMA WaitsFacts ==
  ASSUME IsModel(model), NEW a
  PROVE  IsWaits(Waits(a), a)
<1> DEFINE K == Kept
           n == Cardinality(K)
           more(S) == S \cup {b \in K : \E d \in S : \E c \in Cells(d) : Drives(b, c)}
           first == {b \in K : \E c \in Cells(a) : Drives(b, c)}
           g == [S \in SUBSET K |-> more(S)]
<1>1. IsFiniteSet(K) /\ n \in Nat
  <2>1. K \in SUBSET Acts(model) /\ IsFiniteSet(Acts(model))
    BY DEF Kept, IsModel
  <2> QED BY <2>1, FS_Subset, FS_CardinalityType
<1>2. Waits(a) = LET upto[j \in 0..n] == IF j = 0 THEN first ELSE more(upto[j - 1])
                 IN  upto[n]
  BY DEF Waits
<1>3. first \in SUBSET K
  OBVIOUS
<1>first. \A b : b \in first <=> b \in K /\ Feeds(b, a)
  BY DEF Feeds
<1>more. /\ \A S \in SUBSET K : more(S) \in SUBSET K
         /\ \A S, b : b \in more(S) <=> b \in S \/ (b \in K /\ \E d \in S : Feeds(b, d))
  BY DEF Feeds
<1> HIDE DEF K, n, first, more
<1>4. g \in [SUBSET K -> SUBSET K] /\ \A S \in SUBSET K : g[S] = more(S)
  BY <1>more
<1> DEFINE upto == CHOOSE u : u = [j \in 0..n |-> IF j = 0 THEN first ELSE more(u[j - 1])]
<1>5. \E u : u = [j \in 0..n |-> IF j = 0 THEN first ELSE more(u[j - 1])]
  <2> HIDE DEF g
  <2> DEFINE D == SUBSET K
  <2>1. g \in [D -> D] /\ first \in D
    BY <1>3, <1>4
  <2> HIDE DEF D
  <2>2. PICK u \in [0..n -> D] : Iterates(u, g, first, n)
    BY <1>1, <2>1, IterExists
  <2>3. ASSUME NEW j \in 1..n PROVE u[j] = more(u[j - 1])
    <3>1. j - 1 \in 0..n
      BY <1>1
    <3>2. u[j - 1] \in SUBSET K
      BY <2>2, <3>1 DEF D
    <3> QED BY <1>4, <2>2, <3>2 DEF Iterates
  <2>4. \A j \in 0..n : u[j] = IF j = 0 THEN first ELSE more(u[j - 1])
    BY <1>1, <2>2, <2>3 DEF Iterates
  <2>5. u = [j \in 0..n |-> IF j = 0 THEN first ELSE more(u[j - 1])]
    BY <2>2, <2>4
  <2> QED BY <2>5
<1>6. upto = [j \in 0..n |-> IF j = 0 THEN first ELSE more(upto[j - 1])]
  BY <1>5
<1>7. Waits(a) = upto[n]
  BY <1>2
<1> HIDE DEF upto
<1>8. upto[0] = first /\ \A j \in 1..n : upto[j] = more(upto[j - 1])
  <2> HIDE DEF g
  <2>1. \A j \in 0..n : upto[j] = IF j = 0 THEN first ELSE more(upto[j - 1])
    BY <1>6, Zenon
  <2> QED BY <1>1, <2>1
<1>9. Iterates(upto, g, first, n)
  <2> HIDE DEF g
  <2> QED BY <1>4, <1>8 DEF Iterates
<1>10. \A S \in SUBSET K : S \subseteq g[S]
  BY <1>4, <1>more
<1>11. IsLeastRest(K, g, first, upto[n])
  <2> HIDE DEF g
  <2> QED BY <1>1, <1>3, <1>4, <1>9, <1>10, IterRests DEF n
<1> DEFINE W == upto[n]
<1>12. W \in SUBSET K /\ first \subseteq W /\ more(W) = W
  BY <1>4, <1>11 DEF IsLeastRest
<1>13. Grown(W, a)
  BY <1>12, <1>first, <1>more DEF Grown, K
<1>14. ASSUME NEW T \in SUBSET Kept, Grown(T, a) PROVE W \subseteq T
  <2>1. T \in SUBSET K /\ first \subseteq T
    BY <1>14, <1>first DEF Grown, K
  <2>2. \A S \in SUBSET T : g[S] \subseteq T
    BY <1>4, <1>14, <1>more, <2>1 DEF Grown, K
  <2> HIDE DEF g
  <2> QED BY <1>11, <2>1, <2>2 DEF IsLeastRest
<1> QED BY <1>7, <1>12, <1>13, <1>14 DEF IsWaits, K

\* An edge into an action is a read of its, one out of an action its drive of a cell.
LEMMA Edges ==
  ASSUME IsModel(model), adj = Graph(model)
  PROVE  /\ DOMAIN adj = Nodes(model)
         /\ \A a \in Kept : a \in Acts(model) /\ a \in Nodes(model) /\ ~IsEntity(a)
         /\ \A a \in Kept : \A c \in Cells(a) : c \in Nodes(model) /\ IsEntity(c)
         /\ \A a \in Kept, c \in Nodes(model) : c \in adj[a] <=> Drives(a, c)
         /\ \A a \in Kept, v \in Nodes(model) :
              a \in adj[v] <=> IsEntity(v) /\ v \in Cells(a)
         /\ \A v \in Nodes(model) : \A w \in adj[v] :
              w \in Nodes(model) /\ (IsEntity(w) <=> ~IsEntity(v))
         /\ \A v \in Nodes(model) : \A w \in adj[v] : v \in Kept \/ w \in Kept
<1>1. /\ DOMAIN adj = Nodes(model) /\ IsGraph(adj)
      /\ \A v \in Nodes(model) : IsEntity(v) \/ v \in Acts(model)
      /\ \A a \in Acts(model) : a \in Nodes(model) /\ ~IsEntity(a)
      /\ \A v \in Nodes(model) : adj[v] = LeadsTo(model, v)
  BY GraphIsOne DEF Graph
<1>2. \A a : a \in Kept <=> a \in Acts(model) /\ ~Gone(model, a)
  BY DEF Kept
<1>3. \A e \in 1..E : e \in Nodes(model) /\ IsEntity(e)
  <2>1. E \in Nat /\ Cardinality(Acts(model)) \in Nat
    BY EntityAssumption, FS_CardinalityType DEF IsModel
  <2> QED BY <2>1 DEF Nodes, IsEntity
<1>4. \A a \in Acts(model) : /\ model.canon[model.act[a].target] \in 1..E
                             /\ \A r \in model.act[a].reads : model.canon[r] \in 1..E
  BY DEF IsModel
<1>5. \A a \in Kept : \A c \in Cells(a) : c \in Nodes(model) /\ IsEntity(c)
  BY <1>2, <1>3, <1>4 DEF Cells
<1>6. \A a \in Kept : \A c : c \in adj[a] <=> Drives(a, c)
  BY <1>1, <1>2 DEF LeadsTo, Drives
<1>7. \A a \in Kept, v \in Nodes(model) : a \in adj[v] <=> IsEntity(v) /\ v \in Cells(a)
  <2> TAKE a \in Kept, v \in Nodes(model)
  <2>1. CASE IsEntity(v)
    <3>1. adj[v] = {x \in Acts(model) : ~Gone(model, x) /\ \E r \in model.act[x].reads : model.canon[r] = v}
      BY <1>1, <2>1 DEF LeadsTo
    <3>2. a \in adj[v] <=> \E r \in model.act[a].reads : model.canon[r] = v
      BY <1>2, <3>1
    <3>3. v \in Cells(a) <=> \E r \in model.act[a].reads : model.canon[r] = v
      BY DEF Cells
    <3> QED BY <2>1, <3>2, <3>3
  <2>2. CASE ~IsEntity(v)
    <3>1. \A w \in adj[v] : IsEntity(w)
      BY <1>1, <1>3, <1>4, <2>2 DEF LeadsTo
    <3> QED BY <1>1, <1>2, <2>2, <3>1
  <2> QED BY <2>1, <2>2
<1>8. ASSUME NEW v \in Nodes(model), NEW w \in adj[v]
      PROVE  w \in Nodes(model) /\ (IsEntity(w) <=> ~IsEntity(v)) /\ (v \in Kept \/ w \in Kept)
  <2>1. CASE IsEntity(v)
    <3>1. w \in Acts(model) /\ ~Gone(model, w)
      BY <1>1, <2>1, <1>8 DEF LeadsTo
    <3> QED BY <1>1, <1>2, <2>1, <3>1
  <2>2. CASE ~IsEntity(v)
    <3>1. v \in Acts(model)
      BY <1>1, <2>2
    <3>2. ~Gone(model, v) /\ w = model.canon[model.act[v].target]
      BY <1>1, <1>8, <2>2 DEF LeadsTo
    <3> QED BY <1>2, <1>3, <1>4, <2>2, <3>1, <3>2
  <2> QED BY <2>1, <2>2
<1> QED BY <1>1, <1>2, <1>5, <1>6, <1>7, <1>8

\* What a waits for leads to a, its drive first.
LEMMA WaitedLeads ==
  ASSUME IsModel(model), adj = Graph(model), NEW a \in Kept, NEW b \in Waits(a)
  PROVE  b \in Kept /\ \E e \in adj[b] : Leads(e, a)
<1> DEFINE T == {d \in Kept : \E e \in adj[d] : Leads(e, a)}
<1>1. ASSUME NEW d \in Kept, NEW x \in Kept, Feeds(x, d), Leads(d, a)
      PROVE  x \in T
  <2>1. PICK c \in Cells(d) : Drives(x, c)
    BY <1>1 DEF Feeds
  <2>2. c \in Nodes(model) /\ c \in adj[x] /\ d \in adj[c]
    BY <2>1, Edges
  <2>3. Leads(c, d)
    BY <2>2, Edges, LeadsFacts DEF Node
  <2>4. Leads(c, a)
    BY <1>1, <2>3, LeadsFacts
  <2> QED BY <2>2, <2>4
<1>2. ASSUME NEW d \in T PROVE d \in Kept /\ Leads(d, a)
  <2>1. PICK e \in adj[d] : Leads(e, a)
    OBVIOUS
  <2>2. Leads(d, e)
    BY Edges, LeadsFacts DEF Node
  <2> QED BY <2>1, <2>2, LeadsFacts
<1>3. Leads(a, a)
  BY LeadsFacts
<1> HIDE DEF T
<1>4. T \in SUBSET Kept /\ Grown(T, a)
  BY <1>1, <1>2, <1>3 DEF Grown
<1>5. b \in T /\ b \in Kept
  BY <1>4, WaitsFacts DEF IsWaits
<1> QED BY <1>5 DEF T

\* What leads to a, but for a, is what it waits for and the cells they and a read; and
\* if a does not wait for itself, a leads to none of that.
LEMMA LeadsAreWaited ==
  ASSUME IsModel(model), adj = Graph(model), NEW a \in Kept
  PROVE  /\ \A b \in Kept : Leads(b, a) /\ b # a => b \in Waits(a)
         /\ a \notin Waits(a) => \A v \in Nodes(model) : Leads(a, v) /\ Leads(v, a) => v = a
<1> DEFINE W == Waits(a)
<1>1. W \in SUBSET Kept /\ Grown(W, a)
  BY WaitsFacts DEF IsWaits
<1> HIDE DEF W
<1> DEFINE Read(v) == \E d \in W \cup {a} : v \in Cells(d)
           S == {v \in Nodes(model) : v \notin W /\ ~Read(v)}
<1>2. ASSUME NEW v \in S, NEW w \in adj[v]
      PROVE  w \in S /\ w # a
  <2>1. v \in Nodes(model) /\ w \in Nodes(model) /\ (IsEntity(w) <=> ~IsEntity(v))
    BY Edges
  <2>2. CASE IsEntity(v)
    <3>1. w \in Kept /\ v \in Cells(w)
      BY <2>1, <2>2, Edges
    <3>2. w \notin W /\ w # a
      BY <3>1
    <3>3. ~Read(w)
      BY <1>1, <2>1, <2>2, Edges
    <3> QED BY <2>1, <3>2, <3>3
  <2>3. CASE ~IsEntity(v)
    <3>1. v \in Kept /\ Drives(v, w)
      BY <2>1, <2>3, Edges
    <3>2. ~Read(w)
      BY <1>1, <3>1 DEF Grown, Feeds
    <3>3. w \notin W /\ w # a
      BY <1>1, <2>1, <2>3, Edges
    <3> QED BY <2>1, <3>2, <3>3
  <2> QED BY <2>2, <2>3
<1>3. Node = Nodes(model)
  BY Edges DEF Node
<1> DEFINE R == S \ {a}
<1>4. S \in SUBSET Node /\ (\A x \in S : adj[x] \subseteq S)
  BY <1>2, <1>3
<1>5. R \in SUBSET Node /\ (\A x \in R : adj[x] \subseteq R) /\ a \notin R
  BY <1>2, <1>3
<1>6. ASSUME NEW b \in Kept PROVE b \in Nodes(model) /\ ~Read(b)
  BY <1>1, Edges
<1> HIDE DEF Read
<1>7. ASSUME NEW b \in Kept, Leads(b, a), b # a PROVE b \in W
  <2> SUFFICES ASSUME b \notin W PROVE FALSE
    OBVIOUS
  <2>1. b \in R
    BY <1>6, <1>7
  <2> HIDE DEF R
  <2> QED BY <1>5, <1>7, <2>1 DEF Leads
<1>8. ASSUME a \notin W, NEW v \in Nodes(model), Leads(a, v), Leads(v, a) PROVE v = a
  <2> SUFFICES ASSUME v # a PROVE FALSE
    OBVIOUS
  <2>1. a \in S
    BY <1>6, <1>8
  <2>2. v \in S
    <3> HIDE DEF S
    <3> QED BY <1>4, <1>8, <2>1 DEF Leads
  <2>3. v \in R
    BY <2>2
  <2> HIDE DEF R
  <2> QED BY <1>5, <1>8, <2>3 DEF Leads
<1> QED BY <1>7, <1>8 DEF W

-----------------------------------------------------------------------------
(***************************************************************************)
(* Dependence and the components.                                          *)
(***************************************************************************)
\* A component leads to those closed before it only, ...
LEMMA LeadsDown ==
  ASSUME BuildInv, step = "done", NEW c \in DOMAIN comps, NEW d \in DOMAIN comps,
         NEW u \in comps[c], NEW v \in comps[d], Leads(u, v)
  PROVE  d <= c
<1>1. /\ Len(comps) \in Nat /\ DOMAIN comps = 1..Len(comps)
      /\ \A k \in DOMAIN comps : comps[k] \subseteq Node
      /\ \A j, k \in DOMAIN comps : comps[j] \cap comps[k] # {} => j = k
      /\ SinksClosedFirst
  BY CompFacts DEF BuildInv, GraphInv, StagesInv, TarjanInv
<1> DEFINE S == UNION {comps[j] : j \in 1..c}
<1>2. 1..c \subseteq DOMAIN comps /\ c \in 1..c
  BY <1>1
<1>3. S \in SUBSET Node /\ u \in S
  BY <1>1, <1>2
<1>4. ASSUME NEW x \in S, NEW y \in adj[x] PROVE y \in S
  <2>1. PICK j \in 1..c : x \in comps[j]
    OBVIOUS
  <2>2. PICK i \in 1..j : y \in comps[i]
    BY <1>1, <1>2, <2>1 DEF SinksClosedFirst
  <2>3. i \in 1..c
    BY <1>1, <2>1, <2>2
  <2> QED BY <2>2, <2>3
<1>5. v \in S
  <2> HIDE DEF S
  <2> QED BY <1>3, <1>4 DEF Leads
<1>6. PICK j \in 1..c : v \in comps[j]
  BY <1>5
<1>7. j = d
  BY <1>1, <1>2, <1>6
<1> QED BY <1>1, <1>6, <1>7

\* ... so nodes that lead to each other are of one component.
LEMMA TogetherIsOne ==
  ASSUME BuildInv, step = "done", NEW c \in DOMAIN comps, NEW u \in comps[c],
         NEW v \in Nodes(model), Leads(u, v), Leads(v, u)
  PROVE  v \in comps[c]
<1>1. PICK d \in DOMAIN comps : v \in comps[d]
  BY Scheduled DEF Closed
<1>2. d <= c /\ c <= d
  BY <1>1, LeadsDown
<1>3. c \in Nat /\ d \in Nat
  BY CompFacts DEF BuildInv
<1>4. c = d
  BY <1>2, <1>3
<1> QED BY <1>1, <1>4

\* In a component of several nodes every one is led to by another: an entity by the
\* action that drives it.
LEMMA LedToWithin ==
  ASSUME BuildInv, step = "done", NEW c \in DOMAIN comps, NonTrivial(c), NEW v \in comps[c]
  PROVE  /\ \E x \in comps[c] : x # v
         /\ \E u \in comps[c] : v \in adj[u]
<1>1. /\ IsModel(model) /\ adj = Graph(model) /\ Only(c) \in comps[c]
      /\ comps[c] \subseteq Nodes(model)
      /\ \A x, y \in comps[c] : Leads(x, y)
  BY Scheduled, CompFacts DEF BuildInv, GraphInv, PathInv
<1>2. Node = Nodes(model)
  BY <1>1, Edges DEF Node
<1>3. Only(c) \notin adj[Only(c)]
  BY <1>1, Edges
<1>4. PICK x \in comps[c] : x # v
  <2> SUFFICES ASSUME \A x \in comps[c] : x = v PROVE FALSE
    OBVIOUS
  <2>1. comps[c] = {v}
    OBVIOUS
  <2>2. Cardinality(comps[c]) = 1
    BY <2>1, FS_Singleton
  <2> QED BY <1>3, <2>2 DEF NonTrivial
<1>5. \E u \in comps[c] : v \in adj[u]
  <2> SUFFICES ASSUME \A u \in comps[c] : v \notin adj[u] PROVE FALSE
    OBVIOUS
  <2> DEFINE S == {y \in Node : Leads(x, y) /\ y # v}
  <2>1. S \in SUBSET Node /\ x \in S /\ v \notin S
    BY <1>1, <1>2, <1>4, LeadsFacts
  <2>2. ASSUME NEW y \in S, NEW z \in adj[y] PROVE z \in S
    <3>1. Leads(x, y) /\ Leads(y, z) /\ z \in Node
      BY <1>1, <1>2, Edges, LeadsFacts
    <3>2. Leads(x, z)
      BY <3>1, LeadsFacts
    <3>3. z # v
      <4> SUFFICES ASSUME z = v PROVE FALSE
        OBVIOUS
      <4>1. Leads(v, x)
        BY <1>1, <1>4
      <4>2. Leads(y, x)
        BY <3>1, <4>1, LeadsFacts
      <4>3. y \in comps[c]
        BY <1>2, <1>4, <3>1, <4>2, TogetherIsOne
      <4> QED BY <4>3
    <3> QED BY <3>1, <3>2, <3>3
  <2>3. Leads(x, v)
    BY <1>1, <1>4
  <2> HIDE DEF S
  <2> QED BY <2>1, <2>2, <2>3 DEF Leads
<1> QED BY <1>4, <1>5

\* An action waits for itself exactly in a component of several nodes; the component
\* is then the loop: the actions that wait for it and it for them, and what they drive.
LEMMA LoopIsComponent ==
  ASSUME BuildInv, step = "done", NEW c \in DOMAIN comps, NEW a \in comps[c], a \in Kept
  PROVE  /\ NonTrivial(c) <=> a \in Waits(a)
         /\ NonTrivial(c) =>
              /\ \A b \in Kept : b \in comps[c] <=> b \in Waits(a) /\ a \in Waits(b)
              /\ \A e \in 1..E : e \in comps[c] <=>
                   \E b \in Kept : b \in comps[c] /\ Drives(b, e)
<1>1. /\ IsModel(model) /\ adj = Graph(model) /\ comps[c] \subseteq Nodes(model)
      /\ \A x, y \in comps[c] : Leads(x, y)
  BY Scheduled, CompFacts DEF BuildInv, GraphInv, PathInv
<1>2. Node = Nodes(model)
  BY <1>1, Edges DEF Node
<1>3. ASSUME NonTrivial(c), NEW b \in Kept, b \in comps[c] PROVE b \in Waits(b)
  <2>1. PICK x \in comps[c] : x # b
    BY <1>3, LedToWithin
  <2>2. Leads(b, x) /\ Leads(x, b) /\ x \in Nodes(model)
    BY <1>1, <1>3, <2>1
  <2> QED BY <1>1, <1>3, <2>1, <2>2, LeadsAreWaited
<1>4. ASSUME NEW b \in Kept, b \in comps[c], b \in Waits(b)
      PROVE  \E e \in adj[b] : e \in comps[c]
  <2>1. PICK e \in adj[b] : Leads(e, b)
    BY <1>1, <1>4, WaitedLeads
  <2>2. Leads(b, e) /\ e \in Nodes(model)
    BY <1>1, <1>2, <1>4, <2>1, Edges, LeadsFacts
  <2> QED BY <1>4, <2>1, <2>2, TogetherIsOne
<1>5. ASSUME a \in Waits(a) PROVE NonTrivial(c)
  <2>1. PICK e \in adj[a] : e \in comps[c]
    BY <1>4, <1>5
  <2>2. e # a
    BY <1>1, <2>1, Edges
  <2> QED BY <2>1, <2>2, CompFacts DEF BuildInv
<1>6. ASSUME NonTrivial(c), NEW b \in Kept, b \in comps[c]
      PROVE  b \in Waits(a) /\ a \in Waits(b)
  <2>1. Leads(a, b) /\ Leads(b, a)
    BY <1>1, <1>6
  <2>2. CASE b = a
    BY <1>3, <1>6, <2>2
  <2>3. CASE b # a
    BY <1>1, <1>6, <2>1, <2>3, LeadsAreWaited
  <2> QED BY <2>2, <2>3
<1>7. ASSUME NEW b \in Kept, b \in Waits(a), a \in Waits(b) PROVE b \in comps[c]
  <2>1. ASSUME NEW x \in Kept, NEW y \in Kept, x \in Waits(y) PROVE Leads(x, y)
    <3>1. PICK e \in adj[x] : Leads(e, y)
      BY <1>1, <2>1, WaitedLeads
    <3>2. Leads(x, e)
      BY <1>1, <1>2, <2>1, <3>1, Edges, LeadsFacts
    <3> QED BY <3>1, <3>2, LeadsFacts
  <2>2. Leads(a, b) /\ Leads(b, a) /\ b \in Nodes(model)
    BY <1>1, <1>7, <2>1, Edges
  <2> QED BY <2>2, TogetherIsOne
<1>8. ASSUME NonTrivial(c), NEW e \in 1..E, e \in comps[c]
      PROVE  \E b \in Kept : b \in comps[c] /\ Drives(b, e)
  <2>1. PICK u \in comps[c] : e \in adj[u]
    BY <1>8, LedToWithin
  <2>2. IsEntity(e) /\ e \in Nodes(model)
    BY <1>1, <1>8 DEF IsEntity
  <2>3. e \notin Kept
    BY <1>1, <2>2, Edges
  <2>4. u \in Kept
    BY <1>1, <2>1, <2>3, Edges
  <2>5. Drives(u, e)
    BY <1>1, <2>1, <2>2, <2>4, Edges
  <2> QED BY <2>1, <2>4, <2>5
<1>9. ASSUME NonTrivial(c), NEW e \in 1..E, NEW b \in Kept, b \in comps[c], Drives(b, e)
      PROVE  e \in comps[c]
  <2>1. PICK d \in adj[b] : d \in comps[c]
    BY <1>3, <1>4, <1>9
  <2>2. Drives(b, d)
    BY <1>1, <1>9, <2>1, Edges
  <2> QED BY <1>9, <2>1, <2>2 DEF Drives
<1> QED BY <1>3, <1>5, <1>6, <1>7, <1>8, <1>9

\* An item of several actions is one loop, in registration order, and its signals are
\* what the loop drives; an item of one action is no loop.
LEMMA GroupedByCycles == BuildInv => GroupsAreCycles
<1> SUFFICES ASSUME BuildInv, phase = "done", NEW p \in DOMAIN execOrder,
                    NEW i \in DOMAIN execOrder[p].acts
             PROVE  LET members == execOrder[p].acts
                        loop == {b \in Waits(members[i]) : members[i] \in Waits(b)}
                    IN  /\ execOrder[p].group = (members[i] \in Waits(members[i]))
                        /\ execOrder[p].group =>
                             /\ {members[j] : j \in DOMAIN members} = loop
                             /\ execOrder[p].signals = {c \in 1..E : \E b \in loop : Drives(b, c)}
                        /\ \A j \in 1..(i - 1) : members[j] < members[i]
  BY DEF GroupsAreCycles
<1> DEFINE members == execOrder[p].acts
           a == members[i]
           loop == {b \in Waits(a) : a \in Waits(b)}
<1>1. step = "done"
  BY DEF BuildInv, ItemsInv
<1>2. PICK at : Placing(at)
  BY DEF BuildInv, ItemsInv
<1>3. PICK c \in DOMAIN comps :
        /\ ~EmitsNothing(c) /\ execOrder[p] = ItemOf(c)
        /\ a \in comps[c] /\ a \in Acts(model) /\ ~Gone(model, a)
  BY <1>1, <1>2, ItemAt
<1>4. a \in Kept
  BY <1>3 DEF Kept
<1>5. /\ members = ItemOf(c).acts /\ execOrder[p].group = NonTrivial(c)
      /\ execOrder[p].signals = IF NonTrivial(c) THEN Signals(c) ELSE {}
  BY <1>3 DEF ItemOf
<1>6. IsModel(model) /\ adj = Graph(model) /\ comps[c] \subseteq Nodes(model)
  BY <1>1, Scheduled, CompFacts DEF BuildInv
<1>7. \A x : x \in loop => x \in Kept /\ x \in Waits(a) /\ a \in Waits(x)
  BY <1>4, <1>6, WaitedLeads
<1> HIDE DEF members, a
<1>8. NonTrivial(c) <=> a \in Waits(a)
  BY <1>1, <1>3, <1>4, LoopIsComponent
<1>9. ASSUME NonTrivial(c)
      PROVE  /\ {members[j] : j \in DOMAIN members} = loop
             /\ Signals(c) = {e \in 1..E : \E b \in loop : Drives(b, e)}
  <2>1. /\ \A b \in Kept : b \in comps[c] <=> b \in loop
        /\ \A e \in 1..E : e \in comps[c] <=> \E b \in Kept : b \in comps[c] /\ Drives(b, e)
    BY <1>1, <1>3, <1>4, <1>9, LoopIsComponent
  <2>2. \A b : b \in loop <=> b \in Kept /\ b \in comps[c]
    BY <1>7, <2>1
  <2>3. ASSUME NEW j \in DOMAIN members PROVE members[j] \in Kept /\ members[j] \in comps[c]
    <3>1. members[j] \in comps[c] /\ members[j] \in Acts(model)
      BY <1>1, <1>5, ItemLists
    <3>2. ~Gone(model, members[j])
      BY <1>1, <1>3, <3>1, NothingGone
    <3> QED BY <3>1, <3>2 DEF Kept
  <2>4. ASSUME NEW b \in Kept, b \in comps[c] PROVE \E j \in DOMAIN members : members[j] = b
    <3>1. b \in Acts(model)
      BY DEF Kept
    <3> QED BY <1>1, <1>5, <2>4, <3>1, ItemLists
  <2>5. Signals(c) = {e \in 1..E : e \in comps[c]}
    BY DEF Signals, IsEntity
  <2> HIDE DEF loop
  <2>6. \A e \in 1..E : e \in comps[c] <=> \E b \in loop : Drives(b, e)
    BY <2>1, <2>2
  <2>7. Signals(c) = {e \in 1..E : \E b \in loop : Drives(b, e)}
    BY <2>5, <2>6
  <2>8. \A b : b \in {members[j] : j \in DOMAIN members} <=> b \in loop
    BY <2>2, <2>3, <2>4
  <2> QED BY <2>7, <2>8
<1>10. \A j \in 1..(i - 1) : members[j] < members[i]
  <2>1. PICK n \in Nat : DOMAIN members = 1..n
    BY <1>1, <1>5, ItemLists
  <2>2. i \in 1..n
    BY <2>1 DEF members
  <2>3. \A j \in 1..(i - 1) : j \in 1..n /\ j < i
    BY <2>2
  <2> QED BY <1>1, <1>5, <2>1, <2>2, <2>3, ItemLists
<1>11. members[i] = a
  BY DEF a
<1> HIDE DEF loop
<1>12. execOrder[p].group = (a \in Waits(a))
  BY <1>5, <1>8 DEF NonTrivial
<1>13. ASSUME execOrder[p].group
       PROVE  /\ {members[j] : j \in DOMAIN members} = loop
              /\ execOrder[p].signals = {e \in 1..E : \E b \in loop : Drives(b, e)}
  BY <1>5, <1>9, <1>13
<1> QED BY <1>10, <1>11, <1>12, <1>13 DEF members, loop

\* A component is refused exactly if an action that waits for itself drives a value of
\* it that cannot be compared.
LEMMA RefusedByCycles == BuildInv => RefusedOnlyForCycles
<1> SUFFICES ASSUME BuildInv, phase \in {"done", "failed"}
             PROVE  phase = "failed" <=>
                      \E a \in Kept : \E e \in NoEq : Drives(a, e) /\ a \in Waits(a)
  BY DEF RefusedOnlyForCycles
<1>1. /\ step = "done" /\ topoAt \in 1..(Len(topo) + 1)
      /\ phase = "done" => topoAt = Len(topo) + 1
      /\ phase = "failed" => topoAt <= Len(topo) /\ Refused(topo[topoAt])
      /\ \A k \in 1..(topoAt - 1) : ~Refused(topo[k])
  BY DEF BuildInv, ItemsInv
<1>2. /\ IsModel(model) /\ adj = Graph(model) /\ Closed = Nodes(model)
      /\ DOMAIN topo = 1..Len(topo) /\ Len(topo) \in Nat
      /\ \A k \in DOMAIN topo : topo[k] \in DOMAIN comps
      /\ \A c \in DOMAIN comps : \E k \in DOMAIN topo : topo[k] = c
  BY <1>1, Scheduled
<1>3. ASSUME phase = "failed"
      PROVE  \E a \in Kept : \E e \in NoEq : Drives(a, e) /\ a \in Waits(a)
  <2>1. topoAt \in DOMAIN topo
    BY <1>1, <1>2, <1>3
  <2>2. PICK c \in DOMAIN comps : Refused(c)
    BY <1>1, <1>2, <1>3, <2>1
  <2>3. NonTrivial(c)
    BY <2>2 DEF Refused
  <2>4. PICK e \in NoEq : e \in comps[c] /\ IsEntity(e)
    BY <2>2 DEF Refused, Signals
  <2>5. PICK u \in comps[c] : e \in adj[u]
    BY <1>1, <2>3, <2>4, LedToWithin
  <2>6. u \in Nodes(model) /\ e \in Nodes(model)
    BY <2>4, <2>5, CompFacts DEF BuildInv
  <2>7. e \notin Kept
    BY <1>2, <2>4, Edges
  <2>8. u \in Kept /\ Drives(u, e)
    BY <1>2, <2>5, <2>6, <2>7, Edges
  <2>9. u \in Waits(u)
    BY <1>1, <2>3, <2>8, LoopIsComponent
  <2> QED BY <2>8, <2>9
<1>4. ASSUME NEW a \in Kept, NEW e \in NoEq, Drives(a, e), a \in Waits(a)
      PROVE  phase = "failed"
  <2>1. a \in Nodes(model)
    BY <1>2, Edges
  <2>2. PICK c \in DOMAIN comps : a \in comps[c]
    BY <1>2, <2>1 DEF Closed
  <2>3. NonTrivial(c)
    BY <1>1, <1>4, <2>2, LoopIsComponent
  <2>4. e \in 1..E /\ IsEntity(e)
    BY EntityAssumption DEF IsEntity
  <2>5. e \in comps[c]
    BY <1>1, <1>4, <2>2, <2>3, <2>4, LoopIsComponent
  <2>6. Refused(c)
    BY <2>3, <2>4, <2>5 DEF Refused, Signals
  <2>7. PICK k \in DOMAIN topo : topo[k] = c
    BY <1>2
  <2>8. k \in 1..Len(topo) /\ k \notin 1..(topoAt - 1)
    BY <1>1, <1>2, <2>6, <2>7
  <2>9. topoAt # Len(topo) + 1
    BY <1>2, <2>8
  <2> QED BY <1>1, <2>9
<1> QED BY <1>3, <1>4

\* Only Assigns are waited for: an Update feeds nothing within the round.
LEMMA WaitedAssign ==
  ASSUME IsModel(model), NEW a, NEW b \in Waits(a)
  PROVE  b \in Kept /\ model.act[b].assign
<1> DEFINE T == {x \in Kept : model.act[x].assign}
<1>1. IsWaits(Waits(a), a)
  BY WaitsFacts
<1>2. T \in SUBSET Kept /\ Grown(T, a)
  BY DEF Grown, Feeds, Drives
<1>3. Waits(a) \subseteq T
  BY <1>1, <1>2 DEF IsWaits
<1> QED BY <1>3

-----------------------------------------------------------------------------
\* On every model, once execOrder is built, the scan meets a producer before all its
\* consumers, unless they share a group (graph.h:398-411): whatever the aliasing, the
\* cycles and the types of the actions.
THEOREM OrderHasNoBackwardEdge == OrderSpec => []NoBackwardEdge
BY NoneGoesBack, BuildAlways, PTL

\* On every model, execOrder holds each action aliasing left once and no other.
THEOREM OrderSchedulesOnce == OrderSpec => []ScheduledOnce
BY EachOnce, BuildAlways, PTL

\* On every model, the scheduler runs on the exact strongly connected components, in
\* an order that makes their condensation; so its order is topological and its internal
\* error (graph.h:295-296) unreachable.
THEOREM OrderIsBuiltOnComponents ==
  OrderSpec => [](ComponentsExact /\ SinksClosedFirst /\ TopologicalOrder /\ NeverRunsOut)
<1>1. BuildInv => ComponentsExact /\ SinksClosedFirst /\ TopologicalOrder /\ NeverRunsOut
  BY OnComponents
<1> QED BY <1>1, BuildAlways, PTL

\* On every model, the scan iterates exactly the actions on combinational cycles, those
\* of one cycle in one group and in registration order, until every signal they drive is
\* steady (graph.h:305-335).
THEOREM OrderGroupsCycles == OrderSpec => []GroupsAreCycles
BY GroupedByCycles, BuildAlways, PTL

\* On every model, elaboration is refused exactly for a cycle through a value without
\* operator== (graph.h:326-332).
THEOREM OrderRefusesCycles == OrderSpec => []RefusedOnlyForCycles
BY RefusedByCycles, BuildAlways, PTL
=============================================================================
