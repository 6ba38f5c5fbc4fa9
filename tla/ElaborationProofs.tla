------------------------- MODULE ElaborationProofs -------------------------
(***************************************************************************)
(* elaborate() on every flat model: what the merging of identity copies    *)
(* leaves of the union-find forest, the storage and the Assigns, and that  *)
(* the model it hands over is one the theorems of ExecOrderProofs are      *)
(* about.                                                                  *)
(***************************************************************************)
EXTENDS Elaboration, ExecOrderProofs

-----------------------------------------------------------------------------
(***************************************************************************)
(* The union-find forest: ranks, roots and the way find() takes.           *)
(***************************************************************************)
\* The recursive function by which find() follows canon exists: a way is what every
\* set closed under canon has that holds its start.
LEMMA WayExists ==
  ASSUME NEW c \in [1..E -> 1..E]
  PROVE  \E w : w = [e \in 1..E |-> IF c[e] = e THEN {e} ELSE {e} \cup w[c[e]]]
<1> DEFINE S == 1..E
<1>0. c \in [S -> S]
  OBVIOUS
<1> HIDE DEF S
<1> DEFINE Within(T) == \A z \in T : c[z] \in T
           w == [e \in S |-> {y \in S : \A T \in SUBSET S : e \in T /\ Within(T) => y \in T}]
<1>1. ASSUME NEW e \in S PROVE w[e] = IF c[e] = e THEN {e} ELSE {e} \cup w[c[e]]
  <2>1. c[e] \in S /\ {e} \in SUBSET S
    BY <1>0
  <2>2. CASE c[e] = e
    <3>1. Within({e})
      BY <2>2
    <3>2. w[e] = {y \in S : \A T \in SUBSET S : e \in T /\ Within(T) => y \in T}
      OBVIOUS
    <3> HIDE DEF w
    <3>3. w[e] \subseteq {e}
      BY <2>1, <3>1, <3>2
    <3>4. e \in w[e]
      BY <3>2
    <3> QED BY <2>2, <3>3, <3>4
  <2>3. CASE c[e] # e
    <3>1. w[e] \in SUBSET S /\ w[c[e]] \in SUBSET S /\ e \in w[e] /\ c[e] \in w[c[e]]
      BY <2>1
    <3>2. Within(w[c[e]])
      <4> TAKE z \in w[c[e]]
      <4>1. z \in S /\ c[z] \in S
        BY <1>0, <3>1
      <4> QED BY <2>1, <4>1
    <3>3. Within({e} \cup w[c[e]])
      BY <3>1, <3>2
    <3>4. w[e] \subseteq {e} \cup w[c[e]]
      <4>1. {e} \cup w[c[e]] \in SUBSET S
        BY <3>1
      <4> DEFINE U == {e} \cup w[c[e]]
      <4>2. U \in SUBSET S /\ Within(U) /\ e \in U
        BY <3>3, <4>1
      <4> HIDE DEF U
      <4>3. w[e] \subseteq U
        BY <4>2
      <4> QED BY <4>3 DEF U
    <3>5. w[c[e]] \subseteq w[e]
      <4>1. ASSUME NEW y \in w[c[e]], NEW T \in SUBSET S, e \in T, Within(T) PROVE y \in T
        <5>1. c[e] \in T
          BY <4>1
        <5> QED BY <2>1, <4>1, <5>1
      <4> HIDE DEF Within
      <4> QED BY <3>1, <4>1
    <3> HIDE DEF w
    <3> QED BY <2>3, <3>1, <3>4, <3>5
  <2> HIDE DEF w
  <2> QED BY <2>2, <2>3
<1>2. w = [e \in S |-> w[e]]
  OBVIOUS
<1> HIDE DEF w
<1>3. w = [e \in S |-> IF c[e] = e THEN {e} ELSE {e} \cup w[c[e]]]
  BY <1>1, <1>2
<1> QED BY <1>3 DEF S
\* Ranks fall on the way to a root; r leads every entity to its root.
Forest(c, rank) ==
  /\ c \in [1..E -> 1..E] /\ rank \in [1..E -> Nat]
  /\ \A e \in 1..E : c[e] # e => rank[c[e]] < rank[e]
Roots(c, r) ==
  /\ r \in [1..E -> 1..E]
  /\ \A e \in 1..E : c[r[e]] = r[e] /\ r[c[e]] = r[e] /\ (c[e] = e => r[e] = e)

\* Aliases runs on all entities.
LEMMA AllEntities == A!Entity = 1..E
BY ElabAssumption DEF A!Entity

\* A way is its first entity and the way of what canon has for it.
LEMMA WayUnfolds ==
  ASSUME NEW c \in [1..E -> 1..E], NEW x \in 1..E
  PROVE  A!Way(c, x) = IF c[x] = x THEN {x} ELSE {x} \cup A!Way(c, c[x])
<1>0. \E w : w = [e \in 1..E |-> IF c[e] = e THEN {e} ELSE {e} \cup w[c[e]]]
  BY WayExists
<1> DEFINE way == CHOOSE w : w = [e \in 1..E |-> IF c[e] = e THEN {e} ELSE {e} \cup w[c[e]]]
<1>1. way = [e \in 1..E |-> IF c[e] = e THEN {e} ELSE {e} \cup way[c[e]]]
  BY <1>0
<1>3. A!Way(c, x) = way[x] /\ A!Way(c, c[x]) = way[c[x]]
  BY AllEntities DEF A!Way, way
<1> HIDE DEF way
<1>2. way[x] = IF c[x] = x THEN {x} ELSE {x} \cup way[c[x]]
  BY <1>1
<1> QED BY <1>2, <1>3

\* The way from x to its root stays in x's tree; the root is the one entity on it
\* that is its own parent.
LEMMA WayFacts ==
  ASSUME NEW c, NEW rank, NEW r, Forest(c, rank), Roots(c, r), NEW x \in 1..E
  PROVE  /\ A!Way(c, x) \subseteq 1..E /\ x \in A!Way(c, x)
         /\ \A y \in A!Way(c, x) : r[y] = r[x]
         /\ A!Root(c, x) = r[x]
<1>0. /\ c \in [1..E -> 1..E] /\ rank \in [1..E -> Nat] /\ r \in [1..E -> 1..E]
      /\ \A e \in 1..E : c[e] # e => rank[c[e]] < rank[e]
      /\ \A e \in 1..E : c[r[e]] = r[e] /\ r[c[e]] = r[e] /\ (c[e] = e => r[e] = e)
  BY DEF Forest, Roots
<1> DEFINE Good(e) == /\ A!Way(c, e) \subseteq 1..E /\ e \in A!Way(c, e) /\ r[e] \in A!Way(c, e)
                      /\ \A y \in A!Way(c, e) : r[y] = r[e]
           P == {e \in 1..E : Good(e)}
<1>1. ASSUME NEW e \in 1..E, \A y \in 1..E : rank[y] < rank[e] => y \in P
      PROVE  e \in P
  <2>1. A!Way(c, e) = IF c[e] = e THEN {e} ELSE {e} \cup A!Way(c, c[e])
    BY <1>0, WayUnfolds
  <2>2. CASE c[e] = e
    <3>1. A!Way(c, e) = {e} /\ r[e] = e
      BY <1>0, <2>1, <2>2
    <3> QED BY <3>1
  <2>3. CASE c[e] # e
    <3>1. c[e] \in P
      BY <1>0, <1>1, <2>3
    <3>2. A!Way(c, e) = {e} \cup A!Way(c, c[e]) /\ r[c[e]] = r[e]
      BY <1>0, <2>1, <2>3
    <3> QED BY <3>1, <3>2
  <2> QED BY <2>2, <2>3
<1>2. P = 1..E
  <2>1. P \in SUBSET (1..E)
    OBVIOUS
  <2>2. \A z \in 1..E : (\A y \in 1..E : rank[y] < rank[z] => y \in P) => z \in P
    BY <1>1
  <2>3. rank \in [1..E -> Nat]
    BY <1>0
  <2> HIDE DEF P
  <2> QED BY <2>1, <2>2, <2>3, RankInduction, Zenon
<1>3. Good(x)
  BY <1>2
<1>4. A!Root(c, x) = r[x]
  <2>1. \A y \in A!Way(c, x) : c[y] = y => y = r[x]
    BY <1>0, <1>3
  <2>2. r[x] \in A!Way(c, x) /\ c[r[x]] = r[x]
    BY <1>0, <1>3
  <2> QED BY <2>1, <2>2 DEF A!Root
<1> QED BY <1>3, <1>4

\* A root ranks below the rest of its tree.
LEMMA RootsAreLow ==
  ASSUME NEW c, NEW rank, NEW r, Forest(c, rank), Roots(c, r)
  PROVE  \A e \in 1..E : c[e] # e => rank[r[e]] < rank[e]
<1>0. /\ c \in [1..E -> 1..E] /\ rank \in [1..E -> Nat] /\ r \in [1..E -> 1..E]
      /\ \A e \in 1..E : c[e] # e => rank[c[e]] < rank[e]
      /\ \A e \in 1..E : c[r[e]] = r[e] /\ r[c[e]] = r[e] /\ (c[e] = e => r[e] = e)
  BY DEF Forest, Roots
<1> DEFINE P == {e \in 1..E : rank[r[e]] <= rank[e] /\ (c[e] # e => rank[r[e]] < rank[e])}
<1>1. ASSUME NEW e \in 1..E, \A y \in 1..E : rank[y] < rank[e] => y \in P
      PROVE  e \in P
  <2>1. CASE c[e] = e
    BY <1>0, <2>1
  <2>2. CASE c[e] # e
    <3>1. c[e] \in P /\ rank[c[e]] < rank[e]
      BY <1>0, <1>1, <2>2
    <3>2. rank[r[e]] <= rank[c[e]]
      BY <1>0, <3>1
    <3>3. rank[r[e]] \in Nat /\ rank[c[e]] \in Nat /\ rank[e] \in Nat
      BY <1>0
    <3> QED BY <3>1, <3>2, <3>3
  <2> QED BY <2>1, <2>2
<1>2. P = 1..E
  <2>1. P \in SUBSET (1..E)
    OBVIOUS
  <2>2. \A z \in 1..E : (\A y \in 1..E : rank[y] < rank[z] => y \in P) => z \in P
    BY <1>1
  <2>3. rank \in [1..E -> Nat]
    BY <1>0
  <2> HIDE DEF P
  <2> QED BY <2>1, <2>2, <2>3, RankInduction, Zenon
<1> QED BY <1>2

\* find() shortens ways and changes no root.
LEMMA FindFacts ==
  ASSUME NEW c, NEW rank, NEW r, Forest(c, rank), Roots(c, r), NEW x \in 1..E
  PROVE  /\ Forest(A!Find(c, x), rank) /\ Roots(A!Find(c, x), r)
         /\ A!Find(c, x)[x] = r[x]
         /\ \A e \in 1..E : /\ A!Find(c, x)[e] \in {c[e], r[e]}
                            /\ A!Find(c, x)[e] = e <=> c[e] = e
<1>0. /\ c \in [1..E -> 1..E] /\ rank \in [1..E -> Nat] /\ r \in [1..E -> 1..E]
      /\ \A e \in 1..E : c[e] # e => rank[c[e]] < rank[e]
      /\ \A e \in 1..E : c[r[e]] = r[e] /\ r[c[e]] = r[e] /\ (c[e] = e => r[e] = e)
  BY DEF Forest, Roots
<1>1. \A e \in 1..E : c[e] # e => rank[r[e]] < rank[e]
  BY RootsAreLow
<1> DEFINE d == A!Find(c, x)
<1>2. d = [e \in 1..E |-> IF e \in A!Way(c, x) THEN r[x] ELSE c[e]]
  BY WayFacts, AllEntities DEF A!Find
<1>3. \A y \in A!Way(c, x) : y \in 1..E /\ r[y] = r[x]
  BY WayFacts
<1> HIDE DEF d
<1>4. ASSUME NEW e \in 1..E
      PROVE  d[e] \in 1..E /\ d[e] \in {c[e], r[e]}
  BY <1>0, <1>2, <1>3
<1>5. \A e \in 1..E : d[e] = e <=> c[e] = e
  <2> TAKE e \in 1..E
  <2>1. CASE e \in A!Way(c, x)
    <3>1. d[e] = r[e]
      BY <1>2, <1>3, <2>1
    <3>2. r[e] = e => c[e] = e
      BY <1>0
    <3> QED BY <1>0, <3>1, <3>2
  <2>2. CASE e \notin A!Way(c, x)
    BY <1>2, <2>2
  <2> QED BY <2>1, <2>2
<1>6. Forest(d, rank)
  <2>1. d \in [1..E -> 1..E]
    BY <1>2, <1>4
  <2>2. \A e \in 1..E : d[e] # e => rank[d[e]] < rank[e]
    BY <1>0, <1>1, <1>4, <1>5
  <2> QED BY <1>0, <2>1, <2>2 DEF Forest
<1>7. Roots(d, r)
  <2>1. ASSUME NEW e \in 1..E PROVE d[r[e]] = r[e] /\ r[d[e]] = r[e] /\ (d[e] = e => r[e] = e)
    <3>1. r[e] \in 1..E /\ c[r[e]] = r[e] /\ r[r[e]] = r[e] /\ r[c[e]] = r[e]
      BY <1>0
    <3> QED BY <1>0, <1>4, <1>5, <3>1
  <2> QED BY <1>0, <2>1 DEF Roots
<1>8. d[x] = r[x]
  BY <1>2, WayFacts
<1> QED BY <1>4, <1>5, <1>6, <1>7, <1>8 DEF d

\* d hangs the root s under the root t, which moves the tree of s there.
Hung(c, r, s, t, d, q) ==
  /\ c[s] = s /\ c[t] = t /\ s # t
  /\ d \in [1..E -> 1..E] /\ \A e \in 1..E : d[e] = IF e = s THEN t ELSE c[e]
  /\ q \in [1..E -> 1..E] /\ \A e \in 1..E : q[e] = IF r[e] = s THEN t ELSE r[e]

\* Hanging one root under another joins their trees and no others.
LEMMA HangFacts ==
  ASSUME NEW c, NEW rank, NEW r, Forest(c, rank), Roots(c, r),
         NEW s \in 1..E, NEW t \in 1..E, NEW d, NEW q, Hung(c, r, s, t, d, q)
  PROVE  (\E depth : Forest(d, depth)) /\ Roots(d, q)
<1> USE DEF Hung
<1>0. /\ c \in [1..E -> 1..E] /\ rank \in [1..E -> Nat] /\ r \in [1..E -> 1..E]
      /\ \A e \in 1..E : c[e] # e => rank[c[e]] < rank[e]
      /\ \A e \in 1..E : c[r[e]] = r[e] /\ r[c[e]] = r[e] /\ (c[e] = e => r[e] = e)
  BY DEF Forest, Roots
<1> DEFINE depth == [e \in 1..E |-> IF r[e] = s THEN rank[e] + rank[t] + 1 ELSE rank[e]]
<1>1. r[s] = s /\ r[t] = t
  BY <1>0
<1>2. Forest(d, depth)
  <2>1. d \in [1..E -> 1..E] /\ depth \in [1..E -> Nat]
    BY <1>0
  <2>2. ASSUME NEW e \in 1..E, d[e] # e PROVE depth[d[e]] < depth[e]
    <3>1. CASE e = s
      <4>1. d[e] = t /\ depth[e] = rank[s] + rank[t] + 1 /\ depth[t] = rank[t]
        BY <1>0, <1>1, <3>1
      <4>2. rank[s] \in Nat /\ rank[t] \in Nat
        BY <1>0
      <4> HIDE DEF depth
      <4> QED BY <4>1, <4>2
    <3>2. CASE e # s
      <4>1. d[e] = c[e] /\ c[e] \in 1..E /\ r[c[e]] = r[e] /\ rank[c[e]] < rank[e]
        BY <1>0, <2>2, <3>2
      <4>2. rank[e] \in Nat /\ rank[t] \in Nat /\ rank[c[e]] \in Nat
        BY <1>0, <4>1
      <4>3. /\ depth[e] = IF r[e] = s THEN rank[e] + rank[t] + 1 ELSE rank[e]
            /\ depth[c[e]] = IF r[e] = s THEN rank[c[e]] + rank[t] + 1 ELSE rank[c[e]]
        BY <4>1
      <4> HIDE DEF depth
      <4>4. depth[c[e]] < depth[e]
        BY <4>1, <4>2, <4>3
      <4> QED BY <4>1, <4>4
    <3> QED BY <3>1, <3>2
  <2> HIDE DEF depth
  <2> QED BY <2>1, <2>2 DEF Forest
<1>3. Roots(d, q)
  <2>1. q \in [1..E -> 1..E]
    BY <1>0
  <2>2. ASSUME NEW e \in 1..E PROVE d[q[e]] = q[e] /\ q[d[e]] = q[e] /\ (d[e] = e => q[e] = e)
    <3>1. d[q[e]] = q[e]
      <4>1. CASE r[e] = s
        BY <1>0, <4>1
      <4>2. CASE r[e] # s
        <5>1. q[e] = r[e] /\ r[e] \in 1..E /\ d[r[e]] = c[r[e]] /\ c[r[e]] = r[e]
          BY <1>0, <4>2
        <5> QED BY <5>1
      <4> QED BY <4>1, <4>2
    <3>2. q[d[e]] = q[e] /\ (d[e] = e => q[e] = e)
      <4>1. CASE e = s
        <5>1. d[e] = t /\ q[e] = t /\ q[t] = t
          BY <1>0, <1>1, <4>1
        <5> QED BY <4>1, <5>1
      <4>2. CASE e # s
        <5>1. d[e] = c[e] /\ c[e] \in 1..E /\ r[c[e]] = r[e]
          BY <1>0, <4>2
        <5>2. q[c[e]] = q[e]
          BY <5>1
        <5>3. c[e] = e => r[e] = e /\ r[e] # s
          BY <1>0, <4>2
        <5> QED BY <5>1, <5>2, <5>3
      <4> QED BY <4>1, <4>2
    <3> QED BY <3>1, <3>2
  <2> QED BY <2>1, <2>2 DEF Roots
<1> HIDE DEF depth
<1> QED BY <1>2, <1>3

-----------------------------------------------------------------------------
(***************************************************************************)
(* The Assigns of a flat model, and what an entity copies through them.    *)
(***************************************************************************)
\* They are counted in registration order.
LEMMA AssignsAscend ==
  ASSUME NEW m, IsModel(m)
  PROVE  /\ Assigns(m) \in SUBSET Int /\ IsFiniteSet(Assigns(m))
         /\ \A k \in 1..Cardinality(Assigns(m)) : AssignAt(m, k) = Ascending(Assigns(m))[k]
<1> DEFINE S == Assigns(m)
           Upto(x) == {b \in S : b <= x}
<1>1. S \in SUBSET Int /\ IsFiniteSet(S)
  <2>1. IsFiniteSet(Acts(m)) /\ Acts(m) \in SUBSET Int /\ S \in SUBSET Acts(m)
    BY EntityAssumption, FS_CardinalityType DEF IsModel, Assigns
  <2> QED BY <2>1, FS_Subset
<1>2. \A k : AssignAt(m, k) = CHOOSE a \in S : Cardinality(Upto(a)) = k
  BY DEF AssignAt
<1> HIDE DEF S
<1>3. /\ Cardinality(S) \in Nat /\ DOMAIN Ascending(S) = 1..Cardinality(S)
      /\ \A k \in DOMAIN Ascending(S) :
           /\ Ascending(S)[k] \in S
           /\ Cardinality({y \in S : y < Ascending(S)[k]}) = k - 1
      /\ \A x \in S : \E k \in DOMAIN Ascending(S) : Ascending(S)[k] = x
  BY <1>1, AscendingLists
<1>4. ASSUME NEW k \in 1..Cardinality(S) PROVE Cardinality(Upto(Ascending(S)[k])) = k
  <2>1. PICK x \in S : x = Ascending(S)[k] /\ Cardinality({y \in S : y < x}) = k - 1
    BY <1>3
  <2> DEFINE under == {y \in S : y < x}
  <2>2. IsFiniteSet(under) /\ x \notin under
    <3>1. under \in SUBSET S
      OBVIOUS
    <3>2. x \in Int
      BY <1>1, <2>1
    <3> QED BY <1>1, <3>1, <3>2, FS_Subset
  <2>3. Upto(x) = under \cup {x}
    <3>1. x \in Int /\ \A b \in S : b \in Int
      BY <1>1
    <3>2. \A b \in S : b <= x <=> b < x \/ b = x
      BY <3>1
    <3> QED BY <3>2 DEF Upto
  <2>4. Cardinality(under \cup {x}) = Cardinality(under) + 1
    <3> HIDE DEF under
    <3> QED BY <2>2, FS_AddElement
  <2>5. Cardinality(Upto(x)) = (k - 1) + 1
    <3> HIDE DEF Upto, under
    <3> QED BY <2>1, <2>3, <2>4 DEF under
  <2>6. k \in Int
    BY <1>3
  <2> HIDE DEF Upto
  <2> QED BY <2>1, <2>5, <2>6
<1> HIDE DEF Upto
<1>5. ASSUME NEW k \in 1..Cardinality(S) PROVE AssignAt(m, k) = Ascending(S)[k]
  <2>1. Ascending(S)[k] \in S /\ Cardinality(Upto(Ascending(S)[k])) = k
    BY <1>3, <1>4
  <2>2. AssignAt(m, k) \in S /\ Cardinality(Upto(AssignAt(m, k))) = k
    BY <1>2, <2>1
  <2>3. PICK j \in 1..Cardinality(S) : Ascending(S)[j] = AssignAt(m, k)
    BY <1>3, <2>2
  <2>4. j = k
    BY <1>4, <2>2, <2>3
  <2> QED BY <2>3, <2>4
<1> QED BY <1>1, <1>5 DEF S

\* Every Assign has its number.
LEMMA AssignsFound ==
  ASSUME NEW m, IsModel(m)
  PROVE  /\ Cardinality(Assigns(m)) \in Nat
         /\ \A k \in 1..Cardinality(Assigns(m)) : AssignAt(m, k) \in Assigns(m)
         /\ \A a \in Assigns(m) : \E k \in 1..Cardinality(Assigns(m)) : AssignAt(m, k) = a
<1> DEFINE S == Assigns(m)
<1>1. /\ S \in SUBSET Int /\ IsFiniteSet(S)
      /\ \A k \in 1..Cardinality(S) : AssignAt(m, k) = Ascending(S)[k]
  BY AssignsAscend
<1> HIDE DEF S
<1>2. /\ Cardinality(S) \in Nat /\ DOMAIN Ascending(S) = 1..Cardinality(S)
      /\ \A k \in DOMAIN Ascending(S) : Ascending(S)[k] \in S
      /\ \A x \in S : \E k \in DOMAIN Ascending(S) : Ascending(S)[k] = x
  BY <1>1, AscendingLists
<1>3. /\ \A k \in 1..Cardinality(S) : AssignAt(m, k) \in S
      /\ \A a \in S : \E k \in 1..Cardinality(S) : AssignAt(m, k) = a
  BY <1>1, <1>2
<1> QED BY <1>2, <1>3 DEF S

\* The Assigns as the alias passes see them.
LEMMA CopiesFacts ==
  ASSUME NEW m, IsNetlist(m)
  PROVE  /\ DOMAIN Copies(m) = 1..Len(Copies(m)) /\ Len(Copies(m)) \in Nat
         /\ \A k \in DOMAIN Copies(m) :
              /\ Copies(m)[k].target \in (1..E) \ State
              /\ Copies(m)[k].src \in (1..E) \cup {NoSrc}
<1> DEFINE n == Cardinality(Assigns(m))
<1>1. n \in Nat /\ \A k \in 1..n : AssignAt(m, k) \in Assigns(m)
  BY AssignsFound DEF IsNetlist
<1>2. Copies(m) = [k \in 1..n |-> [target |-> m.act[AssignAt(m, k)].target,
                                   src |-> m.act[AssignAt(m, k)].src]]
  BY DEF Copies
<1>3. \A k \in 1..n : /\ m.act[AssignAt(m, k)].target \in (1..E) \ State
                      /\ m.act[AssignAt(m, k)].src \in (1..E) \cup {NoSrc}
  BY <1>1 DEF Assigns, IsNetlist, FlatAction
<1> HIDE DEF n
<1> DEFINE R == [target : 1..E, src : (1..E) \cup {NoSrc}]
<1>4. Copies(m) \in [1..n -> R]
  BY <1>2, <1>3
<1>5. Copies(m) \in Seq(R) /\ Len(Copies(m)) = n
  BY <1>1, <1>4, IsASeq
<1>6. DOMAIN Copies(m) = 1..n
  BY <1>2
<1> QED BY <1>1, <1>2, <1>3, <1>5, <1>6

\* The Cardinality of module FiniteSets, which Aliases extends.
LEMMA OneCardinality == \A S : A!Cardinality(S) = Cardinality(S)
BY DEF A!Cardinality, Cardinality

\* Copied(e) is the least set that holds e and the source of every copy to a member.
ClosedUnder(q, S) ==
  \A k \in DOMAIN q : q[k].target \in S /\ q[k].src # NoSrc => q[k].src \in S
IsCopied(q, S, e) ==
  /\ S \subseteq 1..E /\ e \in S /\ ClosedUnder(q, S)
  /\ \A T \in SUBSET (1..E) : e \in T /\ ClosedUnder(q, T) => S \subseteq T

\* The recursive Copied of Aliases is that least set.
LEMMA CopiedFacts ==
  ASSUME IsNetlist(model), NEW e \in 1..E
  PROVE  IsCopied(Copies(model), A!Copied(e), e)
<1> DEFINE acts == Copies(model)
           Ent == 1..E
           n == Cardinality(Ent)
           more(S) == S \cup {acts[k].src : k \in {j \in DOMAIN acts :
                                     acts[j].target \in S /\ acts[j].src # NoSrc}}
           g == [S \in SUBSET Ent |-> more(S)]
<1>1. \A k \in DOMAIN acts : acts[k].src # NoSrc => acts[k].src \in Ent
  BY CopiesFacts
<1>2. e \in Ent /\ IsFiniteSet(Ent)
  BY EntityAssumption, FS_Interval
<1>3. n \in Nat
  BY <1>2, FS_CardinalityType
<1>4. A!Copied(e) = LET upto[j \in 0..n] == IF j = 0 THEN {e} ELSE more(upto[j - 1])
                    IN  upto[n]
  BY AllEntities, OneCardinality DEF A!Copied
<1> HIDE DEF acts, Ent, n
<1>5. g \in [SUBSET Ent -> SUBSET Ent] /\ \A S \in SUBSET Ent : g[S] = more(S)
  BY <1>1
<1> DEFINE upto == CHOOSE u : u = [j \in 0..n |-> IF j = 0 THEN {e} ELSE more(u[j - 1])]
<1>6. \E u : u = [j \in 0..n |-> IF j = 0 THEN {e} ELSE more(u[j - 1])]
  <2> HIDE DEF g
  <2>1. {e} \in SUBSET Ent
    BY <1>2
  <2> DEFINE D == SUBSET Ent
             d0 == {e}
  <2>2. g \in [D -> D] /\ d0 \in D
    BY <1>5, <2>1
  <2> HIDE DEF D, d0
  <2>3. PICK u \in [0..n -> D] : Iterates(u, g, d0, n)
    BY <1>3, <2>2, IterExists
  <2>4. ASSUME NEW j \in 1..n PROVE u[j] = more(u[j - 1])
    <3>1. j - 1 \in 0..n
      BY <1>3
    <3>2. u[j - 1] \in SUBSET Ent
      BY <2>3, <3>1 DEF D
    <3> HIDE DEF more
    <3> QED BY <1>5, <2>3, <3>2 DEF Iterates
  <2> HIDE DEF more
  <2>5. u = [j \in 0..n |-> IF j = 0 THEN {e} ELSE more(u[j - 1])]
    <3>1. \A j \in 0..n : u[j] = IF j = 0 THEN {e} ELSE more(u[j - 1])
      BY <1>3, <2>3, <2>4 DEF Iterates, d0
    <3> QED BY <2>3, <3>1
  <2> QED BY <2>5
<1>7. upto = [j \in 0..n |-> IF j = 0 THEN {e} ELSE more(upto[j - 1])]
  <2> HIDE DEF more
  <2> QED BY <1>6
<1>8. A!Copied(e) = upto[n]
  BY <1>4
<1> HIDE DEF upto
<1>9. upto[0] = {e} /\ \A j \in 1..n : upto[j] = more(upto[j - 1])
  <2> HIDE DEF more, g
  <2>1. \A j \in 0..n : upto[j] = IF j = 0 THEN {e} ELSE more(upto[j - 1])
    BY <1>7, Zenon
  <2> QED BY <1>3, <2>1
<1>10. Iterates(upto, g, {e}, n)
  <2> HIDE DEF more, g
  <2> QED BY <1>5, <1>9 DEF Iterates
<1>11. \A S \in SUBSET Ent : S \subseteq g[S]
  BY <1>5
<1>12. /\ upto[n] \in SUBSET Ent /\ {e} \subseteq upto[n] /\ g[upto[n]] = upto[n]
       /\ \A T \in SUBSET Ent :
            {e} \subseteq T /\ (\A S \in SUBSET T : g[S] \subseteq T) => upto[n] \subseteq T
  <2> DEFINE d0 == {e}
  <2>1. d0 \in SUBSET Ent /\ Iterates(upto, g, d0, Cardinality(Ent))
    BY <1>2, <1>10 DEF n
  <2> HIDE DEF d0, g
  <2>2. IsLeastRest(Ent, g, d0, upto[n])
    BY <1>2, <1>5, <1>11, <2>1, IterRests DEF n
  <2> QED BY <2>2 DEF d0, IsLeastRest
<1>13. \A k \in DOMAIN acts : acts[k].target \in upto[n] /\ acts[k].src # NoSrc => acts[k].src \in upto[n]
  <2>1. more(upto[n]) = upto[n]
    BY <1>5, <1>12
  <2> QED BY <2>1
<1>14. ASSUME NEW T \in SUBSET Ent, e \in T,
              \A k \in DOMAIN acts : acts[k].target \in T /\ acts[k].src # NoSrc => acts[k].src \in T
       PROVE  upto[n] \subseteq T
  <2>1. \A S \in SUBSET T : g[S] \subseteq T
    BY <1>5, <1>14
  <2> HIDE DEF g, more
  <2>2. {e} \subseteq T
    BY <1>14, Zenon
  <2>3. {e} \subseteq T /\ (\A S \in SUBSET T : g[S] \subseteq T) => upto[n] \subseteq T
    BY <1>12, <1>14, Zenon
  <2> QED BY <2>1, <2>2, <2>3, Zenon
<1> QED BY <1>8, <1>12, <1>13, <1>14 DEF acts, Ent, IsCopied, ClosedUnder

\* What a copied entity copies is copied.
LEMMA CopiedChains ==
  ASSUME IsNetlist(model), NEW e \in 1..E, NEW b \in A!Copied(e)
  PROVE  A!Copied(b) \subseteq A!Copied(e)
<1>1. /\ A!Copied(e) \in SUBSET (1..E) /\ b \in 1..E
      /\ ClosedUnder(Copies(model), A!Copied(e))
  BY CopiedFacts DEF IsCopied
<1>2. \A T \in SUBSET (1..E) : b \in T /\ ClosedUnder(Copies(model), T) => A!Copied(b) \subseteq T
  BY <1>1, CopiedFacts DEF IsCopied
<1> QED BY <1>1, <1>2

-----------------------------------------------------------------------------
(***************************************************************************)
(* The loops of resolveAliases().                                          *)
(***************************************************************************)

\* The actions whose turn in resolveAliases()' first, and second, loop is over.
Seen(k) == alias \in {"bind", "done"} \/ (alias = "resolve" /\ k < next)
Redirected(k) == alias = "done" \/ (alias = "bind" /\ k < next)

\* What checkSignalDrivers() lets through.
OneDriver ==
  /\ \A j, k \in DOMAIN Copies(model) :
       Copies(model)[j].target = Copies(model)[k].target => j = k
  /\ \A k \in DOMAIN Copies(model) : Copies(model)[k].target \notin RootIn
  /\ \A e \in (1..E) \ (State \cup RootIn) :
       \E k \in DOMAIN Copies(model) : Copies(model)[k].target = e

\* Only an eliminated copy links, and it links its target to the root of its source; a
\* copy seen and kept copies itself through others; and the entities redirected so far
\* are those of the eliminated copies, each compressed.
Linked(k, r) ==
  /\ Seen(k) /\ Copies(model)[k].src # NoSrc
  /\ r[Copies(model)[k].target] = r[Copies(model)[k].src]
  /\ canon[Copies(model)[k].target] # Copies(model)[k].target
Cyclic(k) == Copies(model)[k].target \in A!Copied(Copies(model)[k].src)
Unbound(e) ==
  store[e] = e /\ \A k \in eliminated : Copies(model)[k].target = e => ~Redirected(k)
Bound(e, r) ==
  /\ store[e] = r[e] /\ canon[e] = r[e]
  /\ \E k \in eliminated : Copies(model)[k].target = e /\ Redirected(k)
Merged(r) ==
  /\ \A e \in 1..E : canon[e] # e => \E k \in eliminated : Copies(model)[k].target = e
  /\ \A k \in eliminated : Linked(k, r)
  /\ \A k \in DOMAIN Copies(model) \ eliminated :
       Seen(k) /\ Copies(model)[k].src # NoSrc => Cyclic(k)
  /\ \A e \in 1..E : r[e] \in A!Copied(e)
  /\ \A e \in 1..E : Unbound(e) \/ Bound(e, r)

AliasInv ==
  /\ IsNetlist(model)
  /\ alias \in {"check", "resolve", "bind", "done", "failed"}
  /\ next \in 1..(Len(Copies(model)) + 1) /\ eliminated \subseteq DOMAIN Copies(model)
  /\ alias = "check" => next = 1
  /\ store \in [1..E -> 1..E]
  /\ alias \notin {"check", "failed"} => OneDriver
  /\ \E rank, r : Forest(canon, rank) /\ Roots(canon, r) /\ Merged(r)

\* What the driver check lets pass is a model with one driver per entity.
LEMMA LegalIsOneDriver ==
  ASSUME IsNetlist(model), A!Legal
  PROVE  OneDriver
<1> DEFINE D(e) == {k \in DOMAIN Copies(model) : Copies(model)[k].target = e}
<1>1. \A e \in (1..E) \ State : Cardinality(D(e)) = IF e \in RootIn THEN 0 ELSE 1
  BY OneCardinality DEF A!Legal, A!Drivers
<1>2. \A k \in DOMAIN Copies(model) : Copies(model)[k].target \in (1..E) \ State
  BY CopiesFacts
<1>3. \A e : IsFiniteSet(D(e))
  <2> TAKE e
  <2>1. IsFiniteSet(1..Len(Copies(model))) /\ DOMAIN Copies(model) = 1..Len(Copies(model))
    BY CopiesFacts, FS_Interval
  <2>2. D(e) \in SUBSET (1..Len(Copies(model)))
    BY <2>1
  <2> QED BY <2>1, <2>2, FS_Subset
<1> HIDE DEF D
<1>4. \A e \in (1..E) \ State : e \in RootIn => D(e) = {}
  BY <1>1, <1>3, FS_EmptySet
<1>5. \A e \in (1..E) \ State : e \notin RootIn => \E k : D(e) = {k}
  BY <1>1, <1>3, FS_Singleton
<1>6. \A k \in DOMAIN Copies(model) : k \in D(Copies(model)[k].target)
  BY DEF D
<1>7. ASSUME NEW j \in DOMAIN Copies(model), NEW k \in DOMAIN Copies(model),
             Copies(model)[j].target = Copies(model)[k].target
      PROVE  j = k
  <2> DEFINE e == Copies(model)[k].target
  <2>1. j \in D(e) /\ k \in D(e) /\ e \in (1..E) \ State
    BY <1>2, <1>6, <1>7
  <2> HIDE DEF e
  <2> QED BY <1>4, <1>5, <2>1
<1>8. \A k \in DOMAIN Copies(model) : Copies(model)[k].target \notin RootIn
  BY <1>2, <1>4, <1>6
<1>9. ASSUME NEW e \in (1..E) \ (State \cup RootIn)
      PROVE  \E k \in DOMAIN Copies(model) : Copies(model)[k].target = e
  <2>1. PICK k : D(e) = {k}
    BY <1>5
  <2>2. k \in D(e)
    BY <2>1
  <2> QED BY <2>2 DEF D
<1> QED BY <1>7, <1>8, <1>9 DEF OneDriver

\* The same of the state a step leads to.
LEMMA CopiedAfter ==
  (IsNetlist(model) => \A e \in 1..E : IsCopied(Copies(model), A!Copied(e), e))'
<1>1. IsNetlist(model) => \A e \in 1..E : IsCopied(Copies(model), A!Copied(e), e)
  BY CopiedFacts
<1> QED BY <1>1, PTL

\* So a step that keeps the copies keeps what is copied.
LEMMA CopiedSame ==
  ASSUME IsNetlist(model), IsNetlist(model)', Copies(model)' = Copies(model)
  PROVE  \A e \in 1..E : A!Copied(e)' = A!Copied(e)
<1> TAKE e \in 1..E
<1>1. /\ IsCopied(Copies(model), A!Copied(e), e)
      /\ IsCopied(Copies(model), A!Copied(e)', e)
  BY CopiedFacts, CopiedAfter
<1> QED BY <1>1 DEF IsCopied

\* What an action of the loops keeps as it is; only the action's own turn counts.
LEMMA SameModel ==
  ASSUME AliasInv, model' = model
  PROVE  /\ IsNetlist(model)' /\ Copies(model)' = Copies(model)
         /\ OneDriver' <=> OneDriver
         /\ \A e \in 1..E : A!Copied(e)' = A!Copied(e)
         /\ \A k \in DOMAIN Copies(model) :
              Copies(model)[k].src # NoSrc => (Cyclic(k)' <=> Cyclic(k))
<1>1. IsNetlist(model)' /\ Copies(model)' = Copies(model) /\ IsNetlist(model)
  BY DEF AliasInv
<1>2. \A e \in 1..E : A!Copied(e)' = A!Copied(e)
  BY <1>1, CopiedSame
<1>3. OneDriver' <=> OneDriver
  BY <1>1 DEF OneDriver
<1>4. \A k \in DOMAIN Copies(model) : Copies(model)[k].src # NoSrc => Copies(model)[k].src \in 1..E
  BY <1>1, CopiesFacts
<1>5. \A k \in DOMAIN Copies(model) : Copies(model)[k].src # NoSrc => (Cyclic(k)' <=> Cyclic(k))
  BY <1>1, <1>2, <1>4 DEF Cyclic
<1> QED BY <1>1, <1>2, <1>3, <1>5

\* One lemma per pass of resolveAliases(): the driver check, ...
LEMMA CheckStep ==
  ASSUME AliasInv, model' = model, A!CheckSignalDrivers
  PROVE  AliasInv'
<1>0. /\ IsNetlist(model) /\ alias = "check" /\ alias' \in {"resolve", "failed"}
      /\ alias' = "resolve" => A!Legal
      /\ next' = next /\ canon' = canon /\ eliminated' = eliminated /\ store' = store
  BY DEF A!CheckSignalDrivers, AliasInv
<1>1. PICK rank, r : Forest(canon, rank) /\ Roots(canon, r) /\ Merged(r)
  BY DEF AliasInv
<1>2. eliminated = {} /\ \A e \in 1..E : Unbound(e)
  BY <1>0, <1>1 DEF Merged, Linked, Seen, Bound, Redirected
<1>3. \A e \in 1..E : store[e] = e /\ canon[e] = e
  BY <1>1, <1>2 DEF Unbound, Merged
<1>4. /\ IsNetlist(model)' /\ Copies(model)' = Copies(model) /\ (OneDriver' <=> OneDriver)
      /\ \A e \in 1..E : A!Copied(e)' = A!Copied(e)
  BY <1>0, SameModel
<1>5. \A k \in DOMAIN Copies(model) : ~Seen(k)'
  <2> TAKE k \in DOMAIN Copies(model)
  <2>1. k \in Nat /\ k >= 1 /\ next = 1
    BY <1>0, CopiesFacts DEF AliasInv
  <2> QED BY <1>0, <2>1 DEF Seen
<1>6. Merged(r)'
  <2>1. \A e \in 1..E : Unbound(e)'
    BY <1>0, <1>2 DEF Unbound
  <2>2. \A e \in 1..E : r[e] \in A!Copied(e)'
    BY <1>1, <1>4 DEF Merged
  <2> QED BY <1>0, <1>2, <1>3, <1>4, <1>5, <2>1, <2>2 DEF Merged
<1>7. alias' \notin {"check", "failed"} => OneDriver'
  BY <1>0, <1>4, LegalIsOneDriver
<1> QED BY <1>0, <1>1, <1>4, <1>6, <1>7 DEF AliasInv

\* ... the end of the loop over the copies, ...
LEMMA LoopEndStep ==
  ASSUME AliasInv, model' = model, A!LoopEnd
  PROVE  AliasInv'
<1>0. /\ IsNetlist(model) /\ alias \in {"resolve", "bind"} /\ next > Len(Copies(model))
      /\ alias' = IF alias = "resolve" THEN "bind" ELSE "done"
      /\ next' = 1 /\ canon' = canon /\ eliminated' = eliminated /\ store' = store
      /\ OneDriver /\ next \in 1..(Len(Copies(model)) + 1)
      /\ eliminated \subseteq DOMAIN Copies(model)
  BY DEF A!LoopEnd, AliasInv
<1>1. PICK rank, r : Forest(canon, rank) /\ Roots(canon, r) /\ Merged(r)
  BY DEF AliasInv
<1>2. \A k \in DOMAIN Copies(model) :
        /\ Seen(k) /\ Seen(k)' /\ (alias = "resolve" => ~Redirected(k) /\ ~Redirected(k)')
        /\ (alias = "bind" => Redirected(k) /\ Redirected(k)')
  <2> TAKE k \in DOMAIN Copies(model)
  <2>1. k \in Nat /\ k >= 1 /\ k < next /\ ~(k < 1)
    BY <1>0, CopiesFacts
  <2> QED BY <1>0, <2>1 DEF Seen, Redirected
<1>3. /\ IsNetlist(model)' /\ Copies(model)' = Copies(model) /\ (OneDriver' <=> OneDriver)
      /\ \A e \in 1..E : A!Copied(e)' = A!Copied(e)
      /\ \A k \in DOMAIN Copies(model) :
           Copies(model)[k].src # NoSrc => (Cyclic(k)' <=> Cyclic(k))
  BY <1>0, SameModel
<1>4. Merged(r)'
  <2>1. \A k \in eliminated' : Linked(k, r)'
    BY <1>0, <1>1, <1>2, <1>3 DEF Merged, Linked
  <2>2. \A e \in 1..E : Unbound(e)' \/ Bound(e, r)'
    <3> TAKE e \in 1..E
    <3>1. CASE Unbound(e)
      <4>1. Unbound(e)'
        BY <1>0, <1>2, <1>3, <3>1 DEF Unbound
      <4> QED BY <4>1
    <3>2. CASE Bound(e, r)
      <4>1. Bound(e, r)'
        BY <1>0, <1>2, <1>3, <3>2 DEF Bound
      <4> QED BY <4>1
    <3> QED BY <1>1, <3>1, <3>2 DEF Merged
  <2>3. \A e \in 1..E : r[e] \in A!Copied(e)'
    BY <1>1, <1>3 DEF Merged
  <2>4. \A k \in DOMAIN Copies(model)' \ eliminated' :
          Seen(k)' /\ Copies(model)'[k].src # NoSrc => Cyclic(k)'
    BY <1>0, <1>1, <1>2, <1>3 DEF Merged
  <2> QED BY <1>0, <1>1, <1>3, <2>1, <2>2, <2>3, <2>4 DEF Merged
<1>5. next' \in 1..(Len(Copies(model))' + 1)
  BY <1>0, <1>3, CopiesFacts
<1> QED BY <1>0, <1>1, <1>3, <1>4, <1>5 DEF AliasInv

\* The action whose turn it is in the first loop drives an entity that is a root still.
LEMMA AtTurn ==
  ASSUME AliasInv, alias = "resolve", next <= Len(Copies(model)),
         NEW rank, NEW r, Forest(canon, rank), Roots(canon, r), Merged(r)
  PROVE  /\ next \in DOMAIN Copies(model) /\ next \notin eliminated
         /\ Copies(model)[next].target \in 1..E
         /\ \A j \in eliminated : Copies(model)[j].target # Copies(model)[next].target
         /\ canon[Copies(model)[next].target] = Copies(model)[next].target
         /\ r[Copies(model)[next].target] = Copies(model)[next].target
<1>1. next \in DOMAIN Copies(model) /\ Copies(model)[next].target \in 1..E
  BY CopiesFacts DEF AliasInv
<1>2. \A j \in eliminated : j < next
  BY DEF Merged, Linked, Seen
<1>3. next \in Nat
  BY CopiesFacts DEF AliasInv
<1>4. next \notin eliminated
  BY <1>2, <1>3
<1>5. \A j \in eliminated : Copies(model)[j].target # Copies(model)[next].target
  BY <1>1, <1>4 DEF AliasInv, OneDriver
<1>6. canon[Copies(model)[next].target] = Copies(model)[next].target
  BY <1>1, <1>5 DEF Merged
<1> QED BY <1>1, <1>4, <1>5, <1>6 DEF Roots

\* Where the two look-ups of a turn end.
LEMMA SourceTrees ==
  ASSUME AliasInv, NEW rank, NEW r, Forest(canon, rank), Roots(canon, r),
         NEW t \in 1..E, NEW s \in 1..E
  PROVE  LET found == A!Find(A!Find(canon, t), s) IN
         /\ Forest(found, rank) /\ Roots(found, r)
         /\ \A e \in 1..E : found[e] = e <=> canon[e] = e
         /\ A!Root(found, t) = r[t] /\ A!Root(found, s) = r[s]
<1> DEFINE one == A!Find(canon, t)
           found == A!Find(one, s)
<1>1. Forest(one, rank) /\ Roots(one, r) /\ \A e \in 1..E : one[e] = e <=> canon[e] = e
  BY FindFacts
<1> HIDE DEF one
<1>2. Forest(found, rank) /\ Roots(found, r) /\ \A e \in 1..E : found[e] = e <=> one[e] = e
  BY <1>1, FindFacts
<1> HIDE DEF found
<1>3. A!Root(found, t) = r[t] /\ A!Root(found, s) = r[s]
  BY <1>2, WayFacts
<1> QED BY <1>1, <1>2, <1>3 DEF one, found

\* A turn that links nothing.
LEMMA TurnKeeps ==
  ASSUME AliasInv, model' = model, alias = "resolve", next <= Len(Copies(model)),
         alias' = alias, next' = next + 1, eliminated' = eliminated, store' = store,
         NEW rank, NEW r, Forest(canon, rank), Roots(canon, r), Merged(r),
         Forest(canon', rank), Roots(canon', r),
         \A e \in 1..E : canon'[e] = e <=> canon[e] = e,
         Copies(model)[next].src # NoSrc => Cyclic(next)
  PROVE  AliasInv'
<1>0. /\ IsNetlist(model) /\ next \in 1..(Len(Copies(model)) + 1) /\ OneDriver
      /\ eliminated \subseteq DOMAIN Copies(model)
  BY DEF AliasInv
<1>1. /\ IsNetlist(model)' /\ Copies(model)' = Copies(model) /\ (OneDriver' <=> OneDriver)
      /\ \A e \in 1..E : A!Copied(e)' = A!Copied(e)
      /\ \A k \in DOMAIN Copies(model) :
           Copies(model)[k].src # NoSrc => (Cyclic(k)' <=> Cyclic(k))
  BY SameModel
<1>2. \A k \in DOMAIN Copies(model) : (Seen(k) => Seen(k)') /\ (Seen(k)' => Seen(k) \/ k = next)
  <2> TAKE k \in DOMAIN Copies(model)
  <2>1. k \in Nat /\ next \in Nat
    BY <1>0, CopiesFacts
  <2> QED BY <2>1 DEF Seen
<1>3. \A k \in eliminated' : Linked(k, r)'
  <2> TAKE k \in eliminated'
  <2>1. Linked(k, r) /\ k \in DOMAIN Copies(model) /\ Copies(model)[k].target \in 1..E
    BY <1>0, CopiesFacts DEF Merged
  <2> QED BY <1>1, <1>2, <2>1 DEF Linked
<1>4. \A k \in DOMAIN Copies(model)' \ eliminated' :
        Seen(k)' /\ Copies(model)'[k].src # NoSrc => Cyclic(k)'
  BY <1>1, <1>2 DEF Merged
<1>5. \A e \in 1..E : canon'[e] # e => \E k \in eliminated' : Copies(model)'[k].target = e
  BY <1>1 DEF Merged
<1>6. \A e \in 1..E : r[e] \in A!Copied(e)'
  BY <1>1 DEF Merged
<1>7. \A e \in 1..E : Unbound(e)' \/ Bound(e, r)'
  <2> TAKE e \in 1..E
  <2>1. Unbound(e)
    BY DEF Merged, Bound, Redirected
  <2> QED BY <1>1, <2>1 DEF Unbound, Redirected
<1>8. Merged(r)'
  BY <1>1, <1>3, <1>4, <1>5, <1>6, <1>7 DEF Merged
<1>9. next' \in 1..(Len(Copies(model))' + 1)
  BY <1>0, <1>1, CopiesFacts
<1>10. /\ alias' \in {"check", "resolve", "bind", "done", "failed"} /\ (alias' # "check")
       /\ eliminated' \subseteq DOMAIN Copies(model)' /\ store' \in [1..E -> 1..E] /\ OneDriver'
  BY <1>0, <1>1 DEF AliasInv
<1> QED BY <1>1, <1>8, <1>9, <1>10 DEF AliasInv

\* A turn that hangs the target's tree under the root of the source.
Links(rank, r, found, s, t) ==
  /\ Forest(canon, rank) /\ Roots(canon, r) /\ Merged(r)
  /\ Forest(found, rank) /\ Roots(found, r)
  /\ \A e \in 1..E : found[e] = e <=> canon[e] = e
  /\ s \in 1..E /\ s = Copies(model)[next].src
  /\ t \in 1..E /\ t = Copies(model)[next].target
  /\ r[s] # t
  /\ canon' \in [1..E -> 1..E]
  /\ \A e \in 1..E : canon'[e] = IF e = t THEN r[s] ELSE found[e]

\* A turn that merges hangs the tree of the target under that of its source.
LEMMA TurnLinks ==
  ASSUME AliasInv, model' = model, alias = "resolve", next <= Len(Copies(model)),
         alias' = alias, next' = next + 1, eliminated' = eliminated \cup {next}, store' = store,
         NEW rank, NEW r, NEW found, NEW s, NEW t, Links(rank, r, found, s, t)
  PROVE  AliasInv'
<1> USE DEF Links
<1> DEFINE q == [e \in 1..E |-> IF r[e] = t THEN r[s] ELSE r[e]]
<1>0. /\ IsNetlist(model) /\ next \in 1..(Len(Copies(model)) + 1) /\ OneDriver
      /\ eliminated \subseteq DOMAIN Copies(model)
      /\ r \in [1..E -> 1..E] /\ r[s] \in 1..E /\ found \in [1..E -> 1..E]
  BY DEF AliasInv, Roots, Forest
<1>1. /\ IsNetlist(model)' /\ Copies(model)' = Copies(model) /\ (OneDriver' <=> OneDriver)
      /\ \A e \in 1..E : A!Copied(e)' = A!Copied(e)
      /\ \A k \in DOMAIN Copies(model) :
           Copies(model)[k].src # NoSrc => (Cyclic(k)' <=> Cyclic(k))
  BY SameModel
<1>2. /\ next \in DOMAIN Copies(model) /\ next \notin eliminated
      /\ canon[t] = t /\ r[t] = t /\ found[t] = t /\ found[r[s]] = r[s]
      /\ \A j \in eliminated : Copies(model)[j].target # t
  <2>1. /\ next \in DOMAIN Copies(model) /\ next \notin eliminated
        /\ canon[t] = t /\ r[t] = t /\ \A j \in eliminated : Copies(model)[j].target # t
    BY AtTurn
  <2> QED BY <2>1 DEF Roots
<1>3. (\E depth : Forest(canon', depth)) /\ Roots(canon', q)
  <2>1. q \in [1..E -> 1..E] /\ \A e \in 1..E : q[e] = IF r[e] = t THEN r[s] ELSE r[e]
    BY <1>0
  <2> HIDE DEF q
  <2>3. Hung(found, r, t, r[s], canon', q)
    BY <1>2, <2>1 DEF Hung
  <2> QED BY <1>0, <2>3, HangFacts
<1>4. \A k \in DOMAIN Copies(model) : (Seen(k) => Seen(k)') /\ (Seen(k)' => Seen(k) \/ k = next) /\ (k = next => Seen(k)')
  <2> TAKE k \in DOMAIN Copies(model)
  <2>1. k \in Nat /\ next \in Nat
    BY <1>0, CopiesFacts
  <2> QED BY <2>1 DEF Seen
<1>5. \A k \in eliminated' : Linked(k, q)'
  <2> TAKE k \in eliminated'
  <2>1. CASE k = next
    <3>1. q[t] = r[s] /\ q[s] = r[s] /\ canon'[t] # t
      BY <1>0, <1>2
    <3>2. s # NoSrc
      BY ElabAssumption
    <3> HIDE DEF q
    <3> QED BY <1>1, <1>2, <1>4, <2>1, <3>1, <3>2 DEF Linked
  <2>2. CASE k # next
    <3>0. k \in eliminated /\ k \in DOMAIN Copies(model) /\ Linked(k, r)
      BY <1>0, <2>2 DEF Merged
    <3>1. /\ Linked(k, r) /\ k \in DOMAIN Copies(model) /\ Copies(model)[k].target \in 1..E
          /\ Copies(model)[k].src \in 1..E /\ Copies(model)[k].target # t
      BY <1>0, <1>2, <3>0, CopiesFacts DEF Linked
    <3>2. q[Copies(model)[k].target] = q[Copies(model)[k].src]
      BY <3>1 DEF Linked
    <3>3. canon'[Copies(model)[k].target] # Copies(model)[k].target
      BY <1>0, <3>1 DEF Linked
    <3> HIDE DEF q
    <3> QED BY <1>1, <1>4, <3>1, <3>2, <3>3 DEF Linked
  <2> QED BY <2>1, <2>2
<1>6. \A k \in DOMAIN Copies(model)' \ eliminated' :
        Seen(k)' /\ Copies(model)'[k].src # NoSrc => Cyclic(k)'
  BY <1>1, <1>4 DEF Merged
<1>7. \A e \in 1..E : canon'[e] # e => \E k \in eliminated' : Copies(model)'[k].target = e
  <2> TAKE e \in 1..E
  <2>1. CASE e = t
    BY <1>1, <1>2, <2>1
  <2>2. CASE e # t
    BY <1>0, <1>1, <2>2 DEF Merged
  <2> QED BY <2>1, <2>2
<1>8. \A e \in 1..E : q[e] \in A!Copied(e)'
  <2> TAKE e \in 1..E
  <2>1. r[e] \in A!Copied(e) /\ r[s] \in A!Copied(s)
    BY DEF Merged
  <2>2. CASE r[e] = t
    <3>1. s \in A!Copied(e)
      <4>1. ClosedUnder(Copies(model), A!Copied(e))
        BY <1>0, CopiedFacts DEF IsCopied
      <4>2. s # NoSrc
        BY ElabAssumption
      <4> QED BY <1>2, <2>1, <2>2, <4>1, <4>2 DEF ClosedUnder
    <3>2. A!Copied(s) \subseteq A!Copied(e)
      BY <1>0, <3>1, CopiedChains
    <3> QED BY <1>1, <2>1, <2>2, <3>2
  <2>3. CASE r[e] # t
    BY <1>1, <2>1, <2>3
  <2> QED BY <2>2, <2>3
<1>9. \A e \in 1..E : Unbound(e)' \/ Bound(e, q)'
  <2> TAKE e \in 1..E
  <2>1. Unbound(e)
    BY DEF Merged, Bound, Redirected
  <2>2. Unbound(e)'
    BY <1>1, <2>1 DEF Unbound, Redirected
  <2> QED BY <2>2
<1> HIDE DEF q
<1>10. Merged(q)'
  BY <1>1, <1>5, <1>6, <1>7, <1>8, <1>9 DEF Merged
<1>11. next' \in 1..(Len(Copies(model))' + 1)
  BY <1>0, <1>1, CopiesFacts
<1>12. /\ alias' \in {"check", "resolve", "bind", "done", "failed"} /\ (alias' # "check")
       /\ eliminated' \subseteq DOMAIN Copies(model)' /\ store' \in [1..E -> 1..E] /\ OneDriver'
  BY <1>0, <1>1, <1>2 DEF AliasInv
<1> QED BY <1>1, <1>3, <1>10, <1>11, <1>12 DEF AliasInv

\* ... the turn of one copy, ...
LEMMA ResolveStep ==
  ASSUME AliasInv, model' = model, A!ResolveAlias
  PROVE  AliasInv'
<1>p. PICK t, s : t = Copies(model)[next].target /\ s = Copies(model)[next].src
  OBVIOUS
<1> DEFINE found == A!Find(A!Find(canon, t), s)
<1>0. /\ alias = "resolve" /\ next <= Len(Copies(model)) /\ alias' = alias
      /\ next' = next + 1 /\ store' = store
      /\ s = NoSrc => canon' = canon /\ eliminated' = eliminated
      /\ s # NoSrc =>
           IF A!Root(found, t) = A!Root(found, s)
           THEN canon' = found /\ eliminated' = eliminated
           ELSE /\ canon' = [found EXCEPT ![A!Root(found, t)] = A!Root(found, s)]
                /\ eliminated' = eliminated \cup {next}
  BY <1>p DEF A!ResolveAlias, A!Closes, A!Hang
<1>1. PICK rank, r : Forest(canon, rank) /\ Roots(canon, r) /\ Merged(r)
  BY DEF AliasInv
<1>2. t \in 1..E /\ r[t] = t /\ canon[t] = t /\ next \in DOMAIN Copies(model)
  BY <1>0, <1>1, <1>p, AtTurn
<1>3. CASE s = NoSrc
  <2> HIDE DEF found
  <2> QED BY <1>0, <1>1, <1>3, <1>p, TurnKeeps
<1>4. CASE s # NoSrc
  <2>1. s \in 1..E
    BY <1>2, <1>4, <1>p, CopiesFacts DEF AliasInv
  <2>2. /\ Forest(found, rank) /\ Roots(found, r)
        /\ \A e \in 1..E : found[e] = e <=> canon[e] = e
        /\ A!Root(found, t) = t /\ A!Root(found, s) = r[s]
    BY <1>1, <1>2, <2>1, SourceTrees
  <2> HIDE DEF found
  <2>3. CASE r[s] = t
    <3>1. canon' = found /\ eliminated' = eliminated
      BY <1>0, <1>4, <2>2, <2>3
    <3>2. Cyclic(next)
      BY <1>1, <1>p, <2>1, <2>3 DEF Merged, Cyclic
    <3> QED BY <1>0, <1>1, <1>p, <2>2, <3>1, <3>2, TurnKeeps
  <2>4. CASE r[s] # t
    <3>1. canon' = [found EXCEPT ![t] = r[s]] /\ eliminated' = eliminated \cup {next}
      BY <1>0, <1>4, <2>2, <2>4
    <3>2. /\ canon' \in [1..E -> 1..E]
          /\ \A e \in 1..E : canon'[e] = IF e = t THEN r[s] ELSE found[e]
      BY <1>1, <1>2, <2>1, <2>2, <3>1 DEF Forest, Roots
    <3>3. PICK f : f = found
      OBVIOUS
    <3>4. Links(rank, r, f, s, t)
      BY <1>1, <1>2, <1>p, <2>1, <2>2, <2>4, <3>2, <3>3 DEF Links
    <3> QED BY <1>0, <3>1, <3>4, TurnLinks
  <2> QED BY <2>3, <2>4
<1> QED BY <1>3, <1>4

\* The second loop: an eliminated target is redirected to its root, whose own storage
\* no turn touches.
LEMMA BindStep ==
  ASSUME AliasInv, model' = model, A!BindStorage
  PROVE  AliasInv'
<1>p. PICK t : t = Copies(model)[next].target
  OBVIOUS
<1> DEFINE found == A!Find(canon, t)
<1>0. /\ alias = "bind" /\ next <= Len(Copies(model)) /\ alias' = alias
      /\ next' = next + 1 /\ eliminated' = eliminated
      /\ next \notin eliminated => canon' = canon /\ store' = store
      /\ next \in eliminated =>
           canon' = found /\ store' = [store EXCEPT ![t] = store[found[t]]]
  BY <1>p DEF A!BindStorage
<1>a. /\ IsNetlist(model) /\ next \in 1..(Len(Copies(model)) + 1) /\ OneDriver
      /\ eliminated \subseteq DOMAIN Copies(model) /\ store \in [1..E -> 1..E]
  BY <1>0 DEF AliasInv
<1>b. next \in DOMAIN Copies(model) /\ t \in 1..E
  BY <1>0, <1>a, <1>p, CopiesFacts
<1>1. PICK rank, r : Forest(canon, rank) /\ Roots(canon, r) /\ Merged(r)
  BY DEF AliasInv
<1>2. /\ IsNetlist(model)' /\ Copies(model)' = Copies(model) /\ (OneDriver' <=> OneDriver)
      /\ \A e \in 1..E : A!Copied(e)' = A!Copied(e)
      /\ \A k \in DOMAIN Copies(model) :
           Copies(model)[k].src # NoSrc => (Cyclic(k)' <=> Cyclic(k))
  BY SameModel
<1>3. \A k \in DOMAIN Copies(model) :
        /\ Seen(k) /\ Seen(k)' /\ (Redirected(k) => Redirected(k)')
        /\ (Redirected(k)' => Redirected(k) \/ k = next) /\ (k = next => Redirected(k)')
  <2> TAKE k \in DOMAIN Copies(model)
  <2>1. k \in Nat /\ next \in Nat
    BY <1>a, CopiesFacts
  <2> QED BY <1>0, <2>1 DEF Seen, Redirected
<1>4. /\ Forest(canon', rank) /\ Roots(canon', r)
      /\ \A e \in 1..E : (canon'[e] = e <=> canon[e] = e) /\ canon'[e] \in {canon[e], r[e]}
      /\ next \in eliminated => canon'[t] = r[t]
  <2>1. CASE next \notin eliminated
    <3> HIDE DEF found
    <3> QED BY <1>0, <1>1, <2>1
  <2>2. CASE next \in eliminated
    <3>1. /\ Forest(found, rank) /\ Roots(found, r) /\ found[t] = r[t]
          /\ \A e \in 1..E : (found[e] = e <=> canon[e] = e) /\ found[e] \in {canon[e], r[e]}
      BY <1>1, <1>b, FindFacts
    <3>2. canon' = found
      BY <1>0, <2>2
    <3> HIDE DEF found
    <3> QED BY <3>1, <3>2
  <2> QED BY <2>1, <2>2
<1>5. /\ store' \in [1..E -> 1..E]
      /\ \A e \in 1..E : store'[e] = IF next \in eliminated /\ e = t THEN r[t] ELSE store[e]
  <2>1. CASE next \notin eliminated
    BY <1>0, <1>a, <2>1
  <2>2. CASE next \in eliminated
    <3>1. r[t] \in 1..E /\ canon[r[t]] = r[t]
      BY <1>1, <1>b DEF Roots
    <3>2. ~Bound(r[t], r)
      BY <1>1, <3>1 DEF Bound, Merged, Linked
    <3>3. store[r[t]] = r[t]
      BY <1>1, <3>1, <3>2 DEF Merged, Unbound
    <3>4. canon' = found /\ found[t] = r[t] /\ store' = [store EXCEPT ![t] = store[found[t]]]
      BY <1>0, <1>4, <2>2
    <3>5. store' = [store EXCEPT ![t] = r[t]]
      BY <3>3, <3>4
    <3> HIDE DEF found
    <3> QED BY <1>a, <1>b, <2>2, <3>1, <3>5
  <2> QED BY <2>1, <2>2
<1> HIDE DEF found
<1>6. \A k \in eliminated' : Linked(k, r)'
  <2> TAKE k \in eliminated'
  <2>1. Linked(k, r) /\ k \in DOMAIN Copies(model) /\ Copies(model)[k].target \in 1..E
    BY <1>0, <1>1, <1>a, CopiesFacts DEF Merged
  <2> QED BY <1>2, <1>3, <1>4, <2>1 DEF Linked
<1>7. \A k \in DOMAIN Copies(model)' \ eliminated' :
        Seen(k)' /\ Copies(model)'[k].src # NoSrc => Cyclic(k)'
  BY <1>0, <1>1, <1>2, <1>3 DEF Merged
<1>8. \A e \in 1..E : canon'[e] # e => \E k \in eliminated' : Copies(model)'[k].target = e
  BY <1>0, <1>1, <1>2, <1>4 DEF Merged
<1>9. \A e \in 1..E : r[e] \in A!Copied(e)'
  BY <1>1, <1>2 DEF Merged
<1>10. \A e \in 1..E : Unbound(e)' \/ Bound(e, r)'
  <2> TAKE e \in 1..E
  <2>1. CASE next \in eliminated /\ e = t
    <3>1. store'[e] = r[e] /\ canon'[e] = r[e]
      BY <1>4, <1>5, <2>1
    <3>2. PICK k \in eliminated : k = next
      BY <2>1
    <3>3. Redirected(k)'
      BY <1>3, <1>b, <3>2
    <3> QED BY <1>0, <1>2, <1>p, <2>1, <3>1, <3>2, <3>3 DEF Bound
  <2>2. CASE ~(next \in eliminated /\ e = t)
    <3>1. store'[e] = store[e]
      BY <1>5, <2>2
    <3>2. CASE Unbound(e)
      <4>1. \A k \in eliminated : Copies(model)[k].target = e => ~Redirected(k)'
        BY <1>3, <1>a, <1>p, <2>2, <3>2 DEF Unbound
      <4>2. store'[e] = e
        BY <3>1, <3>2 DEF Unbound
      <4>3. Unbound(e)'
        BY <1>0, <1>2, <4>1, <4>2 DEF Unbound
      <4> QED BY <4>3
    <3>3. CASE Bound(e, r)
      <4>1. store'[e] = r[e] /\ canon'[e] = r[e]
        BY <1>4, <3>1, <3>3 DEF Bound
      <4>2. \E k \in eliminated : Copies(model)[k].target = e /\ Redirected(k)'
        BY <1>3, <1>a, <3>3 DEF Bound
      <4>3. Bound(e, r)'
        BY <1>0, <1>2, <4>1, <4>2 DEF Bound
      <4> QED BY <4>3
    <3> QED BY <1>1, <3>2, <3>3 DEF Merged
  <2> QED BY <2>1, <2>2
<1>11. Merged(r)'
  BY <1>2, <1>6, <1>7, <1>8, <1>9, <1>10 DEF Merged
<1>12. next' \in 1..(Len(Copies(model))' + 1)
  BY <1>0, <1>a, <1>2, CopiesFacts
<1>13. /\ alias' \in {"check", "resolve", "bind", "done", "failed"} /\ (alias' # "check")
       /\ eliminated' \subseteq DOMAIN Copies(model)' /\ OneDriver'
  BY <1>0, <1>a, <1>2
<1> QED BY <1>2, <1>4, <1>5, <1>11, <1>12, <1>13 DEF AliasInv

\* Once the loops are over nothing the invariant is about changes any more.
LEMMA AliasStays ==
  ASSUME AliasInv, IsNetlist(model)', Copies(model)' = Copies(model), UNCHANGED avars
  PROVE  AliasInv'
<1>0. /\ alias' = alias /\ next' = next /\ canon' = canon /\ eliminated' = eliminated
      /\ store' = store
  BY DEF avars
<1>1. \A e \in 1..E : A!Copied(e)' = A!Copied(e)
  BY CopiedSame DEF AliasInv
<1>2. PICK rank, r : Forest(canon, rank) /\ Roots(canon, r) /\ Merged(r)
  BY DEF AliasInv
<1>3. \A k : (Seen(k)' <=> Seen(k)) /\ (Redirected(k)' <=> Redirected(k)) /\ (Linked(k, r)' <=> Linked(k, r))
  BY <1>0 DEF Seen, Redirected, Linked
<1>4. \A e : (Unbound(e)' <=> Unbound(e)) /\ (Bound(e, r)' <=> Bound(e, r))
  BY <1>0, <1>3 DEF Unbound, Bound
<1>5. \A k \in DOMAIN Copies(model) :
        Copies(model)[k].src # NoSrc => (Cyclic(k)' <=> Cyclic(k))
  BY <1>1, CopiesFacts DEF Cyclic, AliasInv
<1>6. Merged(r)'
  <2>1. \A e \in 1..E : r[e] \in A!Copied(e)'
    BY <1>1, <1>2 DEF Merged
  <2> QED BY <1>0, <1>2, <1>3, <1>4, <1>5, <2>1 DEF Merged
<1>7. OneDriver' <=> OneDriver
  BY DEF OneDriver
<1> QED BY <1>0, <1>2, <1>6, <1>7 DEF AliasInv

-----------------------------------------------------------------------------
(***************************************************************************)
(* The hand-over to buildExecOrder(), and elaboration as a whole.          *)
(***************************************************************************)

\* The graph is built with the canon map and without the eliminated actions.
Handed ==
  /\ alias = "done" /\ model.canon = canon
  /\ \A a \in Acts(model) : Gone(model, a) <=> \E k \in eliminated : AssignAt(model, k) = a

\* It is built for the same actions, with the same Assigns among them.
LEMMA HandedOver ==
  ASSUME AliasInv, HandOver
  PROVE  /\ IsNetlist(model)' /\ Copies(model)' = Copies(model) /\ Nodes(model)' = Nodes(model)
         /\ phase' = "graph" => Handed'
<1>0. alias' = alias /\ canon' = canon /\ eliminated' = eliminated
  BY DEF HandOver, avars
<1>1. CASE model' = model /\ phase' = "rejected"
  BY <1>1 DEF AliasInv
<1>2. CASE alias = "done" /\ model' = [model EXCEPT
             !.canon = canon,
             !.act = [a \in Acts(model) |->
               [@[a] EXCEPT !.gone = \E k \in eliminated : AssignAt(model, k) = a]]]
  <2>0. /\ IsNetlist(model) /\ canon \in [1..E -> 1..E]
        /\ model \in [canon : [1..E -> 1..E], act : [Acts(model) -> FlatAction]]
    BY DEF AliasInv, IsNetlist, Forest
  <2> DEFINE gone(a) == \E k \in eliminated : AssignAt(model, k) = a
             acts == [a \in Acts(model) |-> [model.act[a] EXCEPT !.gone = gone(a)]]
  <2>1. model' = [canon |-> canon, act |-> acts]
    BY <1>2, <2>0
  <2> HIDE DEF gone
  <2>2. \A a \in Acts(model) :
          /\ acts[a] \in FlatAction /\ acts[a].target = model.act[a].target
          /\ acts[a].src = model.act[a].src /\ acts[a].assign = model.act[a].assign
          /\ acts[a].gone = gone(a)
    <3> TAKE a \in Acts(model)
    <3>1. model.act[a] \in FlatAction /\ gone(a) \in BOOLEAN
      BY <2>0 DEF gone
    <3> QED BY <3>1 DEF FlatAction
  <2>3. DOMAIN acts = Acts(model) /\ acts \in [Acts(model) -> FlatAction]
    BY <2>2
  <2> HIDE DEF acts
  <2>4. Acts(model') = Acts(model) /\ Nodes(model') = Nodes(model)
    BY <2>1, <2>3 DEF Acts, Nodes
  <2>5. model'.act = acts /\ model'.canon = canon
    BY <2>1
  <2>6. IsNetlist(model')
    <3>1. model' \in [canon : [1..E -> 1..E], act : [Acts(model') -> FlatAction]]
      BY <2>0, <2>1, <2>3, <2>4
    <3>2. IsModel(model')
      BY <2>0, <2>2, <2>4, <2>5 DEF IsModel, IsNetlist, FlatAction
    <3>3. \A a \in Acts(model') : model'.act[a].assign <=> model'.act[a].target \notin State
      BY <2>0, <2>2, <2>4, <2>5 DEF IsNetlist
    <3> QED BY <3>1, <3>2, <3>3 DEF IsNetlist
  <2>7. Assigns(model') = Assigns(model)
    BY <2>2, <2>4, <2>5 DEF Assigns
  <2>8. \A k : AssignAt(model', k) = AssignAt(model, k)
    BY <2>7, Zenon DEF AssignAt
  <2>9. Copies(model') = Copies(model)
    <3>1. \A k \in 1..Cardinality(Assigns(model)) : AssignAt(model, k) \in Acts(model)
      BY <2>0, AssignsFound DEF IsNetlist, Assigns
    <3>2. \A k \in 1..Cardinality(Assigns(model)) :
            /\ model'.act[AssignAt(model, k)].target = model.act[AssignAt(model, k)].target
            /\ model'.act[AssignAt(model, k)].src = model.act[AssignAt(model, k)].src
      BY <2>2, <2>5, <3>1
    <3> QED BY <2>7, <2>8, <3>2 DEF Copies
  <2>10. Handed'
    <3>1. \A a \in Acts(model') : Gone(model', a) <=> gone(a)
      BY <2>2, <2>4, <2>5 DEF Gone
    <3> QED BY <1>0, <1>2, <2>5, <2>8, <3>1 DEF Handed, gone
  <2> QED BY <2>4, <2>6, <2>9, <2>10
<1> QED BY <1>1, <1>2 DEF HandOver

\* Nothing handed over changes afterwards.
LEMMA HandedStays ==
  ASSUME Handed, model' = model, UNCHANGED avars
  PROVE  Handed'
BY DEF Handed, avars

\* What is handed over is a model the order can be built on.
LEMMA OrderAfresh ==
  (IsModel(model) /\ phase = "graph" /\ OrderOn(model))' => BuildInv'
<1>1. IsModel(model) /\ phase = "graph" /\ OrderOn(model) => BuildInv
  BY OrderStart
<1> QED BY <1>1, PTL

ElabInv ==
  /\ AliasInv
  /\ phase \in {"aliases", "rejected"} => OrderOn(model)
  /\ phase \notin {"aliases", "rejected"} => BuildInv /\ Handed

\* The invariant of elaboration holds at the start, ...
LEMMA ElabStart ==
  ASSUME IsNetlist(model), ElabOn(model)
  PROVE  ElabInv
<1>0. /\ phase = "aliases" /\ OrderOn(model) /\ alias = "check" /\ next = 1
      /\ canon = [e \in 1..E |-> e] /\ eliminated = {} /\ store = [e \in 1..E |-> e]
  BY AllEntities DEF ElabOn, A!AliasOn
<1> DEFINE rank == [e \in 1..E |-> 0]
           r == [e \in 1..E |-> e]
<1>1. Forest(canon, rank) /\ Roots(canon, r)
  BY <1>0 DEF Forest, Roots
<1>2. Merged(r)
  <2>1. \A e \in 1..E : r[e] \in A!Copied(e)
    BY CopiedFacts DEF IsCopied
  <2> QED BY <1>0, <2>1 DEF Merged, Seen, Unbound
<1> HIDE DEF rank, r
<1>3. next \in 1..(Len(Copies(model)) + 1)
  BY <1>0, CopiesFacts
<1> QED BY <1>0, <1>1, <1>2, <1>3 DEF ElabInv, AliasInv

\* Aliasing leaves the fresh start of the order alone.
LEMMA SameOrderOn ==
  ASSUME OrderOn(model), UNCHANGED <<tvars, svars, execOrder, topoAt>>, Nodes(model)' = Nodes(model)
  PROVE  OrderOn(model)'
<1>1. /\ adj' = adj /\ comps' = comps /\ calls' = calls /\ index' = index
      /\ low' = low /\ onStack' = onStack /\ stack' = stack /\ nextIndex' = nextIndex
      /\ dag' = dag /\ emitted' = emitted /\ topo' = topo /\ step' = step /\ lastTag' = lastTag
      /\ freeNodes' = freeNodes /\ byTag' = byTag /\ seq' = seq /\ indeg' = indeg /\ todo' = todo
      /\ execOrder' = execOrder /\ topoAt' = topoAt
  BY DEF tvars, svars, queues
<1>2. PICK bare : bare = [v \in Nodes(model) |-> {}]
  OBVIOUS
<1>3. TarjanOn(bare) /\ StartOn(NoDag) /\ execOrder = <<>> /\ topoAt = 1
  BY <1>2 DEF OrderOn
<1>4. TarjanOn(bare)'
  BY <1>1, <1>3 DEF TarjanOn, Node
<1>5. StartOn(NoDag)'
  BY <1>1, <1>3 DEF StartOn, NoDag
<1>6. bare = [v \in Nodes(model)' |-> {}]
  BY <1>2
<1> QED BY <1>1, <1>3, <1>4, <1>5, <1>6 DEF OrderOn

\* ... every step keeps it, ...
LEMMA ElabKeeps == ElabInv /\ [Elaborate]_vars => ElabInv'
<1> SUFFICES ASSUME ElabInv, [Elaborate]_vars PROVE ElabInv'
  OBVIOUS
<1>0. AliasInv /\ IsNetlist(model)
  BY DEF ElabInv, AliasInv
<1>1. CASE ResolveAliases
  <2>1. phase = "aliases" /\ OrderOn(model) /\ UNCHANGED xvars
    BY <1>1 DEF ResolveAliases, ElabInv
  <2>2. model' = model /\ phase' = phase /\ UNCHANGED <<tvars, svars, execOrder, topoAt>>
    BY <2>1 DEF xvars, ovars
  <2>3. AliasInv'
    BY <1>0, <1>1, <2>2, CheckStep, ResolveStep, BindStep, LoopEndStep
       DEF ResolveAliases, A!ResolveAliases
  <2>4. OrderOn(model)'
    BY <2>1, <2>2, SameOrderOn
  <2> QED BY <2>1, <2>2, <2>3, <2>4 DEF ElabInv
<1>2. CASE HandOver
  <2>1. /\ phase = "aliases" /\ OrderOn(model) /\ phase' \in {"rejected", "graph"}
        /\ UNCHANGED avars /\ UNCHANGED <<tvars, svars, execOrder, topoAt>>
    BY <1>2 DEF HandOver, ElabInv
  <2>2. IsNetlist(model)' /\ Copies(model)' = Copies(model) /\ Nodes(model)' = Nodes(model)
    BY <1>0, <1>2, HandedOver
  <2>3. AliasInv'
    BY <1>0, <2>1, <2>2, AliasStays
  <2>4. OrderOn(model)'
    BY <2>1, <2>2, SameOrderOn
  <2>5. phase' = "graph" => BuildInv' /\ Handed'
    <3>1. phase' = "graph" => BuildInv'
      BY <2>2, <2>4, OrderAfresh DEF IsNetlist
    <3>2. phase' = "graph" => Handed'
      BY <1>0, <1>2, HandedOver
    <3> QED BY <3>1, <3>2
  <2> QED BY <2>1, <2>3, <2>4, <2>5 DEF ElabInv
<1>3. CASE BuildExecOrder /\ UNCHANGED avars
  <2>1. phase \in {"graph", "scc", "schedule"} /\ model' = model
    BY <1>3 DEF BuildExecOrder, BuildGraph, RunTarjan, Condense, RunScheduler, BuildItem,
                EndOrder, ovars
  <2>2. BuildInv'
    BY <1>3, <2>1, BuildKeeps DEF ElabInv
  <2>3. AliasInv'
    BY <1>0, <1>3, <2>1, AliasStays
  <2>4. phase' \notin {"aliases", "rejected"}
    BY <2>2 DEF BuildInv, StagesInv
  <2>5. Handed'
    BY <1>3, <2>1, HandedStays DEF ElabInv
  <2> QED BY <2>2, <2>3, <2>4, <2>5 DEF ElabInv
<1>4. CASE UNCHANGED vars
  <2>1. UNCHANGED avars /\ UNCHANGED xvars
    BY <1>4 DEF vars
  <2>2. model' = model /\ phase' = phase /\ UNCHANGED <<tvars, svars, execOrder, topoAt>>
    BY <2>1 DEF xvars, ovars
  <2>3. AliasInv'
    BY <1>0, <2>1, <2>2, AliasStays
  <2>4. phase \in {"aliases", "rejected"} => OrderOn(model)'
    BY <2>2, SameOrderOn DEF ElabInv
  <2>5. phase \notin {"aliases", "rejected"} => BuildInv' /\ Handed'
    BY <2>1, <2>2, BuildKeeps, HandedStays DEF ElabInv
  <2> QED BY <2>2, <2>3, <2>4, <2>5 DEF ElabInv
<1> QED BY <1>1, <1>2, <1>3, <1>4 DEF Elaborate

\* ... so it holds always.
LEMMA ElabAlways == ElabSpec => []ElabInv
BY ElabStart, ElabKeeps, PTL DEF ElabSpec

-----------------------------------------------------------------------------
\* State and root inputs keep their own storage.
LEMMA OwnStorage ==
  ASSUME AliasInv
  PROVE  A!AliasTypeOK
<1>1. PICK rank, r : Forest(canon, rank) /\ Roots(canon, r) /\ Merged(r)
  BY DEF AliasInv
<1>2. ASSUME NEW e \in State \cup RootIn PROVE canon[e] = e /\ store[e] = e
  <2>1. e \in 1..E
    BY ElabAssumption
  <2>2. ASSUME NEW k \in eliminated PROVE Copies(model)[k].target # e
    <3>1. k \in DOMAIN Copies(model) /\ alias \notin {"check", "failed"}
      BY <1>1, <2>2 DEF AliasInv, Merged, Linked, Seen
    <3> QED BY <3>1, CopiesFacts DEF AliasInv, OneDriver
  <2> QED BY <1>1, <2>1, <2>2 DEF Merged, Unbound, Bound
<1>3. canon \in [1..E -> 1..E]
  BY <1>1 DEF Forest
<1> QED BY <1>2, <1>3, AllEntities DEF A!AliasTypeOK, AliasInv

\* After the two loops one look-up is enough, and storage is bound accordingly.
LEMMA OneLookUp ==
  ASSUME AliasInv, alias = "done", NEW e \in 1..E
  PROVE  canon[canon[e]] = canon[e] /\ store[e] = canon[e]
<1>1. PICK rank, r : Forest(canon, rank) /\ Roots(canon, r) /\ Merged(r)
  BY DEF AliasInv
<1>2. CASE canon[e] = e
  <2>1. ~Bound(e, r)
    BY <1>1, <1>2 DEF Bound, Merged, Linked
  <2> QED BY <1>1, <1>2, <2>1 DEF Merged, Unbound
<1>3. CASE canon[e] # e
  <2>1. PICK k \in eliminated : Copies(model)[k].target = e
    BY <1>1, <1>3 DEF Merged
  <2>2. Bound(e, r)
    BY <1>1, <2>1 DEF Merged, Unbound, Redirected
  <2> QED BY <1>1, <2>2 DEF Bound, Roots
<1> QED BY <1>2, <1>3

\* The scheduler is done on the final components only.
LEMMA BuiltOnSccs ==
  ASSUME BuildInv, step = "done"
  PROVE  TarjanDone
BY DEF BuildInv, StagesInv

\* The items list actions of the model, at least one each.
LEMMA ItemsTyped ==
  ASSUME BuildInv, NEW p \in DOMAIN execOrder
  PROVE  execOrder[p].acts \in Seq(Acts(model)) \ {<<>>}
<1>1. step = "done"
  BY DEF BuildInv, ItemsInv
<1>2. PICK at : Placing(at)
  BY DEF BuildInv, ItemsInv
<1>3. PICK c \in DOMAIN comps : ~EmitsNothing(c) /\ execOrder[p] = ItemOf(c)
  BY <1>1, <1>2, ItemAt
<1> DEFINE S == comps[c] \ Signals(c)
<1>4. /\ comps[c] \subseteq Nodes(model) /\ IsFiniteSet(comps[c]) /\ IsModel(model)
  BY <1>1, CompFacts, Scheduled DEF BuildInv
<1>5. S \in SUBSET Int /\ IsFiniteSet(S) /\ S \subseteq Acts(model)
  <2>1. S \in SUBSET comps[c]
    OBVIOUS
  <2>2. comps[c] \subseteq Int
    BY <1>4, GraphIsOne
  <2>3. S \subseteq Acts(model)
    BY <1>4, GraphIsOne DEF Signals
  <2> QED BY <1>4, <2>1, <2>2, <2>3, FS_Subset
<1>6. execOrder[p].acts = Ascending(S)
  BY <1>3 DEF ItemOf
<1> HIDE DEF S
<1>7. /\ Cardinality(S) \in Nat /\ DOMAIN Ascending(S) = 1..Cardinality(S)
      /\ \A k \in DOMAIN Ascending(S) : Ascending(S)[k] \in S
      /\ \A x \in S : \E k \in DOMAIN Ascending(S) : Ascending(S)[k] = x
  BY <1>5, AscendingLists
<1>8. Ascending(S) \in [1..Cardinality(S) -> Acts(model)]
  <2> DEFINE placed == [k \in 1..Cardinality(S) |->
                         CHOOSE x \in S : Cardinality({y \in S : y < x}) = k - 1]
  <2>1. Ascending(S) = [k \in 1..Cardinality(S) |-> placed[k]]
    BY Zenon DEF Ascending
  <2> HIDE DEF placed
  <2>2. Ascending(S) = [k \in 1..Cardinality(S) |-> Ascending(S)[k]]
    BY <2>1
  <2> QED BY <1>5, <1>7, <2>2
<1>9. Ascending(S) \in Seq(Acts(model))
  BY <1>7, <1>8, IsASeq
<1>10. \E x : x \in S
  <2>1. CASE NonTrivial(c)
    <3> SUFFICES ASSUME \A x \in comps[c] : IsEntity(x) PROVE FALSE
      BY DEF S, Signals
    <3>1. Only(c) \in comps[c] /\ adj = Graph(model) /\ SccsExact /\ TarjanDone
      BY <1>1, CompFacts, SccsFollow, Scheduled, BuiltOnSccs DEF BuildInv, GraphInv
    <3>2. adj[Only(c)] \cap comps[c] = {}
      <4>1. adj[Only(c)] \subseteq Acts(model)
        BY <1>4, <3>1 DEF Graph, LeadsTo
      <4> QED BY <1>4, <4>1, GraphIsOne
    <3>3. {Only(c)} = comps[c]
      <4>1. {Only(c)} \in (SUBSET comps[c]) \ {{}}
        BY <3>1
      <4>2. \A v \in {Only(c)} : adj[v] \cap comps[c] \subseteq {Only(c)}
        BY <3>2
      <4> QED BY <3>1, <4>1, <4>2 DEF SccsExact
    <3>4. Cardinality(comps[c]) = 1
      BY <3>3, FS_Singleton
    <3> QED BY <2>1, <3>1, <3>2, <3>4 DEF NonTrivial
  <2>2. CASE ~NonTrivial(c)
    <3>1. ~IsEntity(Only(c)) /\ Only(c) \in comps[c]
      BY <1>3, <2>2, CompFacts DEF EmitsNothing, BuildInv
    <3> QED BY <3>1 DEF S, Signals
  <2> QED BY <2>1, <2>2
<1>11. Ascending(S) # <<>>
  BY <1>7, <1>10
<1> QED BY <1>6, <1>9, <1>11

\* So the types of ExecOrder hold whenever it runs.
LEMMA BuildTyped ==
  ASSUME BuildInv
  PROVE  OrderTypeOK
<1>1. /\ IsModel(model) /\ phase \in {"graph", "scc", "schedule", "done", "failed"}
      /\ topoAt \in 1..(Len(topo) + 1) /\ SchedTypeOK
  BY DEF BuildInv, StagesInv, ItemsInv, SchedInv
<1> QED BY <1>1, ItemsTyped DEF OrderTypeOK

\* On every flat model, the types of all stages of elaboration hold, and state and root
\* inputs keep a storage of their own throughout.
THEOREM ElaborationTyped == ElabSpec => []TypeOK
<1>1. ASSUME ElabInv PROVE TypeOK
  <2>1. AliasInv /\ IsNetlist(model) /\ IsModel(model)
    BY <1>1 DEF ElabInv, AliasInv, IsNetlist
  <2>2. CASE phase \in {"aliases", "rejected"}
    <3>1. OrderOn(model)
      BY <1>1, <2>2 DEF ElabInv
    <3>2. SchedInv
      <4>1. dag = NoDag /\ StartOn(NoDag)
        BY <3>1 DEF OrderOn, StartOn
      <4> QED BY <4>1, NothingIsADag, StartInv
    <3>3. execOrder = <<>> /\ topoAt = 1 /\ topo = <<>>
      BY <3>1 DEF OrderOn, StartOn
    <3> QED BY <2>1, <2>2, <3>2, <3>3, OwnStorage DEF TypeOK, OrderTypeOK, SchedInv
  <2>3. CASE phase \notin {"aliases", "rejected"}
    BY <1>1, <2>1, <2>3, OwnStorage, BuildTyped DEF TypeOK, ElabInv
  <2> QED BY <2>2, <2>3
<1> QED BY <1>1, ElabAlways, PTL

\* After elaboration, one look-up in canon leads from any entity to its cell, and so
\* does its bound storage: whatever chains and cycles of copies there were.
THEOREM LookUpsAreShort == ElabSpec => []Compressed
<1>1. AliasInv => A!Compressed
  BY OneLookUp, AllEntities DEF A!Compressed
<1>2. ElabInv => Compressed
  BY <1>1 DEF ElabInv, Compressed
<1> QED BY <1>2, ElabAlways, PTL

\* After elaboration every cell has exactly one Assign that drives it, registered for
\* the entity the cell is of; root inputs and state have none.
THEOREM CellsStayDriven == ElabSpec => []StillDriven
<1>1. ASSUME AliasInv, alias = "done", NEW e \in 1..E,
             NEW kept, kept = {k \in DOMAIN Copies(model) \ eliminated :
                                 canon[Copies(model)[k].target] = e}
      PROVE  /\ Cardinality(kept) = IF canon[e] # e \/ e \in State \cup RootIn THEN 0 ELSE 1
             /\ \A k \in kept : Copies(model)[k].target = e
  <2>1. PICK rank, r : Forest(canon, rank) /\ Roots(canon, r) /\ Merged(r)
    BY <1>1 DEF AliasInv
  <2>2. /\ OneDriver /\ eliminated \subseteq DOMAIN Copies(model)
        /\ \A k \in DOMAIN Copies(model) : Copies(model)[k].target \in (1..E) \ State
    BY <1>1, CopiesFacts DEF AliasInv
  <2>3. ASSUME NEW k \in kept
        PROVE  Copies(model)[k].target = e /\ canon[e] = e
    <3>1. k \in DOMAIN Copies(model) /\ k \notin eliminated /\ canon[Copies(model)[k].target] = e
      BY <1>1
    <3>2. canon[Copies(model)[k].target] = Copies(model)[k].target
      BY <2>1, <2>2, <3>1 DEF Merged, OneDriver
    <3> QED BY <3>1, <3>2
  <2>4. CASE canon[e] # e \/ e \in State \cup RootIn
    <3>1. kept = {}
      <4> SUFFICES ASSUME NEW k \in kept PROVE FALSE
        OBVIOUS
      <4>1. k \in DOMAIN Copies(model) /\ Copies(model)[k].target = e
        BY <1>1, <2>3
      <4> QED BY <2>2, <2>3, <2>4, <4>1 DEF OneDriver
    <3> QED BY <2>3, <2>4, <3>1, FS_EmptySet
  <2>5. CASE ~(canon[e] # e \/ e \in State \cup RootIn)
    <3>1. PICK k \in DOMAIN Copies(model) : Copies(model)[k].target = e
      BY <2>2, <2>5 DEF OneDriver
    <3>2. k \notin eliminated
      BY <2>1, <2>5, <3>1 DEF Merged, Linked
    <3>3. kept = {k}
      BY <1>1, <2>2, <2>3, <2>5, <3>1, <3>2 DEF OneDriver
    <3> QED BY <2>3, <2>5, <3>3, FS_Singleton
  <2> QED BY <2>4, <2>5
<1>2. AliasInv => A!StillDriven
  BY <1>1, AllEntities, OneCardinality DEF A!StillDriven
<1>3. ElabInv => StillDriven
  BY <1>2 DEF ElabInv, StillDriven
<1> QED BY <1>3, ElabAlways, PTL

\* Entities share a cell only along identity copies, and the cell is that of a source.
THEOREM MergesFollowCopies == ElabSpec => []FollowsSources
<1>1. ASSUME AliasInv, alias = "done"
      PROVE  /\ \A e \in 1..E : canon[e] \in A!Copied(e)
             /\ \A k \in eliminated :
                  canon[Copies(model)[k].target] = canon[Copies(model)[k].src]
  <2>1. PICK rank, r : Forest(canon, rank) /\ Roots(canon, r) /\ Merged(r)
    BY <1>1 DEF AliasInv
  <2>2. ASSUME NEW e \in 1..E PROVE canon[e] = r[e]
    <3>1. CASE canon[e] = e
      BY <2>1, <3>1 DEF Roots
    <3>2. CASE canon[e] # e
      <4>1. PICK k \in eliminated : Copies(model)[k].target = e
        BY <2>1, <3>2 DEF Merged
      <4> QED BY <1>1, <2>1, <4>1 DEF Merged, Unbound, Redirected, Bound
    <3> QED BY <3>1, <3>2
  <2>3. \A k \in eliminated : /\ Copies(model)[k].target \in 1..E
                              /\ Copies(model)[k].src \in 1..E
                              /\ r[Copies(model)[k].target] = r[Copies(model)[k].src]
    BY <1>1, <2>1, CopiesFacts DEF AliasInv, Merged, Linked
  <2> QED BY <2>1, <2>2, <2>3 DEF Merged
<1>2. AliasInv => A!FollowsSources
  BY <1>1, AllEntities DEF A!FollowsSources
<1>3. ElabInv => FollowsSources
  BY <1>2 DEF ElabInv, FollowsSources
<1> QED BY <1>3, ElabAlways, PTL

\* An identity copy survives only to close a cycle of copies.
THEOREM OnlyCyclesSurvive == ElabSpec => []OnlyCyclesKept
<1>1. AliasInv => A!OnlyCyclesKept
  BY DEF AliasInv, Merged, Seen, Cyclic, A!OnlyCyclesKept
<1>2. ElabInv => OnlyCyclesKept
  BY <1>1 DEF ElabInv, OnlyCyclesKept
<1> QED BY <1>2, ElabAlways, PTL

\* The order elaboration builds after aliasing has what the theorems of ExecOrderProofs
\* say: all actions left are placed once, producers before consumers but in a group,
\* the groups are the cycles over the merged cells, and a cycle is refused only for a
\* value that cannot be compared; the scheduler never runs out.
THEOREM ElaboratedOrder ==
  ElabSpec => [](/\ NoBackwardEdge /\ ScheduledOnce
                 /\ GroupsAreCycles /\ RefusedOnlyForCycles
                 /\ ComponentsExact /\ SinksClosedFirst /\ TopologicalOrder /\ NeverRunsOut)
<1>1. ASSUME ElabInv
      PROVE  /\ NoBackwardEdge /\ ScheduledOnce /\ GroupsAreCycles /\ RefusedOnlyForCycles
             /\ ComponentsExact /\ SinksClosedFirst /\ TopologicalOrder /\ NeverRunsOut
  <2>1. CASE phase \in {"aliases", "rejected"}
    <3>1. OrderOn(model)
      BY <1>1, <2>1 DEF ElabInv
    <3>2. comps = <<>> /\ topo = <<>> /\ step = "seed" /\ dag = NoDag /\ StartOn(NoDag)
      BY <3>1 DEF OrderOn, StartOn, TarjanOn
    <3>3. SchedInv
      BY <3>2, NothingIsADag, StartInv
    <3>4. TopologicalOrder
      BY <3>3 DEF SchedInv, OrderInv, TopologicalOrder, EmittedOnce, NoDup
    <3>5. NeverRunsOut
      BY <3>3, SeqHoldsLive DEF NeverRunsOut
    <3>6. SinksClosedFirst
      BY <3>2 DEF SinksClosedFirst
    <3> QED BY <2>1, <3>4, <3>5, <3>6
            DEF NoBackwardEdge, ScheduledOnce, GroupsAreCycles, RefusedOnlyForCycles,
                ComponentsExact
  <2>2. CASE phase \notin {"aliases", "rejected"}
    BY <1>1, <2>2, NoneGoesBack, EachOnce, GroupedByCycles, RefusedByCycles, OnComponents
       DEF ElabInv
  <2> QED BY <2>1, <2>2
<1> QED BY <1>1, ElabAlways, PTL

\* The number of an Assign that was kept is not that of an eliminated copy.
LEMMA KeptAssign ==
  ASSUME AliasInv, Handed, NEW a \in Kept, model.act[a].assign
  PROVE  \E k \in DOMAIN Copies(model) \ eliminated :
           AssignAt(model, k) = a /\ Copies(model)[k].target = model.act[a].target
<1>1. a \in Assigns(model) /\ ~Gone(model, a) /\ a \in Acts(model)
  BY DEF Assigns, Kept
<1>2. PICK k \in 1..Cardinality(Assigns(model)) : AssignAt(model, k) = a
  BY <1>1, AssignsFound DEF AliasInv, IsNetlist
<1>3. k \in DOMAIN Copies(model) /\ Copies(model)[k].target = model.act[a].target
  BY <1>2 DEF Copies
<1>4. k \notin eliminated
  BY <1>1, <1>2 DEF Handed
<1> QED BY <1>2, <1>3, <1>4

\* What a kept action drives is a cell of its own; an Assign drives it alone.
LEMMA KeptDrives ==
  ASSUME AliasInv, Handed, NEW a \in Kept
  PROVE  /\ canon[model.act[a].target] = model.act[a].target
         /\ model.act[a].target \notin RootIn
         /\ \A b \in Kept :
              model.act[a].assign /\ model.act[b].target = model.act[a].target => a = b
<1>1. /\ IsNetlist(model) /\ OneDriver /\ eliminated \subseteq DOMAIN Copies(model)
      /\ Kept \subseteq Acts(model)
  BY DEF AliasInv, Handed, Kept
<1>2. \A b \in Kept : /\ model.act[b].target \in 1..E
                      /\ model.act[b].assign <=> model.act[b].target \notin State
  BY <1>1 DEF IsNetlist, IsModel
<1>3. CASE ~model.act[a].assign
  <2>1. model.act[a].target \in State
    BY <1>2, <1>3
  <2> QED BY <1>3, <2>1, OwnStorage, ElabAssumption DEF A!AliasTypeOK
<1>4. CASE model.act[a].assign
  <2>1. PICK k \in DOMAIN Copies(model) \ eliminated :
          AssignAt(model, k) = a /\ Copies(model)[k].target = model.act[a].target
    BY <1>4, KeptAssign
  <2>2. model.act[a].target \notin RootIn
    BY <1>1, <2>1 DEF OneDriver
  <2>3. PICK rank, r : Merged(r)
    BY DEF AliasInv
  <2>4. canon[model.act[a].target] = model.act[a].target
    <3> SUFFICES ASSUME canon[model.act[a].target] # model.act[a].target PROVE FALSE
      OBVIOUS
    <3>1. PICK j \in eliminated : Copies(model)[j].target = model.act[a].target
      BY <1>2, <2>3 DEF Merged
    <3> QED BY <1>1, <2>1, <3>1 DEF OneDriver
  <2>5. ASSUME NEW b \in Kept, model.act[b].target = model.act[a].target PROVE a = b
    <3>1. model.act[b].assign
      BY <1>2, <1>4, <2>5
    <3>2. PICK j \in DOMAIN Copies(model) \ eliminated :
            AssignAt(model, j) = b /\ Copies(model)[j].target = model.act[b].target
      BY <3>1, KeptAssign
    <3>3. j = k
      BY <1>1, <2>1, <2>5, <3>2 DEF OneDriver
    <3> QED BY <2>1, <3>2, <3>3
  <2> QED BY <2>2, <2>4, <2>5
<1> QED BY <1>3, <1>4

\* An item is one action or a group of Assigns.
LEMMA ItemsReady ==
  ASSUME BuildInv, phase = "done", NEW p \in DOMAIN execOrder
  PROVE  /\ execOrder[p].acts \in Seq(Kept) \ {<<>>}
         /\ IF execOrder[p].group
            THEN \A k \in DOMAIN execOrder[p].acts : model.act[execOrder[p].acts[k]].assign
            ELSE Len(execOrder[p].acts) = 1
<1>1. step = "done" /\ IsModel(model)
  BY DEF BuildInv, ItemsInv, StagesInv
<1>2. PICK at : Placing(at)
  BY DEF BuildInv, ItemsInv
<1>3. PICK c \in DOMAIN comps :
        /\ execOrder[p] = ItemOf(c)
        /\ \A i \in DOMAIN execOrder[p].acts :
             /\ execOrder[p].acts[i] \in comps[c] /\ execOrder[p].acts[i] \in Acts(model)
             /\ ~Gone(model, execOrder[p].acts[i])
  BY <1>1, <1>2, ItemAt
<1>4. PICK members : members = execOrder[p].acts
  OBVIOUS
<1>5. members \in Seq(Acts(model)) /\ members # <<>>
  BY <1>4, ItemsTyped
<1>6. \A i \in DOMAIN members : members[i] \in Kept /\ members[i] \in comps[c]
  BY <1>3, <1>4 DEF Kept
<1>7. /\ Len(members) \in Nat \ {0} /\ DOMAIN members = 1..Len(members)
      /\ members = [i \in 1..Len(members) |-> members[i]]
  BY <1>5
<1>8. members \in Seq(Kept)
  <2>1. members \in [1..Len(members) -> Kept]
    BY <1>6, <1>7
  <2> QED BY <1>7, <2>1, IsASeq
<1>9. CASE execOrder[p].group
  <2>1. ASSUME NEW k \in DOMAIN members PROVE model.act[members[k]].assign
    <3>1. members[k] \in Waits(members[k])
      BY <1>4, <1>9, GroupedByCycles DEF GroupsAreCycles
    <3> QED BY <1>1, <3>1, WaitedAssign
  <2> QED BY <1>4, <1>5, <1>8, <1>9, <2>1
<1>10. CASE ~execOrder[p].group
  <2>1. ~NonTrivial(c)
    BY <1>3, <1>10 DEF ItemOf
  <2>2. \A v \in comps[c] : v = Only(c)
    BY <2>1, CompFacts DEF BuildInv
  <2>3. \A i, j \in DOMAIN members : i = j
    <3>1. \A i, j \in DOMAIN members : members[i] = members[j]
      BY <1>6, <2>2
    <3> QED BY <1>1, <1>3, <1>4, <3>1, ItemLists
  <2>4. Len(members) = 1
    <3>1. 1 \in DOMAIN members /\ Len(members) \in DOMAIN members
      BY <1>7
    <3> QED BY <2>3, <3>1
  <2> QED BY <1>4, <1>5, <1>8, <1>10, <2>4
<1> QED BY <1>9, <1>10

\* On every flat model that elaboration accepts, what it leaves behind is what the
\* theorems of the engine start from: cells found in one look-up and driven once, items
\* that share out the actions left, groups of Assigns only, and no producer after a
\* consumer (graph.h:305-335, 398-411).
THEOREM ElaborationFeedsEngine == ElabSpec => []EngineReady
<1>1. ASSUME ElabInv, phase = "done"
      PROVE  /\ \A e \in 1..E : model.canon[model.canon[e]] = model.canon[e]
             /\ \A e \in State \cup RootIn : model.canon[e] = e
             /\ \A a \in Kept : LET t == model.act[a].target IN
                  /\ model.canon[t] = t /\ t \notin RootIn
                  /\ \A b \in Kept : model.act[a].assign /\ model.act[b].target = t => a = b
             /\ \A p \in DOMAIN execOrder : LET members == execOrder[p].acts IN
                  /\ members \in Seq(Kept) \ {<<>>}
                  /\ IF execOrder[p].group
                     THEN \A k \in DOMAIN members : model.act[members[k]].assign
                     ELSE Len(members) = 1
             /\ ScheduledOnce /\ NoBackwardEdge
  <2>1. AliasInv /\ BuildInv /\ Handed
    BY <1>1 DEF ElabInv
  <2>2. alias = "done" /\ model.canon = canon
    BY <2>1 DEF Handed
  <2>3. \A e \in 1..E : canon[canon[e]] = canon[e]
    BY <2>1, <2>2, OneLookUp
  <2>4. \A e \in State \cup RootIn : canon[e] = e
    BY <2>1, OwnStorage DEF A!AliasTypeOK
  <2>5. \A a \in Kept : LET t == model.act[a].target IN
          /\ model.canon[t] = t /\ t \notin RootIn
          /\ \A b \in Kept : model.act[a].assign /\ model.act[b].target = t => a = b
    BY <2>1, <2>2, KeptDrives
  <2>6. \A p \in DOMAIN execOrder : LET members == execOrder[p].acts IN
          /\ members \in Seq(Kept) \ {<<>>}
          /\ IF execOrder[p].group THEN \A k \in DOMAIN members : model.act[members[k]].assign
             ELSE Len(members) = 1
    BY <1>1, <2>1, ItemsReady
  <2>7. ScheduledOnce /\ NoBackwardEdge
    BY <2>1, EachOnce, NoneGoesBack
  <2> QED BY <2>2, <2>3, <2>4, <2>5, <2>6, <2>7
<1>2. ElabInv => EngineReady
  BY <1>1 DEF EngineReady
<1> QED BY <1>2, ElabAlways, PTL
=============================================================================
