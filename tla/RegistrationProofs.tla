------------------------- MODULE RegistrationProofs -------------------------
(***************************************************************************)
(* The construction of modules, for any number of objects, names and       *)
(* actions, and any pattern of Errors: the stack of contexts names objects *)
(* that live, its top the one whose constructor runs, and an elaborated    *)
(* hierarchy changes by no call but those its own modules are called by.   *)
(***************************************************************************)
EXTENDS Registration, TLAPS, FiniteSetTheorems

-----------------------------------------------------------------------------
(***************************************************************************)
(* Picking members of a list.                                              *)
(***************************************************************************)
\* e lists a set of places in ascending order, each at its rank.
Lists(e, places) ==
  /\ Cardinality(places) \in Nat
  /\ e \in [1..Cardinality(places) -> places]
  /\ \A i \in DOMAIN e : Cardinality({j \in places : j < e[i]}) = i - 1
  /\ \A i, j \in DOMAIN e : i < j => e[i] < e[j]
  /\ \A k \in places : \E i \in DOMAIN e : e[i] = k

\* Every finite set of numbers has such a list.
LEMMA ListExists ==
  ASSUME NEW S \in SUBSET Int, IsFiniteSet(S)
  PROVE  /\ Lists([i \in 1..Cardinality(S) |->
                     CHOOSE k \in S : Cardinality({j \in S : j < k}) = i - 1], S)
         /\ \A x, y \in S :
              Cardinality({j \in S : j < x}) = Cardinality({j \in S : j < y}) => x = y
<1> DEFINE n == Cardinality(S)
           Under(x) == {j \in S : j < x}
           r == [x \in S |-> Cardinality(Under(x))]
           e == [i \in 1..n |-> CHOOSE k \in S : Cardinality({j \in S : j < k}) = i - 1]
<1>1. n \in Nat
  BY FS_CardinalityType
<1>2. ASSUME NEW x \in S
      PROVE  r[x] \in 0..(n - 1) /\ IsFiniteSet(Under(x)) /\ Cardinality(Under(x)) \in Nat
  <2>1. Under(x) \in SUBSET S /\ Under(x) # S
    OBVIOUS
  <2>2. IsFiniteSet(Under(x)) /\ Cardinality(Under(x)) <= n /\ Cardinality(Under(x)) # n
    BY <2>1, FS_Subset
  <2>3. Cardinality(Under(x)) \in Nat
    BY <2>2, FS_CardinalityType
  <2> HIDE DEF Under, n
  <2> QED BY <1>1, <2>2, <2>3
<1>3. ASSUME NEW x \in S, NEW y \in S, x < y PROVE r[x] < r[y]
  <2>1. Under(x) \in SUBSET Under(y) /\ x \in Under(y) /\ x \notin Under(x)
    <3>1. \A z \in S : z < x => z < y
      BY <1>3
    <3>2. \A z \in Under(x) : z \in Under(y)
      BY <3>1
    <3>3. x \in Under(y) /\ x \notin Under(x)
      BY <1>3
    <3> HIDE DEF Under
    <3> QED BY <3>2, <3>3
  <2> HIDE DEF Under
  <2>2. Cardinality(Under(x)) <= Cardinality(Under(y)) /\ Cardinality(Under(x)) # Cardinality(Under(y))
    BY <1>2, <2>1, FS_Subset
  <2> QED BY <1>2, <2>2
<1>4. \A x \in S : r[x] \in Int /\ r[x] = Cardinality({j \in S : j < x})
  BY <1>2
<1>5. \A x, y \in S : r[x] = r[y] => x = y
  <2> TAKE x, y \in S
  <2> HAVE r[x] = r[y]
  <2>1. ~(x < y) /\ ~(y < x)
    <3>1. (x < y => r[x] < r[y]) /\ (y < x => r[y] < r[x])
      BY <1>3
    <3>2. r[x] \in Int /\ r[y] \in Int
      BY <1>4
    <3> HIDE DEF r
    <3> QED BY <3>1, <3>2
  <2> QED BY <2>1
<1>6. \A k \in 0..(n - 1) : \E x \in S : r[x] = k
  <2>1. IsFiniteSet(0..(n - 1)) /\ Cardinality(0..(n - 1)) = n
    <3>1. 0 \in Int /\ n - 1 \in Int
      BY <1>1
    <3>2. /\ IsFiniteSet(0..(n - 1))
          /\ Cardinality(0..(n - 1)) = IF 0 > n - 1 THEN 0 ELSE (n - 1) - 0 + 1
      BY <3>1, FS_Interval
    <3> HIDE DEF n
    <3> QED BY <1>1, <3>2
  <2>2. r \in [S -> 0..(n - 1)]
    BY <1>2
  <2> HIDE DEF r
  <2>3. r \in Injection(S, 0..(n - 1))
    BY <1>5, <2>2 DEF Injection, IsInjective
  <2>4. r \in Surjection(S, 0..(n - 1))
    BY <2>1, <2>3, FS_Injection
  <2> QED BY <2>4 DEF Surjection
<1>7. ASSUME NEW i \in 1..n PROVE e[i] \in S /\ r[e[i]] = i - 1
  <2>1. e[i] = CHOOSE k \in S : Cardinality({j \in S : j < k}) = i - 1
    BY <1>7
  <2>2. i - 1 \in 0..(n - 1)
    BY <1>1
  <2> HIDE DEF e, r
  <2>3. \E k \in S : Cardinality({j \in S : j < k}) = i - 1
    BY <1>4, <1>6, <2>2
  <2> QED BY <1>4, <2>1, <2>3
<1>8. DOMAIN e = 1..n
  OBVIOUS
<1>9. e \in [1..n -> S]
  BY <1>7
<1> HIDE DEF r
<1>10. \A i \in 1..n : Cardinality({j \in S : j < e[i]}) = i - 1
  <2> HIDE DEF e
  <2> QED BY <1>4, <1>7
<1> HIDE DEF e
<1>11. \A i, j \in 1..n : i < j => e[i] < e[j]
  <2> TAKE i, j \in 1..n
  <2> HAVE i < j
  <2>1. e[i] \in S /\ e[j] \in S /\ r[e[i]] = i - 1 /\ r[e[j]] = j - 1
    BY <1>7
  <2>2. e[i] # e[j]
    BY <2>1
  <2>3. ~(e[j] < e[i])
    <3>1. e[j] < e[i] => r[e[j]] < r[e[i]]
      BY <1>3, <2>1
    <3> QED BY <1>1, <2>1, <3>1
  <2>4. e[i] \in Int /\ e[j] \in Int
    BY <2>1
  <2> QED BY <2>2, <2>3, <2>4
<1>12. \A k \in S : \E i \in 1..n : e[i] = k
  <2> TAKE k \in S
  <2>1. r[k] \in 0..(n - 1)
    BY <1>2
  <2>2. r[k] + 1 \in 1..n /\ r[k] = (r[k] + 1) - 1
    BY <1>1, <2>1
  <2>3. e[r[k] + 1] \in S /\ r[e[r[k] + 1]] = (r[k] + 1) - 1
    BY <1>7, <2>2
  <2>4. e[r[k] + 1] = k
    BY <1>5, <2>2, <2>3
  <2> QED BY <2>2, <2>4
<1>13. Lists(e, S)
  BY <1>1, <1>8, <1>9, <1>10, <1>11, <1>12 DEF Lists
<1>14. \A x, y \in S :
         Cardinality({j \in S : j < x}) = Cardinality({j \in S : j < y}) => x = y
  BY <1>4, <1>5
<1> QED BY <1>13, <1>14 DEF e

\* A set is listed in one way.
LEMMA ListUnique ==
  ASSUME NEW S \in SUBSET Int, IsFiniteSet(S), NEW e, NEW f, Lists(e, S), Lists(f, S)
  PROVE  e = f
<1>1. DOMAIN e = 1..Cardinality(S) /\ DOMAIN f = 1..Cardinality(S)
  BY DEF Lists
<1>2. ASSUME NEW i \in 1..Cardinality(S) PROVE e[i] = f[i]
  <2>1. e[i] \in S /\ f[i] \in S
    BY DEF Lists
  <2>2. Cardinality({j \in S : j < e[i]}) = Cardinality({j \in S : j < f[i]})
    BY <1>1 DEF Lists
  <2> QED BY <2>1, <2>2, ListExists
<1>3. e = [i \in 1..Cardinality(S) |-> e[i]] /\ f = [i \in 1..Cardinality(S) |-> f[i]]
  BY DEF Lists
<1>4. [i \in 1..Cardinality(S) |-> e[i]] = [i \in 1..Cardinality(S) |-> f[i]]
  BY <1>2
<1> QED BY <1>3, <1>4, Zenon

\* Only picks by that list.
LEMMA OnlyPicks ==
  ASSUME NEW T, NEW s \in Seq(T), NEW places \in SUBSET DOMAIN s
  PROVE  /\ IsFiniteSet(places) /\ places \in SUBSET Int
         /\ Only(s, places) \in Seq(T) /\ Len(Only(s, places)) = Cardinality(places)
         /\ \A e : Lists(e, places) =>
              Only(s, places) = [i \in 1..Cardinality(places) |-> s[e[i]]]
         /\ \E e : Lists(e, places)
<1> DEFINE g == [i \in 1..Cardinality(places) |->
                   CHOOSE k \in places : Cardinality({j \in places : j < k}) = i - 1]
<1>1. DOMAIN s = 1..Len(s) /\ Len(s) \in Nat
  OBVIOUS
<1>2. IsFiniteSet(places) /\ places \in SUBSET Int
  <2>1. IsFiniteSet(1..Len(s))
    BY <1>1, FS_Interval
  <2> QED BY <1>1, <2>1, FS_Subset
<1>3. Lists(g, places)
  BY <1>2, ListExists
<1>4. Only(s, places) = [i \in 1..Cardinality(places) |-> s[g[i]]]
  BY DEF Only
<1> HIDE DEF g
<1>5. Only(s, places) \in Seq(T) /\ Len(Only(s, places)) = Cardinality(places)
  <2>1. Cardinality(places) \in Nat /\ \A i \in 1..Cardinality(places) : s[g[i]] \in T
    BY <1>3 DEF Lists
  <2> QED BY <1>4, <2>1
<1>6. \A e : Lists(e, places) => e = g
  BY <1>2, <1>3, ListUnique
<1> QED BY <1>2, <1>3, <1>4, <1>5, <1>6

LEMMA OnlyBy ==
  ASSUME NEW T, NEW s \in Seq(T), NEW places \in SUBSET DOMAIN s, NEW e, Lists(e, places)
  PROVE  /\ Only(s, places) = [i \in 1..Cardinality(places) |-> s[e[i]]]
         /\ DOMAIN e = 1..Cardinality(places)
<1>1. Only(s, places) = [i \in 1..Cardinality(places) |-> s[e[i]]]
  BY OnlyPicks
<1>2. DOMAIN e = 1..Cardinality(places)
  BY DEF Lists
<1> QED BY <1>1, <1>2

\* Picking keeps order and loses nothing that is wanted.
LEMMA OnlyFacts ==
  ASSUME NEW T, NEW s \in Seq(T), NEW places \in SUBSET DOMAIN s
  PROVE  /\ Only(s, places) \in Seq(T)
         /\ \E e \in [DOMAIN Only(s, places) -> places] :
              /\ \A i \in DOMAIN e : Only(s, places)[i] = s[e[i]]
              /\ \A i, j \in DOMAIN e : i < j => e[i] < e[j]
              /\ \A k \in places : \E i \in DOMAIN e : e[i] = k
<1>1. PICK e : Lists(e, places)
  BY OnlyPicks
<1>2. Only(s, places) \in Seq(T) /\ Len(Only(s, places)) = Cardinality(places)
  BY OnlyPicks
<1>3. Only(s, places) = [i \in 1..Cardinality(places) |-> s[e[i]]]
  BY <1>1, OnlyPicks
<1>4. DOMAIN Only(s, places) = 1..Cardinality(places) /\ e \in [1..Cardinality(places) -> places]
  BY <1>1, <1>3 DEF Lists
<1>5. \A i \in DOMAIN e : Only(s, places)[i] = s[e[i]]
  BY <1>3, <1>4
<1> QED BY <1>1, <1>2, <1>4, <1>5 DEF Lists

-----------------------------------------------------------------------------
(***************************************************************************)
(* What a module owns, and its part of the hierarchy.                      *)
(***************************************************************************)
Live == {x \in Module : Alive(x)}

\* B is what leads up to m by `above`, through modules that live.
IsBelow(B, m, live, above) ==
  /\ B \subseteq Module /\ m \in B
  /\ \A y \in live : above[y] \in B => y \in B
  /\ \A S \in SUBSET Module : m \in S /\ (\A y \in live : above[y] \in S => y \in S) => B \subseteq S

Hierarchies ==
  \A m \in Module :
    IsBelow(Owned(m), m, Live, maker) /\ IsBelow(Tree(m), m, Live, parent)

LEMMA BelowFacts == Hierarchies
<1> SUFFICES \A m \in Module :
               IsBelow(Owned(m), m, Live, maker) /\ IsBelow(Tree(m), m, Live, parent)
  BY DEF Hierarchies
<1>1. ASSUME NEW m \in Module, NEW above
      PROVE  IsBelow({x \in Module : \A S \in SUBSET Module :
               m \in S /\ (\A y \in Module : Alive(y) /\ above[y] \in S => y \in S) => x \in S},
               m, Live, above)
  <2> DEFINE Shut(S) == m \in S /\ \A y \in Live : above[y] \in S => y \in S
             B == {x \in Module : \A S \in SUBSET Module :
               m \in S /\ (\A y \in Module : Alive(y) /\ above[y] \in S => y \in S) => x \in S}
  <2>1. \A x \in Module : x \in B <=> \A S \in SUBSET Module : Shut(S) => x \in S
    BY DEF Live
  <2>2. B \in SUBSET Module /\ m \in B
    OBVIOUS
  <2>3. Live \subseteq Module
    BY DEF Live
  <2> HIDE DEF B
  <2>4. ASSUME NEW y \in Live, above[y] \in B PROVE y \in B
    <3>1. \A S \in SUBSET Module : Shut(S) => above[y] \in S
      BY <2>1, <2>2, <2>4
    <3>2. \A S \in SUBSET Module : Shut(S) => y \in S
      BY <3>1
    <3> HIDE DEF Shut
    <3> QED BY <2>1, <2>3, <3>2
  <2>5. \A S \in SUBSET Module : Shut(S) => B \subseteq S
    <3> HIDE DEF Shut
    <3> QED BY <2>1, <2>2
  <2>6. IsBelow(B, m, Live, above)
    BY <2>2, <2>4, <2>5 DEF IsBelow
  <2> QED BY <2>6 DEF B
<1> TAKE m \in Module
<1>2. PICK u, v : u = maker /\ v = parent
  OBVIOUS
<1>3. Owned(m) = {x \in Module : \A S \in SUBSET Module :
         m \in S /\ (\A y \in Module : Alive(y) /\ u[y] \in S => y \in S) => x \in S}
  BY <1>2 DEF Owned, Below
<1>4. Tree(m) = {x \in Module : \A S \in SUBSET Module :
         m \in S /\ (\A y \in Module : Alive(y) /\ v[y] \in S => y \in S) => x \in S}
  BY <1>2 DEF Tree, Below
<1>5. IsBelow(Owned(m), m, Live, u) /\ IsBelow(Tree(m), m, Live, v)
  BY <1>1, <1>3, <1>4
<1> QED BY <1>2, <1>5

\* Whatever is below m, and is not m, lives and has its superior there.
LEMMA BelowStep ==
  ASSUME NEW B, NEW m, NEW live \in SUBSET Module, NEW above, IsBelow(B, m, live, above),
         NEW x \in B, x # m
  PROVE  x \in live /\ above[x] \in B
<1> SUFFICES ASSUME ~(x \in live /\ above[x] \in B) PROVE FALSE
  OBVIOUS
<1> DEFINE S == B \ {x}
<1>1. S \in SUBSET Module /\ m \in S
  BY DEF IsBelow
<1>2. ASSUME NEW y \in live, above[y] \in S PROVE y \in S
  <2>1. y \in B
    BY <1>2 DEF IsBelow
  <2>2. y # x
    BY <1>2
  <2> QED BY <2>1, <2>2
<1>3. B \subseteq S
  BY <1>1, <1>2 DEF IsBelow
<1> QED BY <1>3

\* Two hierarchies that differ only outside B agree on it.
LEMMA BelowSame ==
  ASSUME NEW B, NEW C, NEW m, NEW live \in SUBSET Module, NEW other \in SUBSET Module,
         NEW above, NEW beyond,
         IsBelow(B, m, live, above), IsBelow(C, m, other, beyond),
         \A x \in B : x # m => x \in other /\ beyond[x] = above[x],
         \A x \in other : beyond[x] \in B => x \in live /\ beyond[x] = above[x]
  PROVE  C = B
<1>1. C \subseteq B
  <2>1. B \in SUBSET Module /\ m \in B
    BY DEF IsBelow
  <2>2. \A y \in other : beyond[y] \in B => y \in B
    BY DEF IsBelow
  <2> QED BY <2>1, <2>2 DEF IsBelow
<1>2. B \subseteq C
  <2> DEFINE S == B \cap C
  <2>1. S \in SUBSET Module /\ m \in S
    BY DEF IsBelow
  <2>2. ASSUME NEW y \in live, above[y] \in S PROVE y \in S
    <3>1. y \in B
      BY <2>2 DEF IsBelow
    <3>2. CASE y = m
      BY <2>1, <3>2
    <3>3. CASE y # m
      <4>1. y \in other /\ beyond[y] = above[y]
        BY <3>1, <3>3
      <4>2. y \in C
        BY <2>2, <4>1 DEF IsBelow
      <4> QED BY <3>1, <4>2
    <3> QED BY <3>2, <3>3
  <2>3. B \subseteq S
    BY <2>1, <2>2 DEF IsBelow
  <2> QED BY <2>3
<1> QED BY <1>1, <1>2

-----------------------------------------------------------------------------
(***************************************************************************)
(* Types.                                                                  *)
(***************************************************************************)
\* An entity's name is taken.
Named == \A m \in Module : \A e \in entities[m] : e.name \in names[m]

\* The constructor that runs is that of the last entry.
LEMMA CurrentFacts ==
  ASSUME TypeOK
  PROVE  /\ Len(running) \in Nat /\ DOMAIN running = 1..Len(running)
         /\ Len(ctxStack) \in Nat /\ DOMAIN ctxStack = 1..Len(ctxStack)
         /\ \A k \in DOMAIN running : running[k].mod \in Module /\ running[k].child \in BOOLEAN
         /\ \A k \in DOMAIN ctxStack : ctxStack[k] \in Module
         /\ running # <<>> => /\ Len(running) \in DOMAIN running
                              /\ Current = running[Len(running)].mod /\ Current \in Module
         /\ running = <<>> => Current = Nobody /\ Len(running) = 0
<1>1. running \in Seq([mod : Module, child : BOOLEAN]) /\ ctxStack \in Seq(Module)
  BY DEF TypeOK
<1>2. ASSUME NEW T, NEW s \in Seq(T)
      PROVE  /\ Len(s) \in Nat /\ DOMAIN s = 1..Len(s)
             /\ \A k \in DOMAIN s : s[k] \in T
             /\ s # <<>> => Len(s) \in DOMAIN s
             /\ s = <<>> => Len(s) = 0
  OBVIOUS
<1> DEFINE Call == [mod : Module, child : BOOLEAN]
<1>3. \A c \in Call : c.mod \in Module /\ c.child \in BOOLEAN
  OBVIOUS
<1> HIDE DEF Call
<1>4. /\ Len(running) \in Nat /\ DOMAIN running = 1..Len(running)
      /\ Len(ctxStack) \in Nat /\ DOMAIN ctxStack = 1..Len(ctxStack)
      /\ \A k \in DOMAIN running : running[k] \in Call
      /\ \A k \in DOMAIN ctxStack : ctxStack[k] \in Module
      /\ running # <<>> => Len(running) \in DOMAIN running
      /\ running = <<>> => Len(running) = 0
  BY <1>1, <1>2 DEF Call
<1> QED BY <1>3, <1>4 DEF Current, Final

\* A constructor that starts extends both stacks; one that ends leaves the others.
LEMMA StackTypes ==
  ASSUME TypeOK
  PROVE  /\ \A m \in Module, child \in BOOLEAN :
              /\ Append(ctxStack, m) \in Seq(Module)
              /\ Append(running, [mod |-> m, child |-> child]) \in Seq([mod : Module, child : BOOLEAN])
         /\ running # <<>> => ButFinal(running) \in Seq([mod : Module, child : BOOLEAN])
         /\ Popped \in Seq(Module)
<1>1. running \in Seq([mod : Module, child : BOOLEAN]) /\ ctxStack \in Seq(Module)
  BY DEF TypeOK
<1>2. ASSUME NEW T, NEW s \in Seq(T), s # <<>> PROVE SubSeq(s, 1, Len(s) - 1) \in Seq(T)
  BY <1>2
<1>3. running # <<>> => ButFinal(running) \in Seq([mod : Module, child : BOOLEAN])
  BY <1>1, <1>2 DEF ButFinal
<1>4. Popped \in Seq(Module)
  BY <1>1, <1>2 DEF Popped, ButFinal
<1> QED BY <1>1, <1>3, <1>4

LEMMA RegistrationInit == Init => TypeOK /\ Named
BY DEF Init, TypeOK, Named

LEMMA TypeConstruct ==
  ASSUME TypeOK, Named, NEW m \in Module, BeginRoot(m) \/ \E p \in Module, name \in Name : BeginChild(p, m, name)
  PROVE  TypeOK' /\ Named'
<1>1. PICK owner \in Module \cup {Nobody}, child \in BOOLEAN : Construct(m, owner, child)
  BY CurrentFacts DEF BeginRoot, BeginChild
<1>2. UNCHANGED <<parent, entities, acts, simmed>>
  BY DEF BeginRoot, BeginChild
<1>3. life' \in [Module -> {"unborn", "building", "built", "gone"}]
  BY <1>1 DEF Construct, TypeOK
<1>4. maker' \in [Module -> Module \cup {Nobody}]
  BY <1>1 DEF Construct, TypeOK
<1>5. names' \in [Module -> SUBSET Name] /\ \A x \in Module : names[x] \subseteq names'[x]
  <2>1. CASE BeginRoot(m)
    BY <2>1 DEF BeginRoot, TypeOK
  <2>2. CASE \E p \in Module, name \in Name : BeginChild(p, m, name)
    <3>1. PICK p \in Module, name \in Name : names' = [names EXCEPT ![p] = @ \cup {name}]
      BY <2>2 DEF BeginChild
    <3> QED BY <3>1 DEF TypeOK
  <2> QED BY <2>1, <2>2
<1>6. ctxStack' \in Seq(Module) /\ running' \in Seq([mod : Module, child : BOOLEAN])
  BY <1>1, StackTypes DEF Construct
<1>7. TypeOK'
  BY <1>2, <1>3, <1>4, <1>5, <1>6 DEF TypeOK
<1> QED BY <1>2, <1>5, <1>7 DEF Named

LEMMA TypeReturn ==
  ASSUME TypeOK, Named, Return
  PROVE  TypeOK' /\ Named'
<1>1. Current \in Module
  BY CurrentFacts DEF Return
<1>2. life' \in [Module -> {"unborn", "building", "built", "gone"}]
  BY <1>1 DEF Return, TypeOK
<1>3. parent' \in [Module -> Module \cup {Nobody}] /\ ctxStack' \in Seq(Module)
  BY <1>1, StackTypes DEF Return, TypeOK
<1>4. running' \in Seq([mod : Module, child : BOOLEAN])
  BY StackTypes DEF Return
<1> QED BY <1>2, <1>3, <1>4 DEF Return, TypeOK, Named

LEMMA TypeDispose ==
  ASSUME TypeOK, Named, NEW gone \in SUBSET Module, Dispose(gone),
         running' \in Seq([mod : Module, child : BOOLEAN])
  PROVE  TypeOK' /\ Named'
<1> DEFINE Ref == [owner : Module, name : Name, kind : Kind]
           Act == [ctx : Module, target : Ref, read : Ref]
<1>1. acts \in Seq(Act) /\ ctxStack \in Seq(Module)
  BY DEF TypeOK
<1> HIDE DEF Act
<1>2. acts' \in Seq(Act)
  <2>1. {k \in DOMAIN acts : acts[k].ctx \notin gone} \in SUBSET DOMAIN acts
    OBVIOUS
  <2>2. Only(acts, {k \in DOMAIN acts : acts[k].ctx \notin gone}) \in Seq(Act)
    BY <1>1, <2>1, OnlyFacts
  <2> QED BY <2>2 DEF Dispose
<1>3. ctxStack' \in Seq(Module)
  <2>1. {k \in DOMAIN ctxStack : ctxStack[k] \notin gone} \in SUBSET DOMAIN ctxStack
    OBVIOUS
  <2>2. Only(ctxStack, {k \in DOMAIN ctxStack : ctxStack[k] \notin gone}) \in Seq(Module)
    BY <1>1, <2>1, OnlyFacts
  <2> QED BY <2>2 DEF Dispose, Without
<1>4. life' \in [Module -> {"unborn", "building", "built", "gone"}]
  BY DEF Dispose, TypeOK
<1>5. simmed' \subseteq Module
  BY DEF Dispose, TypeOK
<1>6. UNCHANGED <<maker, parent, names, entities>>
  BY DEF Dispose
<1> QED BY <1>2, <1>3, <1>4, <1>5, <1>6 DEF TypeOK, Named, Act

LEMMA TypeCreate ==
  ASSUME TypeOK, Named, NEW m \in Module, NEW name \in Name, NEW kind \in Kind,
         Create(m, name, kind)
  PROVE  TypeOK' /\ Named'
<1> DEFINE new == [name |-> name, kind |-> kind]
<1>1. /\ names' = [names EXCEPT ![m] = @ \cup {name}]
      /\ entities' = [entities EXCEPT ![m] = @ \cup {new}]
      /\ name \notin names[m]
      /\ UNCHANGED <<life, maker, parent, acts, simmed, ctxStack, running>>
  BY DEF Create, Fresh
<1>2. new \in [name : Name, kind : Kind] /\ new.name = name
  OBVIOUS
<1> HIDE DEF new
<1>3. names' \in [Module -> SUBSET Name] /\ entities' \in [Module -> SUBSET [name : Name, kind : Kind]]
  BY <1>1, <1>2 DEF TypeOK
<1>4. \A x \in Module : /\ names[x] \subseteq names'[x] /\ (x = m => name \in names'[x])
                        /\ entities'[x] = IF x = m THEN entities[m] \cup {new} ELSE entities[x]
  BY <1>1 DEF TypeOK
<1>5. Named'
  BY <1>2, <1>4 DEF Named
<1>6. \A x \in Module : \A e1, e2 \in entities'[x] : e1.name = e2.name => e1 = e2
  <2> TAKE x \in Module
  <2> TAKE e1, e2 \in entities'[x]
  <2>1. \A d1, d2 \in entities[x] : d1.name = d2.name => d1 = d2
    BY DEF TypeOK
  <2>2. \A d \in entities[m] : d.name # name
    BY <1>1 DEF Named
  <2> QED BY <1>2, <1>4, <2>1, <2>2
<1> QED BY <1>1, <1>3, <1>5, <1>6 DEF TypeOK

LEMMA TypeRegister ==
  ASSUME TypeOK, Named, NEW t \in EntityRefs, NEW r \in EntityRefs, Register(t, r)
  PROVE  TypeOK' /\ Named'
<1> DEFINE Ref == [owner : Module, name : Name, kind : Kind]
           new == [ctx |-> Final(ctxStack), target |-> t, read |-> r]
<1>1. EntityRefs \subseteq Ref
  BY DEF EntityRefs, TypeOK
<1>2. Final(ctxStack) \in Module
  <2>1. ctxStack \in Seq(Module) /\ ctxStack # <<>>
    BY DEF Register, TypeOK
  <2> QED BY <2>1 DEF Final
<1>3. new \in [ctx : Module, target : Ref, read : Ref]
  BY <1>1, <1>2
<1>4. acts \in Seq([ctx : Module, target : Ref, read : Ref]) /\ acts' = Append(acts, new)
  BY DEF Register, TypeOK
<1> HIDE DEF new
<1>5. acts' \in Seq([ctx : Module, target : Ref, read : Ref])
  BY <1>3, <1>4
<1>6. UNCHANGED <<life, maker, parent, names, entities, simmed, ctxStack, running>>
  BY DEF Register
<1> QED BY <1>5, <1>6 DEF TypeOK, Named

\* Every step keeps the types.
LEMMA TypeStep ==
  ASSUME TypeOK, Named, [Next]_vars
  PROVE  TypeOK' /\ Named'
<1>1. CASE \E m \in Module : Destroy(m)
  <2>1. PICK m \in Module : Destroy(m)
    BY <1>1
  <2>2. Owned(m) \in SUBSET Module
    BY DEF Owned, Below
  <2>3. running' \in Seq([mod : Module, child : BOOLEAN])
    BY <2>1 DEF Destroy, TypeOK
  <2> QED BY <2>1, <2>2, <2>3, TypeDispose DEF Destroy
<1>2. CASE Throw
  <2>1. Owned(Current) \in SUBSET Module
    BY DEF Owned, Below
  <2>2. running' \in Seq([mod : Module, child : BOOLEAN])
    BY <1>2, StackTypes DEF Throw
  <2> QED BY <1>2, <2>1, <2>2, TypeDispose DEF Throw
<1>3. CASE \E m \in Module : Elaborate(m)
  <2>1. PICK m \in Module : Elaborate(m)
    BY <1>3
  <2> QED BY <2>1 DEF Elaborate, AfterElaborate, TypeOK, Named
<1>4. CASE UNCHANGED vars
  BY <1>4 DEF vars, objects, TypeOK, Named
<1> QED BY <1>1, <1>2, <1>3, <1>4, TypeConstruct, TypeReturn, TypeCreate, TypeRegister DEF Next

\* Every variable stays in its type, and a name stands for one entity of its module,
\* whichever constructors used it and failed (module.h:177-196).
THEOREM RegistrationTyped == Spec => []TypeOK
<1>1. (TypeOK /\ Named) /\ [Next]_vars => (TypeOK /\ Named)'
  BY TypeStep
<1> QED BY RegistrationInit, <1>1, PTL DEF Spec

-----------------------------------------------------------------------------
(***************************************************************************)
(* Objects, constructors and contexts.                                     *)
(***************************************************************************)
\* A module is linked to its owner when its own constructor has returned; owners are
\* born before what they own.
Linked ==
  \A m \in Module :
    /\ life[m] = "unborn" => parent[m] = Nobody /\ maker[m] = Nobody
    /\ maker[m] # Nobody => life[maker[m]] # "unborn"
    /\ parent[m] # Nobody => parent[m] = maker[m] /\ life[m] \in {"built", "gone"}

\* A set of modules that holds the owners of its members.
Senior(U) == U \subseteq Module /\ \A y \in U : maker[y] \in U \cup {Nobody}

\* A running constructor was called by the one before it, and what was born before its
\* module is senior to it; but for late calls the module before it is its owner.
RunsAt(k) ==
  /\ life[running[k].mod] = "building"
  /\ \E U \in SUBSET Module :
       /\ Senior(U) /\ Senior(U \cup {running[k].mod}) /\ running[k].mod \notin U
       /\ \A y \in U : life[y] # "unborn"
       /\ \A j \in DOMAIN running : j < k => running[j].mod \in U
  /\ ~Late => maker[running[k].mod] = IF k = 1 THEN Nobody ELSE running[k - 1].mod
Runs ==
  /\ \A k \in DOMAIN running : RunsAt(k)
  /\ \A j, k \in DOMAIN running : running[j].mod = running[k].mod => j = k

\* Only finished modules are elaborated.
Settled == \A m \in simmed : life[m] = "built"

RInv == TypeOK /\ Named /\ Linked /\ Runs /\ NoDangling /\ Settled

\* Nothing senior is owned by what is not.
LEMMA SeniorFacts ==
  ASSUME NEW c \in Module, NEW U, Senior(U), c \notin U
  PROVE  Owned(c) \cap U = {}
<1>1. IsBelow(Owned(c), c, Live, maker) /\ Live \in SUBSET Module
  BY BelowFacts DEF Hierarchies, Live
<1>2. Nobody \notin Module
  BY RegistrationAssumption
<1> DEFINE W == Module \ U
<1>3. W \in SUBSET Module /\ c \in W
  OBVIOUS
<1>4. ASSUME NEW y \in Live, maker[y] \in W PROVE y \in W
  <2>1. y \in Module /\ maker[y] \notin U \cup {Nobody}
    BY <1>1, <1>2, <1>4
  <2> QED BY <2>1 DEF Senior
<1>5. Owned(c) \subseteq W
  <2> HIDE DEF W
  <2> QED BY <1>1, <1>3, <1>4 DEF IsBelow
<1> QED BY <1>5

\* What is destroyed: c, of which no constructor but its own runs, and nothing of an
\* elaborated hierarchy but that of c itself.
Ends(c) == \/ running # <<>> /\ c = Current
           \/ life[c] = "built" /\ parent[c] = Nobody /\ maker[c] = Current

LEMMA GoneFacts ==
  ASSUME RInv, NEW c \in Module, Ends(c)
  PROVE  /\ Owned(c) \in SUBSET Module /\ c \in Owned(c)
         /\ \A k \in DOMAIN running : running[k].mod \in Owned(c) => running[k].mod = c
         /\ \A m \in simmed \ Owned(c) : Tree(m) \cap Owned(c) = {}
<1>1. IsBelow(Owned(c), c, Live, maker) /\ Live \in SUBSET Module
  BY BelowFacts DEF Hierarchies, Live
<1>2. Nobody \notin Module
  BY RegistrationAssumption
<1>3. parent[c] = Nobody
  <2>1. running # <<>> /\ c = Current => life[c] = "building"
    BY CurrentFacts DEF RInv, Runs, RunsAt
  <2> QED BY <2>1 DEF RInv, Linked, Ends
<1>4. \A k \in DOMAIN running : running[k].mod \in Owned(c) => running[k].mod = c
  <2> DEFINE n == Len(running)
  <2> SUFFICES ASSUME NEW k \in DOMAIN running, running[k].mod # c
               PROVE  running[k].mod \notin Owned(c)
    OBVIOUS
  <2>1. /\ n \in DOMAIN running /\ DOMAIN running = 1..n /\ n \in Nat
        /\ Current = running[n].mod /\ Current \in Module
    BY CurrentFacts DEF RInv
  <2> HIDE DEF n
  <2>2. PICK U \in SUBSET Module :
          /\ Senior(U) /\ Senior(U \cup {running[n].mod}) /\ running[n].mod \notin U
          /\ \A j \in DOMAIN running : j < n => running[j].mod \in U
    BY <2>1 DEF RInv, Runs, RunsAt
  <2>3. k = n \/ running[k].mod \in U
    BY <2>1, <2>2
  <2>4. CASE c = Current
    BY <2>1, <2>2, <2>3, <2>4, SeniorFacts
  <2>5. CASE life[c] = "built" /\ maker[c] = Current
    <3>1. c # running[n].mod
      BY <2>1, <2>5 DEF RInv, Runs, RunsAt
    <3>2. c \notin U
      <4>1. maker[c] \notin U \cup {Nobody}
        BY <1>2, <2>1, <2>2, <2>5
      <4> QED BY <2>2, <4>1 DEF Senior
    <3>3. Owned(c) \cap (U \cup {running[n].mod}) = {}
      <4>1. PICK V : V = U \cup {running[n].mod}
        OBVIOUS
      <4> QED BY <2>2, <3>1, <3>2, <4>1, SeniorFacts
    <3> QED BY <2>3, <3>3
  <2> QED BY <2>4, <2>5 DEF Ends
<1>5. ASSUME NEW m \in simmed \ Owned(c) PROVE Tree(m) \cap Owned(c) = {}
  <2>0. m \in Module
    BY DEF RInv, TypeOK
  <2>1. IsBelow(Tree(m), m, Live, parent)
    BY <2>0, BelowFacts DEF Hierarchies
  <2> DEFINE W == Tree(m) \ Owned(c)
  <2>2. W \in SUBSET Module /\ m \in W
    BY <2>1 DEF IsBelow
  <2>3. ASSUME NEW y \in Live, parent[y] \in W PROVE y \in W
    <3>1. y \in Tree(m)
      BY <2>1, <2>3 DEF IsBelow
    <3>2. y # c
      BY <1>2, <1>3, <2>2, <2>3
    <3>3. parent[y] = maker[y]
      <4>1. y \in Module /\ parent[y] # Nobody
        BY <1>1, <1>2, <2>2, <2>3
      <4> QED BY <4>1 DEF RInv, Linked
    <3>4. y \notin Owned(c)
      <4>1. y \in Owned(c) => maker[y] \in Owned(c)
        BY <1>1, <3>2, BelowStep
      <4> QED BY <2>3, <3>3, <4>1
    <3> QED BY <3>1, <3>4
  <2>4. Tree(m) \subseteq W
    <3> HIDE DEF W
    <3> QED BY <2>1, <2>2, <2>3 DEF IsBelow
  <2> QED BY <2>4
<1> QED BY <1>1, <1>4, <1>5 DEF IsBelow

\* An elaborated hierarchy is made of modules whose constructors have returned, all but
\* its root linked to another.
LEMMA TreeBuilt ==
  ASSUME RInv, NEW m \in simmed, NEW x \in Tree(m)
  PROVE  x \in Module /\ life[x] = "built" /\ (x # m => parent[x] # Nobody)
<1>1. m \in Module /\ Live \in SUBSET Module /\ Nobody \notin Module
  BY RegistrationAssumption DEF RInv, TypeOK, Live
<1>2. IsBelow(Tree(m), m, Live, parent)
  BY <1>1, BelowFacts DEF Hierarchies
<1>3. Tree(m) \subseteq Module
  BY <1>2 DEF IsBelow
<1>4. CASE x = m
  BY <1>1, <1>4 DEF RInv, Settled
<1>5. CASE x # m
  <2>1. x \in Live /\ parent[x] \in Tree(m)
    BY <1>1, <1>2, <1>5, BelowStep
  <2>2. parent[x] # Nobody /\ x \in Module /\ Alive(x)
    BY <1>1, <1>3, <2>1 DEF Live
  <2>3. life[x] \in {"built", "gone"}
    BY <2>2 DEF RInv, Linked
  <2> QED BY <2>2, <2>3 DEF Alive
<1> QED BY <1>4, <1>5

\* A step that leaves the modules of a hierarchy alone keeps them in it.
LEMMA TreeGrows ==
  ASSUME NEW m \in Module,
         \A x \in Tree(m) : x # m => Alive(x)' /\ parent'[x] = parent[x]
  PROVE  Tree(m) \subseteq Tree(m)'
<1>1. IsBelow(Tree(m), m, Live, parent)
  BY BelowFacts DEF Hierarchies
<1>2. Hierarchies'
  BY BelowFacts, PTL
<1>3. IsBelow(Tree(m)', m, Live', parent')
  BY <1>2 DEF Hierarchies
<1>4. PICK B, live, above : B = Tree(m) /\ live = Live /\ above = parent
  OBVIOUS
<1>5. PICK C, other, beyond : C = Tree(m)' /\ other = Live' /\ beyond = parent'
  OBVIOUS
<1>6. \A x \in B : x # m => x \in other /\ beyond[x] = above[x]
  <2>1. B \subseteq Module
    BY <1>1, <1>4 DEF IsBelow
  <2> QED BY <1>4, <1>5, <2>1 DEF Live
<1>7. IsBelow(B, m, live, above) /\ IsBelow(C, m, other, beyond)
  BY <1>1, <1>3, <1>4, <1>5
<1> DEFINE S == B \cap C
<1>8. S \in SUBSET Module /\ m \in S
  BY <1>7 DEF IsBelow
<1>9. ASSUME NEW y \in live, above[y] \in S PROVE y \in S
  <2>1. y \in B
    BY <1>7, <1>9 DEF IsBelow
  <2>2. CASE y = m
    BY <1>8, <2>2
  <2>3. CASE y # m
    <3>1. y \in other /\ beyond[y] \in C
      BY <1>6, <1>9, <2>1, <2>3
    <3>2. y \in C
      BY <1>7, <3>1 DEF IsBelow
    <3> QED BY <2>1, <3>2
  <2> QED BY <2>2, <2>3
<1>10. B \subseteq S
  <2> HIDE DEF S
  <2> QED BY <1>7, <1>8, <1>9 DEF IsBelow
<1> QED BY <1>4, <1>5, <1>10

\* A step that leaves the modules of a hierarchy alone, and links nothing to it.
LEMMA TreeSame ==
  ASSUME NEW m \in Module,
         \A x \in Tree(m) : x # m => Alive(x)' /\ parent'[x] = parent[x],
         \A x \in Module : Alive(x)' /\ parent'[x] \in Tree(m) => Alive(x) /\ parent'[x] = parent[x]
  PROVE  Tree(m)' = Tree(m)
<1>1. IsBelow(Tree(m), m, Live, parent)
  BY BelowFacts DEF Hierarchies
<1>2. Hierarchies'
  BY BelowFacts, PTL
<1>3. IsBelow(Tree(m)', m, Live', parent')
  BY <1>2 DEF Hierarchies
<1>4. Live \in SUBSET Module /\ Live' \in SUBSET Module
  BY DEF Live
<1>5. PICK B, live, above : B = Tree(m) /\ live = Live /\ above = parent
  OBVIOUS
<1>6. PICK C, other, beyond : C = Tree(m)' /\ other = Live' /\ beyond = parent'
  OBVIOUS
<1>7. \A x \in B : x # m => x \in other /\ beyond[x] = above[x]
  <2>1. B \subseteq Module
    BY <1>1, <1>5 DEF IsBelow
  <2> QED BY <1>5, <1>6, <2>1 DEF Live
<1>8. \A x \in other : beyond[x] \in B => x \in live /\ beyond[x] = above[x]
  BY <1>5, <1>6 DEF Live
<1>9. C = B
  BY <1>1, <1>3, <1>4, <1>5, <1>6, <1>7, <1>8, BelowSame
<1> QED BY <1>5, <1>6, <1>9

\* What is left of a stack when its last entry goes.
LEMMA ButFinalFacts ==
  ASSUME NEW T, NEW s \in Seq(T), s # <<>>
  PROVE  /\ DOMAIN ButFinal(s) = 1..(Len(s) - 1) /\ Len(ButFinal(s)) = Len(s) - 1
         /\ \A k \in 1..(Len(s) - 1) : ButFinal(s)[k] = s[k]
<1> DEFINE n == Len(s)
<1>1. n \in Nat /\ n - 1 \in Nat /\ SubSeq(s, 1, n - 1) = [i \in 1..(n - 1) |-> s[i]]
  OBVIOUS
<1>2. ButFinal(s) = [i \in 1..(n - 1) |-> s[i]]
  BY <1>1 DEF ButFinal
<1> HIDE DEF n
<1>3. Len(ButFinal(s)) = n - 1
  BY <1>1, <1>2
<1>4. DOMAIN ButFinal(s) = 1..(n - 1) /\ \A k \in 1..(n - 1) : ButFinal(s)[k] = s[k]
  BY <1>2
<1> QED BY <1>3, <1>4 DEF n

\* A constructor goes on as long as those below it do and what was born stays so.
LEMMA RunStays ==
  ASSUME RInv, TypeOK', NEW k \in DOMAIN running', k \in DOMAIN running,
         \A j \in DOMAIN running' : j <= k => j \in DOMAIN running /\ running'[j] = running[j],
         \A y \in Module : life[y] # "unborn" => life'[y] # "unborn" /\ maker'[y] = maker[y],
         life'[running[k].mod] = "building"
  PROVE  RunsAt(k)'
<1>1. /\ DOMAIN running' = 1..Len(running') /\ Len(running') \in Nat /\ k \in Nat
      /\ running'[k] = running[k] /\ running[k].mod \in Module
  <2>1. running' \in Seq([mod : Module, child : BOOLEAN])
    BY DEF TypeOK
  <2>2. DOMAIN running' = 1..Len(running') /\ Len(running') \in Nat
    BY <2>1
  <2> QED BY <2>2, CurrentFacts DEF RInv
<1>2. RunsAt(k) /\ life[running[k].mod] = "building"
  BY DEF RInv, Runs, RunsAt
<1>3. PICK U \in SUBSET Module :
        /\ Senior(U) /\ Senior(U \cup {running[k].mod}) /\ running[k].mod \notin U
        /\ \A y \in U : life[y] # "unborn"
        /\ \A j \in DOMAIN running : j < k => running[j].mod \in U
  BY <1>2 DEF RunsAt
<1>4. ASSUME NEW V, Senior(V), \A y \in V : life[y] # "unborn" PROVE Senior(V)'
  BY <1>4 DEF Senior
<1>5. PICK V : V = U \cup {running[k].mod}
  OBVIOUS
<1>6. Senior(U)' /\ Senior(V)'
  BY <1>2, <1>3, <1>4, <1>5
<1>7. Senior(U \cup {running[k].mod})'
  BY <1>1, <1>5, <1>6 DEF Senior
<1>8. \A j \in DOMAIN running' : j < k => running'[j].mod \in U
  BY <1>1, <1>3
<1>9. \A y \in U : life'[y] # "unborn"
  BY <1>3
<1>10. ~Late => maker'[running'[k].mod] = IF k = 1 THEN Nobody ELSE running'[k - 1].mod
  <2>1. k # 1 => k - 1 \in DOMAIN running' /\ k - 1 <= k
    BY <1>1
  <2>2. k # 1 => running'[k - 1] = running[k - 1]
    BY <2>1
  <2>3. maker'[running'[k].mod] = maker[running[k].mod]
    BY <1>1, <1>2
  <2> QED BY <1>2, <2>2, <2>3 DEF RunsAt
<1>11. life'[running'[k].mod] = "building" /\ running'[k].mod \notin U
  BY <1>1, <1>3
<1> QED BY <1>6, <1>7, <1>8, <1>9, <1>10, <1>11 DEF RunsAt

\* What each step has to show, beyond types.
Keeps == Linked' /\ Runs' /\ NoDangling' /\ Settled'

LEMMA ConstructKeeps ==
  ASSUME RInv, TypeOK', NEW m \in Module, BeginRoot(m) \/ \E p \in Module, name \in Name : BeginChild(p, m, name)
  PROVE  Keeps
<1>0. PICK n : n = Len(running)
  OBVIOUS
<1>1. PICK owner \in Module \cup {Nobody}, child \in BOOLEAN :
        /\ Construct(m, owner, child)
        /\ owner # Nobody => life[owner] # "unborn"
        /\ ~Late => owner = Current
  <2>1. Current \in Module \cup {Nobody} /\ (Current # Nobody => life[Current] # "unborn")
    BY CurrentFacts DEF RInv, Runs, RunsAt
  <2>2. CASE BeginRoot(m)
    BY <2>1, <2>2 DEF BeginRoot
  <2>3. CASE \E p \in Module, name \in Name : BeginChild(p, m, name)
    BY <2>3 DEF BeginChild, Alive
  <2> QED BY <2>2, <2>3
<1>2. /\ life[m] = "unborn" /\ parent[m] = Nobody
      /\ life' = [life EXCEPT ![m] = "building"] /\ maker' = [maker EXCEPT ![m] = owner]
      /\ ctxStack' = Append(ctxStack, m) /\ running' = Append(running, [mod |-> m, child |-> child])
      /\ parent' = parent /\ simmed' = simmed
  BY <1>1 DEF BeginRoot, BeginChild, Construct, RInv, Linked
<1>3. \A x \in Module : x # m => life'[x] = life[x] /\ maker'[x] = maker[x]
  BY <1>2 DEF RInv, TypeOK
<1>4. life'[m] = "building" /\ maker'[m] = owner
  BY <1>2 DEF RInv, TypeOK
<1>5. Linked'
  <2> SUFFICES ASSUME NEW x \in Module
               PROVE  /\ life'[x] = "unborn" => parent'[x] = Nobody /\ maker'[x] = Nobody
                      /\ maker'[x] # Nobody => life'[maker'[x]] # "unborn"
                      /\ parent'[x] # Nobody => parent'[x] = maker'[x] /\ life'[x] \in {"built", "gone"}
    BY DEF Linked
  <2>1. maker'[x] \in Module \cup {Nobody}
    BY DEF TypeOK
  <2>2. maker'[x] # Nobody => life[maker'[x]] # "unborn"
    BY <1>1, <1>3, <1>4 DEF RInv, Linked
  <2>3. maker'[x] # Nobody => life'[maker'[x]] # "unborn"
    BY <1>3, <1>4, <2>1, <2>2
  <2> QED BY <1>2, <1>3, <1>4, <2>3 DEF RInv, Linked
<1>6. /\ n \in Nat /\ DOMAIN running = 1..n /\ DOMAIN running' = 1..(n + 1)
      /\ \A k \in 1..n : running'[k] = running[k] /\ running'[k].mod # m /\ running[k].mod \in Module
      /\ running'[n + 1].mod = m
  <2>1. running \in Seq([mod : Module, child : BOOLEAN])
    BY DEF RInv, TypeOK
  <2>2. /\ n \in Nat /\ DOMAIN running = 1..n /\ DOMAIN running' = 1..(n + 1)
        /\ \A k \in 1..n : running'[k] = running[k]
        /\ running'[n + 1] = [mod |-> m, child |-> child]
    BY <1>2, <1>0, <2>1
  <2>3. \A k \in 1..n : running[k].mod # m /\ running[k].mod \in Module
    BY <1>2, <2>2, CurrentFacts DEF RInv, Runs, RunsAt
  <2> QED BY <2>2, <2>3
<1>7. Current = IF n = 0 THEN Nobody ELSE running[n].mod
  BY <1>0, CurrentFacts DEF RInv
<1>8. \A y \in Module : life[y] # "unborn" => life'[y] # "unborn" /\ maker'[y] = maker[y]
  BY <1>2, <1>3
<1>9. ASSUME NEW k \in 1..n PROVE RunsAt(k)'
  <2>1. k \in DOMAIN running /\ k \in DOMAIN running'
    BY <1>6
  <2>2. \A j \in DOMAIN running' : j <= k => j \in DOMAIN running /\ running'[j] = running[j]
    BY <1>6
  <2>3. life'[running[k].mod] = "building"
    BY <1>3, <1>6, <2>1 DEF RInv, Runs, RunsAt
  <2> QED BY <1>8, <2>1, <2>2, <2>3, RunStays
<1>10. RunsAt(n + 1)'
  <2>1. PICK U \in SUBSET Module : U = {y \in Module : life[y] # "unborn"}
    OBVIOUS
  <2>2. \A y \in U : y # m /\ maker'[y] = maker[y] /\ maker[y] \in U \cup {Nobody} /\ life'[y] # "unborn"
    <3> SUFFICES ASSUME NEW y \in U PROVE y # m /\ maker[y] \in U \cup {Nobody}
      BY <1>8, <2>1
    <3>1. maker[y] \in Module \cup {Nobody}
      BY <2>1 DEF RInv, TypeOK
    <3> QED BY <1>2, <2>1, <3>1 DEF RInv, Linked
  <2>3. owner \in U \cup {Nobody}
    BY <1>1, <2>1
  <2>4. Senior(U)' /\ Senior(U \cup {running[n + 1].mod})'
    BY <1>4, <1>6, <2>1, <2>2, <2>3 DEF Senior
  <2>5. \A j \in DOMAIN running' : j < n + 1 => running'[j].mod \in U
    <3> SUFFICES ASSUME NEW j \in 1..n PROVE running[j].mod \in U
      BY <1>6
    <3> QED BY <1>6, <2>1 DEF RInv, Runs, RunsAt
  <2>6. ~Late => maker'[running'[n + 1].mod] =
                   IF n + 1 = 1 THEN Nobody ELSE running'[(n + 1) - 1].mod
    <3>1. n # 0 => n \in 1..n /\ running'[n] = running[n]
      BY <1>6
    <3>2. (n + 1 = 1 <=> n = 0) /\ (n + 1) - 1 = n
      BY <1>6
    <3> QED BY <1>1, <1>4, <1>6, <1>7, <3>1, <3>2
  <2>7. m \notin U
    BY <1>2, <2>1
  <2> QED BY <1>4, <1>6, <2>2, <2>4, <2>5, <2>6, <2>7 DEF RunsAt
<1>11. \A j, k \in DOMAIN running' : running'[j].mod = running'[k].mod => j = k
  <2>1. \A j, k \in 1..n : running[j].mod = running[k].mod => j = k
    BY <1>6 DEF RInv, Runs
  <2> QED BY <1>6, <2>1
<1>12. Runs'
  <2>1. \A k \in DOMAIN running' : k \in 1..n \/ k = n + 1
    BY <1>6
  <2> QED BY <1>9, <1>10, <1>11, <2>1 DEF Runs
<1>13. /\ DOMAIN ctxStack' = DOMAIN ctxStack \cup {Len(ctxStack) + 1}
       /\ \A k \in DOMAIN ctxStack : ctxStack'[k] = ctxStack[k] /\ ctxStack[k] \in Module
       /\ ctxStack'[Len(ctxStack) + 1] = m
  <2>1. ctxStack \in Seq(Module)
    BY DEF RInv, TypeOK
  <2> QED BY <1>2, <2>1
<1>14. NoDangling'
  <2>1. \A x \in Module : Alive(x) => Alive(x)'
    BY <1>2, <1>3 DEF Alive
  <2>2. Alive(m)'
    BY <1>4 DEF Alive
  <2> QED BY <1>13, <2>1, <2>2 DEF NoDangling, RInv
<1>15. Settled'
  <2>1. \A x \in simmed : x \in Module /\ x # m
    BY <1>2 DEF RInv, Settled, TypeOK
  <2> QED BY <1>2, <1>3, <2>1 DEF RInv, Settled
<1> QED BY <1>5, <1>12, <1>14, <1>15 DEF Keeps

\* A constructor that returns leaves the contexts below the top in their places.
LEMMA ReturnPops ==
  ASSUME RInv, Return
  PROVE  \A k \in DOMAIN ctxStack' : k \in DOMAIN ctxStack /\ ctxStack'[k] = ctxStack[k]
<1>1. ctxStack \in Seq(Module)
  BY DEF RInv, TypeOK
<1>2. CASE ctxStack' = Popped /\ ctxStack # <<>>
  <2>1. /\ DOMAIN ButFinal(ctxStack) = 1..(Len(ctxStack) - 1)
        /\ \A k \in 1..(Len(ctxStack) - 1) : ButFinal(ctxStack)[k] = ctxStack[k]
    BY <1>1, <1>2, ButFinalFacts
  <2>2. DOMAIN ctxStack = 1..Len(ctxStack) /\ Len(ctxStack) \in Nat
    BY <1>1
  <2> QED BY <1>2, <2>1, <2>2 DEF Popped
<1>3. CASE ctxStack' = ctxStack \/ ctxStack' = <<>>
  BY <1>3
<1> QED BY <1>2, <1>3 DEF Return, Popped

LEMMA ReturnKeeps ==
  ASSUME RInv, TypeOK', Return
  PROVE  Keeps
<1>0. PICK c, n : c = Current /\ n = Len(running)
  OBVIOUS
<1>1. /\ running # <<>> /\ life' = [life EXCEPT ![c] = "built"] /\ running' = ButFinal(running)
      /\ UNCHANGED <<maker, simmed>>
      /\ \/ ctxStack' = Popped /\ parent' = [parent EXCEPT ![c] = maker[c]]
         \/ UNCHANGED <<ctxStack, parent>>
  BY <1>0 DEF Return
<1>2. n \in DOMAIN running /\ c = running[n].mod /\ c \in Module /\ DOMAIN running = 1..n /\ n \in Nat
  BY <1>0, <1>1, CurrentFacts DEF RInv
<1>3. life[c] = "building" /\ parent[c] = Nobody
  BY <1>2 DEF RInv, Runs, RunsAt, Linked
<1>4. /\ life'[c] = "built" /\ \A x \in Module : x # c => life'[x] = life[x] /\ parent'[x] = parent[x]
      /\ parent'[c] \in {Nobody, maker[c]}
  BY <1>1, <1>2, <1>3 DEF RInv, TypeOK
<1>5. Linked'
  <2> SUFFICES ASSUME NEW x \in Module
               PROVE  /\ life'[x] = "unborn" => parent'[x] = Nobody /\ maker'[x] = Nobody
                      /\ maker'[x] # Nobody => life'[maker'[x]] # "unborn"
                      /\ parent'[x] # Nobody => parent'[x] = maker'[x] /\ life'[x] \in {"built", "gone"}
    BY DEF Linked
  <2>1. maker'[x] # Nobody => maker'[x] \in Module
    BY DEF TypeOK
  <2> QED BY <1>1, <1>3, <1>4, <2>1 DEF RInv, Linked
<1>6. DOMAIN running' = 1..(n - 1) /\ \A k \in 1..(n - 1) : running'[k] = running[k]
  <2>1. running \in Seq([mod : Module, child : BOOLEAN])
    BY DEF RInv, TypeOK
  <2> QED BY <1>0, <1>1, <2>1, ButFinalFacts
<1>7. ASSUME NEW k \in DOMAIN running'
      PROVE  /\ k \in DOMAIN running /\ running'[k] = running[k] /\ running[k].mod # c
             /\ \A j \in DOMAIN running' : j <= k => j \in DOMAIN running /\ running'[j] = running[j]
  <2>1. k \in 1..(n - 1) /\ k \in 1..n /\ k # n /\ \A j \in 1..(n - 1) : j \in 1..n
    BY <1>2, <1>6
  <2>2. running[k].mod # c
    BY <1>2, <2>1 DEF RInv, Runs
  <2> QED BY <1>2, <1>6, <2>1, <2>2
<1>8. Runs'
  <2>1. ASSUME NEW k \in DOMAIN running' PROVE RunsAt(k)'
    <3>1. k \in DOMAIN running /\ life[running[k].mod] = "building" /\ running[k].mod \in Module
      BY <1>7, CurrentFacts DEF RInv, Runs, RunsAt
    <3>2. life'[running[k].mod] = "building"
      BY <1>4, <1>7, <3>1
    <3>3. \A y \in Module : life[y] # "unborn" => life'[y] # "unborn" /\ maker'[y] = maker[y]
      BY <1>1, <1>4
    <3> QED BY <1>7, <3>1, <3>2, <3>3, RunStays
  <2>2. \A j, k \in DOMAIN running' : running'[j].mod = running'[k].mod => j = k
    BY <1>7 DEF RInv, Runs
  <2> QED BY <2>1, <2>2 DEF Runs
<1>9. \A k \in DOMAIN ctxStack' : k \in DOMAIN ctxStack /\ ctxStack'[k] = ctxStack[k]
  BY ReturnPops
<1>10. NoDangling'
  <2>1. \A x \in Module : Alive(x) => Alive(x)'
    BY <1>4 DEF Alive
  <2> QED BY <1>9, <2>1, CurrentFacts DEF NoDangling, RInv
<1>11. Settled'
  BY <1>1, <1>4 DEF RInv, Settled, TypeOK
<1> QED BY <1>5, <1>8, <1>10, <1>11 DEF Keeps

\* The constructors that go on when c ends, and the contexts left.
LEMMA DisposeLeaves ==
  ASSUME RInv, TypeOK', NEW c \in Module, Dispose(Owned(c)), Ends(c),
         running' = IF c = Current THEN ButFinal(running) ELSE running
  PROVE  /\ \A k \in DOMAIN running' :
              /\ k \in DOMAIN running /\ running'[k] = running[k]
              /\ running[k].mod \in Module \ Owned(c)
              /\ \A j \in DOMAIN running' : j <= k => j \in DOMAIN running /\ running'[j] = running[j]
         /\ \A i \in DOMAIN running : running[i].mod \notin Owned(c) => i \in DOMAIN running'
         /\ \A i \in DOMAIN ctxStack' :
              \E k \in DOMAIN ctxStack :
                ctxStack'[i] = ctxStack[k] /\ ctxStack[k] \in Module \ Owned(c)
<1>0. PICK n, gone : n = Len(running) /\ gone = Owned(c)
  OBVIOUS
<1>1. /\ Owned(c) \in SUBSET Module /\ c \in Owned(c)
      /\ \A k \in DOMAIN running : running[k].mod \in Owned(c) => running[k].mod = c
  BY GoneFacts
<1>2. /\ n \in Nat /\ DOMAIN running = 1..n /\ running \in Seq([mod : Module, child : BOOLEAN])
      /\ \A k \in 1..n : running[k].mod \in Module
  BY <1>0, CurrentFacts DEF RInv, TypeOK
<1>3. /\ \A k \in DOMAIN running' :
           /\ k \in DOMAIN running /\ running'[k] = running[k]
           /\ running[k].mod \in Module \ Owned(c)
           /\ \A j \in DOMAIN running' : j <= k => j \in DOMAIN running /\ running'[j] = running[j]
      /\ \A i \in DOMAIN running : running[i].mod \notin Owned(c) => i \in DOMAIN running'
  <2>1. CASE running # <<>> /\ c = Current
    <3>1. n \in 1..n /\ c = running[n].mod
      BY <1>0, <1>2, <2>1, CurrentFacts DEF RInv
    <3>2. /\ DOMAIN running' = 1..(n - 1)
          /\ \A k \in 1..(n - 1) : running'[k] = running[k]
      BY <1>0, <1>2, <2>1, ButFinalFacts
    <3>3. \A k \in 1..(n - 1) : k \in 1..n /\ running[k].mod # c
      <4>1. \A k \in 1..(n - 1) : k \in 1..n /\ k # n
        BY <1>2
      <4> QED BY <1>2, <3>1, <4>1 DEF RInv, Runs
    <3>4. \A i \in 1..n : running[i].mod \notin gone => i \in 1..(n - 1)
      <4>1. \A i \in 1..n : i # n => i \in 1..(n - 1)
        BY <1>2
      <4> QED BY <1>0, <1>1, <3>1, <4>1
    <3> QED BY <1>0, <1>1, <1>2, <3>2, <3>3, <3>4
  <2>2. CASE life[c] = "built"
    <3>1. \A k \in 1..n : running[k].mod # c
      BY <1>2, <2>2 DEF RInv, Runs, RunsAt
    <3>2. running' = running
      <4>1. c # Current
        BY <1>0, <1>2, <3>1, CurrentFacts, RegistrationAssumption DEF RInv
      <4> QED BY <4>1
    <3> QED BY <1>1, <1>2, <3>1, <3>2
  <2> QED BY <2>1, <2>2 DEF Ends
<1>4. \A i \in DOMAIN ctxStack' :
        \E k \in DOMAIN ctxStack : ctxStack'[i] = ctxStack[k] /\ ctxStack[k] \in Module \ gone
  <2> DEFINE places == {k \in DOMAIN ctxStack : ctxStack[k] \notin gone}
  <2>1. places \in SUBSET DOMAIN ctxStack /\ ctxStack \in Seq(Module)
    BY DEF RInv, TypeOK
  <2>2. ctxStack' = Only(ctxStack, places)
    BY <1>0 DEF Dispose, Without
  <2> HIDE DEF places
  <2>3. PICK e \in [DOMAIN Only(ctxStack, places) -> places] :
          \A i \in DOMAIN e : Only(ctxStack, places)[i] = ctxStack[e[i]]
    BY <2>1, OnlyFacts
  <2>4. ASSUME NEW i \in DOMAIN ctxStack'
        PROVE  e[i] \in places /\ ctxStack'[i] = ctxStack[e[i]]
    BY <2>2, <2>3
  <2> QED BY <2>1, <2>4, CurrentFacts DEF places, RInv
<1> QED BY <1>0, <1>3, <1>4

LEMMA DisposeKeeps ==
  ASSUME RInv, TypeOK', NEW c \in Module, Dispose(Owned(c)), Ends(c),
         running' = IF c = Current THEN ButFinal(running) ELSE running
  PROVE  Keeps
<1>1. PICK gone : gone = Owned(c)
  OBVIOUS
<1>2. /\ life' = [m \in Module |-> IF m \in gone THEN "gone" ELSE life[m]]
      /\ simmed' = simmed \ gone /\ UNCHANGED <<maker, parent>>
  BY <1>1 DEF Dispose
<1>3. Linked'
  <2> SUFFICES ASSUME NEW x \in Module
               PROVE  /\ life'[x] = "unborn" => parent'[x] = Nobody /\ maker'[x] = Nobody
                      /\ maker'[x] # Nobody => life'[maker'[x]] # "unborn"
                      /\ parent'[x] # Nobody => parent'[x] = maker'[x] /\ life'[x] \in {"built", "gone"}
    BY DEF Linked
  <2>1. maker'[x] # Nobody => maker'[x] \in Module
    BY DEF TypeOK
  <2> QED BY <1>2, <2>1 DEF RInv, Linked
<1>4. /\ \A k \in DOMAIN running' :
           /\ k \in DOMAIN running /\ running'[k] = running[k] /\ running[k].mod \in Module \ gone
           /\ \A j \in DOMAIN running' : j <= k => j \in DOMAIN running /\ running'[j] = running[j]
      /\ \A i \in DOMAIN ctxStack' :
           \E k \in DOMAIN ctxStack : ctxStack'[i] = ctxStack[k] /\ ctxStack[k] \in Module \ gone
  BY <1>1, DisposeLeaves
<1>5. Runs'
  <2>1. ASSUME NEW k \in DOMAIN running' PROVE RunsAt(k)'
    <3>1. k \in DOMAIN running /\ life[running[k].mod] = "building" /\ running[k].mod \in Module \ gone
      BY <1>4 DEF RInv, Runs, RunsAt
    <3>2. life'[running[k].mod] = "building"
      BY <1>2, <3>1
    <3>3. \A y \in Module : life[y] # "unborn" => life'[y] # "unborn" /\ maker'[y] = maker[y]
      BY <1>2
    <3> QED BY <1>4, <3>1, <3>2, <3>3, RunStays
  <2>2. \A j, k \in DOMAIN running' : running'[j].mod = running'[k].mod => j = k
    BY <1>4 DEF RInv, Runs
  <2> QED BY <2>1, <2>2 DEF Runs
<1>6. NoDangling'
  <2> SUFFICES ASSUME NEW i \in DOMAIN ctxStack' PROVE Alive(ctxStack[i])'
    BY DEF NoDangling
  <2>1. PICK k \in DOMAIN ctxStack : ctxStack'[i] = ctxStack[k] /\ ctxStack[k] \in Module \ gone
    BY <1>4
  <2>2. Alive(ctxStack[k])
    BY DEF RInv, NoDangling
  <2>3. life'[ctxStack'[i]] = life[ctxStack[k]]
    BY <1>2, <2>1
  <2> QED BY <2>2, <2>3 DEF Alive
<1>7. Settled'
  BY <1>2 DEF RInv, Settled, TypeOK
<1> QED BY <1>3, <1>5, <1>6, <1>7 DEF Keeps

\* Who ends, and how.
LEMMA EndFacts ==
  ASSUME RInv, Throw \/ \E m \in Module : Destroy(m)
  PROVE  \E c \in Module : /\ Dispose(Owned(c)) /\ Ends(c)
                           /\ running' = IF c = Current THEN ButFinal(running) ELSE running
<1>1. CASE Throw
  <2>1. Current \in Module
    BY <1>1, CurrentFacts DEF RInv, Throw
  <2> QED BY <1>1, <2>1 DEF Throw, Ends
<1>2. CASE \E m \in Module : Destroy(m)
  <2>1. PICK c \in Module : Destroy(c)
    BY <1>2
  <2>2. c # Current
    BY <2>1, CurrentFacts, RegistrationAssumption DEF RInv, Runs, RunsAt, Destroy
  <2> QED BY <2>1, <2>2 DEF Destroy, Ends
<1> QED BY <1>1, <1>2

LEMMA EveryStepKeeps ==
  ASSUME RInv, TypeOK', [Next]_vars
  PROVE  Keeps
<1>1. CASE Throw \/ \E m \in Module : Destroy(m)
  BY <1>1, EndFacts, DisposeKeeps
<1>2. CASE \/ \E m \in Module : \E name \in Name, k \in Kind : Create(m, name, k)
           \/ \E t, r \in EntityRefs : Register(t, r)
           \/ \E m \in Module : Elaborate(m)
           \/ UNCHANGED vars
  <2>1. UNCHANGED <<life, maker, parent, running>>
    BY <1>2 DEF Create, Register, Elaborate, vars, objects
  <2>2. Linked'
    BY <2>1 DEF RInv, Linked
  <2>3. Runs'
    <3>1. ASSUME NEW k \in DOMAIN running' PROVE RunsAt(k)'
      <4>1. k \in DOMAIN running /\ life'[running[k].mod] = "building"
        BY <2>1 DEF RInv, Runs, RunsAt
      <4> QED BY <2>1, <4>1, RunStays
    <3> QED BY <2>1, <3>1 DEF RInv, Runs
  <2>4. ctxStack' = ctxStack \/ ctxStack' = <<>>
    BY <1>2 DEF Create, Register, Elaborate, AfterElaborate, vars, objects
  <2>5. NoDangling'
    <3>1. ASSUME NEW k \in DOMAIN ctxStack' PROVE Alive(ctxStack[k])'
      <4>1. k \in DOMAIN ctxStack /\ ctxStack'[k] = ctxStack[k]
        BY <2>4
      <4>2. Alive(ctxStack[k])
        BY <4>1 DEF RInv, NoDangling
      <4> QED BY <2>1, <4>1, <4>2 DEF Alive
    <3> QED BY <3>1 DEF NoDangling
  <2>6. Settled'
    BY <1>2, <2>1 DEF Create, Register, Elaborate, vars, objects, RInv, Settled
  <2> QED BY <2>2, <2>3, <2>5, <2>6 DEF Keeps
<1> QED BY <1>1, <1>2, ConstructKeeps, ReturnKeeps DEF Next

LEMMA RInit == Init => RInv
<1> SUFFICES ASSUME Init PROVE RInv
  OBVIOUS
<1>1. TypeOK /\ Named
  BY RegistrationInit
<1>2. DOMAIN running = {} /\ DOMAIN ctxStack = {} /\ simmed = {}
  BY DEF Init
<1>3. Linked
  BY DEF Init, Linked
<1> QED BY <1>1, <1>2, <1>3 DEF RInv, Runs, NoDangling, Settled

LEMMA RStep == RInv /\ [Next]_vars => RInv'
<1> SUFFICES ASSUME RInv, [Next]_vars PROVE RInv'
  OBVIOUS
<1>1. TypeOK' /\ Named'
  BY TypeStep DEF RInv
<1>2. Keeps
  BY <1>1, EveryStepKeeps
<1> QED BY <1>1, <1>2 DEF RInv, Keeps

\* No context points to a destroyed module (elaborate.h:16-19), whatever constructors
\* threw, were caught and were retried, root modules built inside constructors included.
THEOREM ContextsLive == Spec => []NoDangling
<1>1. RInv /\ [Next]_vars => RInv'
  BY RStep
<1>2. RInv => NoDangling
  BY DEF RInv
<1> QED BY RInit, <1>1, <1>2, PTL DEF Spec

-----------------------------------------------------------------------------
(***************************************************************************)
(* Elaborated hierarchies.                                                 *)
(***************************************************************************)
\* A step leaves the modules of an elaborated hierarchy alone; what it links anew is the
\* child whose constructor returns.
LEMMA Moves ==
  ASSUME RInv, [Next]_vars, NEW m \in simmed \cap simmed', NEW x \in Module
  PROVE  /\ x \in Tree(m) => /\ life[x] = "built" /\ life'[x] = "built" /\ parent'[x] = parent[x]
                             /\ ~Late => entities'[x] = entities[x]
         /\ \/ Alive(x)' => Alive(x) /\ parent'[x] = parent[x]
            \/ parent'[x] = Nobody
            \/ running # <<>> /\ x = Current /\ parent'[x] = maker[x]
<1> DEFINE Goal ==
      /\ x \in Tree(m) => /\ life[x] = "built" /\ life'[x] = "built" /\ parent'[x] = parent[x]
                          /\ ~Late => entities'[x] = entities[x]
      /\ \/ Alive(x)' => Alive(x) /\ parent'[x] = parent[x]
         \/ parent'[x] = Nobody
         \/ running # <<>> /\ x = Current /\ parent'[x] = maker[x]
<1>1. x \in Tree(m) => life[x] = "built"
  BY TreeBuilt
<1>2. CASE \E y \in Module : BeginRoot(y) \/ \E p \in Module, name \in Name : BeginChild(p, y, name)
  <2>1. PICK y \in Module : /\ life[y] = "unborn" /\ life' = [life EXCEPT ![y] = "building"]
                            /\ parent' = parent /\ entities' = entities
    BY <1>2 DEF BeginRoot, BeginChild, Construct
  <2>2. x # y => life'[x] = life[x]
    BY <2>1 DEF RInv, TypeOK
  <2>3. parent[y] = Nobody
    BY <2>1 DEF RInv, Linked
  <2> QED BY <1>1, <2>1, <2>2, <2>3 DEF Alive
<1>3. CASE Return
  <2>1. PICK c : c = Current
    OBVIOUS
  <2>2. /\ c \in Module /\ running # <<>> /\ life[c] = "building" /\ parent[c] = Nobody
        /\ life' = [life EXCEPT ![c] = "built"] /\ entities' = entities
        /\ parent' = [parent EXCEPT ![c] = maker[c]] \/ parent' = parent
    BY <1>3, <2>1, CurrentFacts DEF Return, RInv, Runs, RunsAt, Linked
  <2>3. /\ x # c => life'[x] = life[x] /\ parent'[x] = parent[x]
        /\ parent'[c] \in {Nobody, maker[c]}
    BY <2>2 DEF RInv, TypeOK
  <2> QED BY <1>1, <2>1, <2>2, <2>3 DEF Alive
<1>4. CASE Throw \/ \E c \in Module : Destroy(c)
  <2>1. PICK c \in Module : Dispose(Owned(c)) /\ Ends(c)
    BY <1>4, EndFacts
  <2>2. m \in simmed \ Owned(c)
    BY <2>1 DEF Dispose
  <2>3. Tree(m) \cap Owned(c) = {}
    BY <2>1, <2>2, GoneFacts
  <2>4. /\ life'[x] = IF x \in Owned(c) THEN "gone" ELSE life[x]
        /\ parent'[x] = parent[x] /\ entities'[x] = entities[x]
    BY <2>1 DEF Dispose
  <2> QED BY <1>1, <2>3, <2>4 DEF Alive
<1>5. CASE \E y \in Module : \E name \in Name, k \in Kind : Create(y, name, k)
  <2>1. PICK y \in Module, name \in Name, k \in Kind : Create(y, name, k)
    BY <1>5
  <2>2. UNCHANGED <<life, parent>> /\ (x # y => entities'[x] = entities[x])
    BY <2>1 DEF Create, RInv, TypeOK
  <2>3. ASSUME ~Late PROVE life[y] = "building"
    <3>1. y = Current
      BY <2>1, <2>3 DEF Create
    <3>2. running # <<>>
      BY <3>1, CurrentFacts, RegistrationAssumption DEF RInv
    <3> QED BY <3>1, <3>2, CurrentFacts DEF RInv, Runs, RunsAt
  <2> QED BY <1>1, <2>2, <2>3 DEF Alive
<1>6. CASE \/ \E t, r \in EntityRefs : Register(t, r)
           \/ \E y \in Module : Elaborate(y)
           \/ UNCHANGED vars
  <2>1. UNCHANGED <<life, parent, entities>>
    BY <1>6 DEF Register, Elaborate, vars, objects
  <2> QED BY <1>1, <2>1 DEF Alive
<1>7. Goal
  <2> HIDE DEF Goal
  <2> QED BY <1>2, <1>3, <1>4, <1>5, <1>6 DEF Next, Goal
<1> QED BY <1>7

\* It stays the whole of it, but for late calls.
LEMMA TreesStay ==
  ASSUME RInv, [Next]_vars, NEW m \in simmed \cap simmed'
  PROVE  /\ m \in Module /\ Tree(m) \subseteq Module /\ Tree(m) \subseteq Tree(m)'
         /\ ~Late => Tree(m)' = Tree(m)
<1>1. m \in Module /\ Nobody \notin Tree(m) /\ Tree(m) \subseteq Module
  BY TreeBuilt, RegistrationAssumption DEF RInv, TypeOK
<1>2. \A x \in Tree(m) : x # m => Alive(x)' /\ parent'[x] = parent[x]
  BY <1>1, Moves DEF Alive
<1>3. Tree(m) \subseteq Tree(m)'
  BY <1>1, <1>2, TreeGrows
<1>4. ASSUME ~Late, NEW x \in Module, Alive(x)', parent'[x] \in Tree(m)
      PROVE  Alive(x) /\ parent'[x] = parent[x]
  <2> SUFFICES ASSUME running # <<>>, x = Current, parent'[x] = maker[x] PROVE FALSE
    BY <1>1, <1>4, Moves
  <2>1. PICK n : n = Len(running)
    OBVIOUS
  <2>2. n \in DOMAIN running /\ x = running[n].mod /\ DOMAIN running = 1..n /\ n \in Nat
    BY <2>1, CurrentFacts DEF RInv
  <2>3. maker[x] = IF n = 1 THEN Nobody ELSE running[n - 1].mod
    BY <1>4, <2>2 DEF RInv, Runs, RunsAt
  <2>4. n # 1 => life[running[n - 1].mod] = "building"
    <3>1. n # 1 => n - 1 \in DOMAIN running
      BY <2>2
    <3> QED BY <3>1 DEF RInv, Runs, RunsAt
  <2> QED BY <1>1, <1>4, <2>3, <2>4, TreeBuilt
<1>5. ~Late => Tree(m)' = Tree(m)
  BY <1>1, <1>2, <1>4, TreeSame
<1> QED BY <1>1, <1>3, <1>5

-----------------------------------------------------------------------------
(***************************************************************************)
(* What an elaborated root drives.                                         *)
(***************************************************************************)
\* Order alone makes a list: as many places come before the i-th as numbers before i.
LEMMA OrderLists ==
  ASSUME NEW S \in SUBSET Int, NEW n \in Nat, NEW e \in [1..n -> S],
         \A i, j \in 1..n : i < j => e[i] < e[j],
         \A k \in S : \E i \in 1..n : e[i] = k
  PROVE  Lists(e, S) /\ Cardinality(S) = n
<1>1. \A i \in 1..n : e[i] \in Int /\ i \in Int
  <2>1. \A i \in 1..n : e[i] \in S
    OBVIOUS
  <2>2. \A k \in S : k \in Int
    OBVIOUS
  <2>3. \A i \in 1..n : i \in Int
    OBVIOUS
  <2> QED BY <2>1, <2>2, <2>3
<1>2. \A i, j \in 1..n : (e[i] < e[j] <=> i < j) /\ (e[i] = e[j] => i = j)
  <2> TAKE i, j \in 1..n
  <2>1. (i < j => e[i] < e[j]) /\ (j < i => e[j] < e[i]) /\ (i = j => e[i] = e[j])
    OBVIOUS
  <2> QED BY <1>1, <2>1
<1>3. ASSUME NEW h \in 0..n, NEW B \in SUBSET S,
             \A k \in S : k \in B <=> \E i \in 1..h : e[i] = k
      PROVE  Cardinality(B) = h
  <2>1. h \in Nat /\ \A i \in 1..h : i \in 1..n
    OBVIOUS
  <2>2. IsFiniteSet(1..h) /\ Cardinality(1..h) = h
    <3>1. /\ IsFiniteSet(1..h)
          /\ Cardinality(1..h) = IF 1 > h THEN 0 ELSE h - 1 + 1
      BY <2>1, FS_Interval
    <3> QED BY <2>1, <3>1
  <2> DEFINE f == [i \in 1..h |-> e[i]]
  <2>3. f \in [1..h -> B]
    BY <1>3, <2>1
  <2>4. \A i, j \in 1..h : f[i] = f[j] => i = j
    BY <1>2, <2>1
  <2>5. \A k \in B : \E i \in 1..h : f[i] = k
    BY <1>3
  <2> HIDE DEF f
  <2>6. f \in Injection(1..h, B) /\ f \in Surjection(1..h, B)
    <3>1. f \in Injection(1..h, B)
      BY <2>3, <2>4 DEF Injection, IsInjective
    <3>2. f \in Surjection(1..h, B)
      BY <2>3, <2>5 DEF Surjection
    <3> QED BY <3>1, <3>2
  <2>7. Cardinality(1..h) = Cardinality(B)
    BY <2>2, <2>6, FS_Surjection
  <2> QED BY <2>2, <2>7
<1>4. Cardinality(S) = n
  <2>1. n \in 0..n
    OBVIOUS
  <2> QED BY <1>3, <2>1
<1>5. ASSUME NEW i \in 1..n PROVE Cardinality({j \in S : j < e[i]}) = i - 1
  <2> DEFINE B == {j \in S : j < e[i]}
  <2>1. i - 1 \in 0..n /\ \A j \in 1..n : j < i <=> j \in 1..(i - 1)
    OBVIOUS
  <2>2. \A k \in S : k \in B <=> \E j \in 1..(i - 1) : e[j] = k
    <3> TAKE k \in S
    <3>1. PICK j \in 1..n : e[j] = k
      OBVIOUS
    <3>2. k \in B <=> j < i
      BY <1>2, <3>1
    <3>3. \A l \in 1..(i - 1) : l \in 1..n
      BY <2>1
    <3>4. \A l \in 1..(i - 1) : e[l] = k => l = j
      BY <1>2, <3>1, <3>3
    <3> HIDE DEF B
    <3> QED BY <2>1, <3>1, <3>2, <3>4
  <2>3. B \in SUBSET S
    OBVIOUS
  <2> HIDE DEF B
  <2>4. Cardinality(B) = i - 1
    BY <1>3, <2>1, <2>2, <2>3
  <2> QED BY <2>4 DEF B
<1> QED BY <1>4, <1>5 DEF Lists

\* Picking from what was picked is picking at once.
LEMMA OnlyTwice ==
  ASSUME NEW T, NEW s \in Seq(T), NEW first \in SUBSET DOMAIN s, NEW K \in SUBSET first,
         NEW e, Lists(e, first),
         NEW places \in SUBSET DOMAIN Only(s, first),
         \A i \in DOMAIN Only(s, first) : i \in places <=> e[i] \in K
  PROVE  Only(Only(s, first), places) = Only(s, K)
<1>1. PICK u : u = Only(s, first)
  OBVIOUS
<1>2. u \in Seq(T) /\ first \in SUBSET Int
  BY <1>1, OnlyPicks
<1>3. u = [i \in 1..Cardinality(first) |-> s[e[i]]] /\ DOMAIN u = 1..Cardinality(first)
  BY <1>1, OnlyPicks
<1>4. places \in SUBSET DOMAIN u
  BY <1>1
<1>5. PICK g : Lists(g, places)
  BY <1>2, <1>4, OnlyPicks
<1>6. Only(u, places) = [i \in 1..Cardinality(places) |-> u[g[i]]]
  BY <1>2, <1>4, <1>5, OnlyPicks
<1> DEFINE n == Cardinality(places)
           h == [i \in 1..n |-> e[g[i]]]
<1>7. n \in Nat /\ \A i \in 1..n : g[i] \in places /\ h[i] = e[g[i]] /\ h[i] \in K
  <2>1. n \in Nat /\ \A i \in 1..n : g[i] \in places
    BY <1>5 DEF Lists
  <2>2. \A i \in 1..n : e[g[i]] \in K
    BY <1>1, <1>4, <2>1
  <2> QED BY <2>1, <2>2
<1>8. h \in [1..n -> K]
  BY <1>7
<1>9. \A i, j \in 1..n : i < j => h[i] < h[j]
  <2> TAKE i, j \in 1..n
  <2> HAVE i < j
  <2>1. g[i] < g[j]
    BY <1>5 DEF Lists
  <2>2. g[i] \in DOMAIN e /\ g[j] \in DOMAIN e
    BY <1>3, <1>4, <1>7 DEF Lists
  <2>3. e[g[i]] < e[g[j]]
    BY <2>1, <2>2 DEF Lists
  <2> HIDE DEF h
  <2> QED BY <1>7, <2>3
<1>10. \A k \in K : \E i \in 1..n : h[i] = k
  <2> TAKE k \in K
  <2>1. PICK j \in DOMAIN e : e[j] = k
    BY DEF Lists
  <2>2. j \in DOMAIN u
    BY <1>3, <2>1 DEF Lists
  <2>3. j \in places
    BY <1>1, <2>1, <2>2
  <2>4. PICK i \in 1..n : g[i] = j
    BY <1>5, <2>3 DEF Lists
  <2> QED BY <1>7, <2>1, <2>4
<1> HIDE DEF n
<1>11. K \in SUBSET Int /\ K \in SUBSET DOMAIN s
  BY <1>2
<1> HIDE DEF h
<1>12. Lists(h, K) /\ Cardinality(K) = n
  BY <1>7, <1>8, <1>9, <1>10, <1>11, OrderLists
<1>13. Only(s, K) = [i \in 1..n |-> s[h[i]]]
  <2>1. Only(s, K) = [i \in 1..Cardinality(K) |-> s[h[i]]]
    BY <1>11, <1>12, OnlyBy
  <2> QED BY <1>12, <2>1
<1>14. ASSUME NEW i \in 1..n PROVE u[g[i]] = s[h[i]]
  BY <1>3, <1>4, <1>7
<1>15. [i \in 1..n |-> u[g[i]]] = [i \in 1..n |-> s[h[i]]]
  BY <1>14
<1>16. Only(u, places) = [i \in 1..n |-> u[g[i]]]
  BY <1>6 DEF n
<1> QED BY <1>1, <1>13, <1>15, <1>16

\* Destruction takes none of the actions of modules that stay.
LEMMA DisposeKeepsActions ==
  ASSUME RInv, NEW group, NEW gone \in SUBSET Module, Dispose(gone), group \cap gone = {}
  PROVE  ActionsOf(group)' = ActionsOf(group)
<1> DEFINE Ref == [owner : Module, name : Name, kind : Kind]
           Act == [ctx : Module, target : Ref, read : Ref]
<1>1. acts \in Seq(Act)
  BY DEF RInv, TypeOK
<1> HIDE DEF Act
<1>2. PICK first : first = {k \in DOMAIN acts : acts[k].ctx \notin gone}
  OBVIOUS
<1>3. PICK K : K = {k \in DOMAIN acts : acts[k].ctx \in group}
  OBVIOUS
<1>4. first \in SUBSET DOMAIN acts /\ K \in SUBSET first
  BY <1>2, <1>3
<1>5. acts' = Only(acts, first)
  BY <1>2 DEF Dispose
<1>6. PICK e : Lists(e, first)
  BY <1>1, <1>4, OnlyPicks
<1>7. PICK u : u = Only(acts, first)
  OBVIOUS
<1>8. u = [i \in 1..Cardinality(first) |-> acts[e[i]]] /\ DOMAIN e = 1..Cardinality(first)
  <2>1. /\ Only(acts, first) = [i \in 1..Cardinality(first) |-> acts[e[i]]]
        /\ DOMAIN e = 1..Cardinality(first)
    BY <1>1, <1>4, <1>6, OnlyBy
  <2> QED BY <1>7, <2>1
<1>9. PICK places : places = {i \in DOMAIN u : u[i].ctx \in group}
  OBVIOUS
<1>10. \A i \in DOMAIN u : i \in places <=> e[i] \in K
  <2>1. \A i \in DOMAIN u : u[i] = acts[e[i]] /\ e[i] \in DOMAIN acts
    BY <1>4, <1>6, <1>8 DEF Lists
  <2> QED BY <1>3, <1>9, <2>1
<1>11. places \in SUBSET DOMAIN u
  BY <1>9
<1>12. Only(u, places) = Only(acts, K)
  BY <1>1, <1>4, <1>6, <1>7, <1>10, <1>11, OnlyTwice
<1>13. ActionsOf(group) = Only(acts, K)
  BY <1>3 DEF ActionsOf
<1>14. ActionsOf(group)' = Only(u, places)
  <2>1. acts' = u
    BY <1>5, <1>7
  <2> QED BY <1>9, <2>1 DEF ActionsOf
<1> QED BY <1>12, <1>13, <1>14

\* What registers adds to no group of modules without a context.
LEMMA RegisterKeepsActions ==
  ASSUME RInv, TypeOK', NEW group, \A k \in DOMAIN ctxStack : ctxStack[k] \notin group,
         NEW t \in EntityRefs, NEW r \in EntityRefs, Register(t, r)
  PROVE  ActionsOf(group)' = ActionsOf(group)
<1> DEFINE Ref == [owner : Module, name : Name, kind : Kind]
           Act == [ctx : Module, target : Ref, read : Ref]
           new == [ctx |-> Final(ctxStack), target |-> t, read |-> r]
<1>1. acts \in Seq(Act) /\ acts' \in Seq(Act) /\ acts' = Append(acts, new)
  BY DEF RInv, TypeOK, Register
<1>2. new.ctx \notin group
  <2>1. ctxStack # <<>> /\ ctxStack \in Seq(Module)
    BY DEF Register, RInv, TypeOK
  <2>2. Len(ctxStack) \in DOMAIN ctxStack
    BY <2>1
  <2> QED BY <2>2 DEF Final
<1> HIDE DEF Act, new
<1>3. PICK s : s = acts'
  OBVIOUS
<1>4. /\ DOMAIN s = DOMAIN acts \cup {Len(acts) + 1} /\ s[Len(acts) + 1] = new
      /\ \A k \in DOMAIN acts : s[k] = acts[k]
  <2>1. \A a \in Seq(Act) : LET b == Append(a, new) IN
          /\ DOMAIN b = DOMAIN a \cup {Len(a) + 1} /\ b[Len(a) + 1] = new
          /\ \A k \in DOMAIN a : b[k] = a[k]
    OBVIOUS
  <2> QED BY <1>1, <1>3, <2>1
<1>5. PICK K : K = {k \in DOMAIN acts : acts[k].ctx \in group}
  OBVIOUS
<1>6. K = {k \in DOMAIN s : s[k].ctx \in group} /\ K \in SUBSET DOMAIN acts /\ K \in SUBSET DOMAIN s
  BY <1>2, <1>4, <1>5
<1>7. s \in Seq(Act)
  BY <1>1, <1>3
<1>8. PICK e : Lists(e, K)
  BY <1>1, <1>6, OnlyPicks
<1>9. /\ Only(acts, K) = [i \in 1..Cardinality(K) |-> acts[e[i]]]
      /\ Only(s, K) = [i \in 1..Cardinality(K) |-> s[e[i]]]
  <2>0. K \in SUBSET DOMAIN acts /\ K \in SUBSET DOMAIN s
    BY <1>6
  <2>1. Only(acts, K) = [i \in 1..Cardinality(K) |-> acts[e[i]]]
    BY <1>1, <1>8, <2>0, OnlyBy
  <2>2. Only(s, K) = [i \in 1..Cardinality(K) |-> s[e[i]]]
    BY <1>7, <1>8, <2>0, OnlyBy
  <2> QED BY <2>1, <2>2
<1>10. \A i \in 1..Cardinality(K) : acts[e[i]] = s[e[i]]
  BY <1>4, <1>6, <1>8 DEF Lists
<1>11. Only(acts, K) = Only(s, K)
  BY <1>9, <1>10
<1>12. ActionsOf(group) = Only(acts, K)
  BY <1>5 DEF ActionsOf
<1>13. ActionsOf(group)' = Only(s, K)
  BY <1>3, <1>6 DEF ActionsOf
<1> QED BY <1>11, <1>12, <1>13

\* No step but a registration adds to the actions of an elaborated hierarchy's modules, or
\* takes from them.
LEMMA StepsKeepActions ==
  ASSUME RInv, [Next]_vars, NEW m \in simmed \cap simmed', NEW group \in SUBSET Tree(m),
         \A k \in DOMAIN ctxStack : ctxStack[k] \notin group
  PROVE  ActionsOf(group)' = ActionsOf(group)
<1>1. TypeOK'
  BY RStep DEF RInv
<1>2. CASE Throw \/ \E c \in Module : Destroy(c)
  <2>1. PICK c \in Module : Dispose(Owned(c)) /\ Ends(c)
    BY <1>2, EndFacts
  <2>2. m \in simmed \ Owned(c)
    BY <2>1 DEF Dispose
  <2>3. Owned(c) \in SUBSET Module /\ group \cap Owned(c) = {}
    BY <2>1, <2>2, GoneFacts
  <2> QED BY <2>1, <2>3, DisposeKeepsActions
<1>3. CASE \E t, r \in EntityRefs : Register(t, r)
  BY <1>1, <1>3, RegisterKeepsActions
<1>4. CASE acts' = acts
  BY <1>4 DEF ActionsOf
<1>5. \/ Throw
      \/ \E c \in Module : Destroy(c)
      \/ \E t, r \in EntityRefs : Register(t, r)
      \/ acts' = acts
  BY DEF Next, vars, objects, BeginRoot, BeginChild, Construct, Return, Create, Elaborate
<1> QED BY <1>2, <1>3, <1>4, <1>5

\* Modules that live on as they were have the entities they had.
LEMMA SameEntities ==
  ASSUME NEW group \in SUBSET Module,
         \A x \in group : (Alive(x)' <=> Alive(x)) /\ entities'[x] = entities[x]
  PROVE  EntitiesOf(group)' = EntitiesOf(group)
<1> DEFINE Entity(x, e) == [owner |-> x, name |-> e.name, kind |-> e.kind]
<1>1. \A u : u \in EntitiesOf(group) <=>
        \E x \in group : Alive(x) /\ \E e \in entities[x] : u = Entity(x, e)
  BY DEF EntitiesOf, EntityRefs
<1>2. \A u : u \in EntitiesOf(group)' <=>
        \E x \in group : Alive(x)' /\ \E e \in entities'[x] : u = Entity(x, e)
  BY DEF EntitiesOf, EntityRefs
<1>3. \A u : u \in EntitiesOf(group)' <=> u \in EntitiesOf(group)
  <2> HIDE DEF Entity
  <2> QED BY <1>1, <1>2
<1> QED BY <1>3

\* No context is in an elaborated hierarchy.
Frozen == \A m \in simmed : \A k \in DOMAIN ctxStack : ctxStack[k] \notin Tree(m)

\* But for late calls no module of an elaborated hierarchy gets a context again.
LEMMA FrozenStep ==
  ASSUME ~Late, RInv, Frozen, [Next]_vars
  PROVE  Frozen'
<1> SUFFICES ASSUME NEW m \in simmed', NEW k \in DOMAIN ctxStack' PROVE ctxStack'[k] \notin Tree(m)'
  BY DEF Frozen
<1>1. CASE \E y \in Module : Elaborate(y)
  BY <1>1 DEF Elaborate, AfterElaborate
<1>2. CASE ~\E y \in Module : Elaborate(y)
  <2>1. m \in simmed
    BY <1>2 DEF Next, vars, objects, BeginRoot, BeginChild, Return, Throw, Destroy, Dispose, Create, Register
  <2>2. Tree(m)' = Tree(m)
    BY <2>1, TreesStay
  <2>3. (\E j \in DOMAIN ctxStack : ctxStack'[k] = ctxStack[j]) \/ life[ctxStack'[k]] = "unborn"
    <3>0. ctxStack \in Seq(Module)
      BY DEF RInv, TypeOK
    <3>1. CASE \E y \in Module : BeginRoot(y) \/ \E p \in Module, name \in Name : BeginChild(p, y, name)
      <4>1. PICK y \in Module : ctxStack' = Append(ctxStack, y) /\ life[y] = "unborn"
        BY <3>1 DEF BeginRoot, BeginChild, Construct
      <4>2. (k \in DOMAIN ctxStack /\ ctxStack'[k] = ctxStack[k]) \/ ctxStack'[k] = y
        BY <3>0, <4>1
      <4> QED BY <4>1, <4>2
    <3>2. CASE Return
      <4>1. k \in DOMAIN ctxStack /\ ctxStack'[k] = ctxStack[k]
        BY <3>2, ReturnPops
      <4> QED BY <4>1
    <3>3. CASE Throw \/ \E c \in Module : Destroy(c)
      <4>1. TypeOK'
        BY RStep DEF RInv
      <4> QED BY <3>3, <4>1, EndFacts, DisposeLeaves
    <3>4. CASE UNCHANGED ctxStack
      BY <3>4
    <3> QED BY <1>2, <3>1, <3>2, <3>3, <3>4 DEF Next, vars, Create, Register
  <2>4. \A x \in Tree(m) : life[x] = "built"
    BY <2>1, TreeBuilt
  <2> QED BY <2>1, <2>2, <2>3, <2>4 DEF Frozen
<1> QED BY <1>1, <1>2

\* The structure of an elaborated hierarchy is frozen (elaborate.h:21-23), in a program
\* that creates and registers nowhere but in constructors, each for its own module: its
\* actions and its entities stay what elaborate() has taken them for, whatever roots are
\* built and elaborated inside constructors and whatever throws.
THEOREM ConfinedIsFrozen == ASSUME ~Late PROVE Spec => ActionsFrozen /\ EntitiesFrozen
<1>1. Init => RInv /\ Frozen
  BY RInit DEF Init, Frozen
<1>2. (RInv /\ Frozen) /\ [Next]_vars => (RInv /\ Frozen)'
  BY RStep, FrozenStep
<1>3. ASSUME RInv, Frozen, [Next]_vars, NEW m \in simmed \cap simmed'
      PROVE  /\ ActionsOf(Tree(m))' = ActionsOf(Tree(m))
             /\ EntitiesOf(Tree(m))' = EntitiesOf(Tree(m))
  <2>1. PICK X : X = Tree(m)
    OBVIOUS
  <2>2. X \subseteq Module /\ Tree(m)' = X
    BY <1>3, <2>1, TreesStay
  <2>3. ActionsOf(X)' = ActionsOf(X)
    BY <1>3, <2>1, StepsKeepActions DEF Frozen
  <2>4. \A x \in X : (Alive(x)' <=> Alive(x)) /\ entities'[x] = entities[x]
    BY <1>3, <2>1, <2>2, Moves DEF Alive
  <2>5. EntitiesOf(X)' = EntitiesOf(X)
    BY <2>2, <2>4, SameEntities
  <2>6. ActionsOf(Tree(m))' = ActionsOf(X)' /\ EntitiesOf(Tree(m))' = EntitiesOf(X)'
    BY <2>2 DEF ActionsOf, EntitiesOf
  <2> QED BY <2>1, <2>3, <2>5, <2>6
<1>4. ASSUME RInv, Frozen, [Next]_vars
      PROVE  /\ [\A m \in simmed \cap simmed' : ActionsOf(Tree(m))' = ActionsOf(Tree(m))]_vars
             /\ [\A m \in simmed \cap simmed' : EntitiesOf(Tree(m))' = EntitiesOf(Tree(m))]_vars
  BY <1>3, <1>4
<1> QED BY <1>1, <1>2, <1>4, PTL DEF Spec, ActionsFrozen, EntitiesFrozen

-----------------------------------------------------------------------------
(***************************************************************************)
(* The top of the stack, for constructors that build no root modules.      *)
(***************************************************************************)
Distinct == \A j, k \in DOMAIN ctxStack : ctxStack[j] = ctxStack[k] => j = k

\* The constructors running have their contexts in the order of the calls, and above
\* each there are only contexts of constructors it has called.
Nested ==
  \A j \in DOMAIN running :
    /\ j > 1 => running[j].child
    /\ \E k \in DOMAIN ctxStack :
         /\ ctxStack[k] = running[j].mod
         /\ \A l \in DOMAIN ctxStack :
              l > k => \E i \in DOMAIN running : i > j /\ ctxStack[l] = running[i].mod

NInv == Distinct /\ Nested

LEMMA NestedTop == ASSUME RInv, NInv PROVE TopIsRunning
<1> SUFFICES ASSUME running # <<>> PROVE ctxStack # <<>> /\ Final(ctxStack) = Current
  BY DEF TopIsRunning
<1> DEFINE n == Len(running)
           d == Len(ctxStack)
<1>1. /\ n \in DOMAIN running /\ DOMAIN running = 1..n /\ n \in Nat /\ Current = running[n].mod
      /\ DOMAIN ctxStack = 1..d /\ d \in Nat
  BY CurrentFacts DEF RInv
<1> HIDE DEF n
<1>2. PICK k \in DOMAIN ctxStack :
        /\ ctxStack[k] = running[n].mod
        /\ \A l \in DOMAIN ctxStack :
             l > k => \E i \in DOMAIN running : i > n /\ ctxStack[l] = running[i].mod
  BY <1>1 DEF NInv, Nested
<1> HIDE DEF d
<1>3. d \in DOMAIN ctxStack /\ ~(d > k)
  <2>1. \A i \in DOMAIN running : ~(i > n)
    BY <1>1
  <2> QED BY <1>1, <1>2, <2>1
<1>4. k = d
  BY <1>1, <1>3
<1>5. ctxStack # <<>>
  BY <1>3
<1> QED BY <1>1, <1>2, <1>4, <1>5 DEF Final, d

LEMMA NestedConstruct ==
  ASSUME RInv, NInv, NEW m \in Module, NEW owner, NEW child \in BOOLEAN,
         Construct(m, owner, child), child \/ running = <<>>
  PROVE  NInv'
<1> DEFINE n == Len(running)
           d == Len(ctxStack)
<1>1. /\ n \in Nat /\ DOMAIN running = 1..n /\ (running = <<>> => n = 0)
      /\ d \in Nat /\ DOMAIN ctxStack = 1..d /\ (running # <<>> => n \in 1..n)
  BY CurrentFacts DEF RInv
<1>2. running \in Seq([mod : Module, child : BOOLEAN]) /\ ctxStack \in Seq(Module)
  BY DEF RInv, TypeOK
<1>3. /\ DOMAIN running' = 1..(n + 1) /\ \A k \in 1..n : running'[k] = running[k]
      /\ running'[n + 1] = [mod |-> m, child |-> child]
  BY <1>2 DEF Construct
<1>4. /\ DOMAIN ctxStack' = 1..(d + 1) /\ \A k \in 1..d : ctxStack'[k] = ctxStack[k]
      /\ ctxStack'[d + 1] = m
  BY <1>2 DEF Construct
<1> HIDE DEF n, d
<1>5. \A k \in 1..d : ctxStack[k] # m
  BY <1>1 DEF Construct, RInv, NoDangling, Alive
<1>6. Distinct'
  <2>1. \A j, k \in 1..d : ctxStack[j] = ctxStack[k] => j = k
    BY <1>1 DEF NInv, Distinct
  <2> QED BY <1>1, <1>4, <1>5, <2>1 DEF Distinct
<1>7. ASSUME NEW j \in 1..(n + 1), j # n + 1
      PROVE  /\ j > 1 => running'[j].child
             /\ \E k \in 1..(d + 1) :
                  /\ ctxStack'[k] = running'[j].mod
                  /\ \A l \in 1..(d + 1) :
                       l > k => \E i \in 1..(n + 1) : i > j /\ ctxStack'[l] = running'[i].mod
  <2>1. j \in 1..n
    BY <1>1, <1>7
  <2>2. j > 1 => running[j].child
    BY <1>1, <2>1 DEF NInv, Nested
  <2>3. PICK k \in 1..d :
          /\ ctxStack[k] = running[j].mod
          /\ \A l \in 1..d : l > k => \E i \in 1..n : i > j /\ ctxStack[l] = running[i].mod
    BY <1>1, <2>1 DEF NInv, Nested
  <2>4. ASSUME NEW l \in 1..(d + 1), l > k
        PROVE  \E i \in 1..(n + 1) : i > j /\ ctxStack'[l] = running'[i].mod
    <3>1. CASE l = d + 1
      <4>1. n + 1 \in 1..(n + 1) /\ n + 1 > j
        BY <1>1, <2>1
      <4> QED BY <1>3, <1>4, <3>1, <4>1
    <3>2. CASE l # d + 1
      <4>1. l \in 1..d
        BY <1>1, <3>2
      <4>2. PICK i \in 1..n : i > j /\ ctxStack[l] = running[i].mod
        BY <2>3, <2>4, <4>1
      <4>3. i \in 1..(n + 1)
        BY <1>1
      <4> QED BY <1>3, <1>4, <4>1, <4>2, <4>3
    <3> QED BY <3>1, <3>2
  <2>5. k \in 1..(d + 1) /\ ctxStack'[k] = running'[j].mod
    BY <1>1, <1>3, <1>4, <2>1, <2>3
  <2> QED BY <1>3, <2>1, <2>2, <2>4, <2>5
<1>8. /\ n + 1 > 1 => running'[n + 1].child
      /\ d + 1 \in 1..(d + 1) /\ ctxStack'[d + 1] = running'[n + 1].mod
      /\ \A l \in 1..(d + 1) : ~(l > d + 1)
  BY <1>1, <1>3, <1>4
<1>9. Nested'
  BY <1>3, <1>4, <1>7, <1>8 DEF Nested
<1> QED BY <1>6, <1>9 DEF NInv

LEMMA NestedReturn ==
  ASSUME RInv, NInv, Return
  PROVE  NInv'
<1> DEFINE n == Len(running)
           d == Len(ctxStack)
<1>1. /\ n \in 1..n /\ DOMAIN running = 1..n /\ Current = running[n].mod /\ n \in Nat
      /\ d \in Nat /\ DOMAIN ctxStack = 1..d
  BY CurrentFacts DEF RInv, Return
<1>2. running \in Seq([mod : Module, child : BOOLEAN]) /\ ctxStack \in Seq(Module)
  BY DEF RInv, TypeOK
<1>3. ctxStack # <<>> /\ ctxStack[d] = running[n].mod
  BY <1>1, NestedTop DEF TopIsRunning, Return, Final
<1>4. DOMAIN running' = 1..(n - 1) /\ \A k \in 1..(n - 1) : running'[k] = running[k]
  BY <1>2, ButFinalFacts DEF Return
<1>5. ButFinal(ctxStack) = Popped
  BY <1>3 DEF Popped
<1>6. DOMAIN Popped = 1..(d - 1) /\ \A k \in 1..(d - 1) : Popped[k] = ctxStack[k]
  BY <1>2, <1>3, <1>5, ButFinalFacts
<1>7. Final(running) = running[n]
  BY DEF Final
<1> HIDE DEF n, d
<1>8. d \in 1..d
  BY <1>1, <1>2, <1>3 DEF d
<1>9. CASE running[n].child
  <2>1. ctxStack' = Popped
    BY <1>7, <1>9 DEF Return
  <2>2. Distinct'
    <3>1. \A k \in 1..(d - 1) : k \in 1..d
      BY <1>1
    <3> QED BY <1>1, <1>6, <2>1, <3>1 DEF NInv, Distinct
  <2>3. ASSUME NEW j \in 1..(n - 1)
        PROVE  /\ j > 1 => running'[j].child
               /\ \E k \in 1..(d - 1) :
                    /\ ctxStack'[k] = running'[j].mod
                    /\ \A l \in 1..(d - 1) :
                         l > k => \E i \in 1..(n - 1) : i > j /\ ctxStack'[l] = running'[i].mod
    <3>1. j \in 1..n /\ j # n
      BY <1>1
    <3>2. j > 1 => running[j].child
      BY <1>1, <3>1 DEF NInv, Nested
    <3>3. PICK k \in 1..d :
            /\ ctxStack[k] = running[j].mod
            /\ \A l \in 1..d : l > k => \E i \in 1..n : i > j /\ ctxStack[l] = running[i].mod
      <4>1. j \in DOMAIN running
        BY <1>1, <3>1
      <4>2. PICK k \in DOMAIN ctxStack :
              /\ ctxStack[k] = running[j].mod
              /\ \A l \in DOMAIN ctxStack :
                   l > k => \E i \in DOMAIN running : i > j /\ ctxStack[l] = running[i].mod
        BY <4>1 DEF NInv, Nested
      <4> QED BY <1>1, <4>2
    <3>4. k # d
      <4>1. running[j].mod # running[n].mod
        BY <1>1, <3>1 DEF RInv, Runs
      <4> QED BY <1>3, <3>3, <4>1
    <3>5. k \in 1..(d - 1)
      BY <1>1, <3>4
    <3>6. ASSUME NEW l \in 1..(d - 1), l > k
          PROVE  \E i \in 1..(n - 1) : i > j /\ ctxStack'[l] = running'[i].mod
      <4>1. l \in 1..d /\ l # d
        BY <1>1
      <4>2. PICK i \in 1..n : i > j /\ ctxStack[l] = running[i].mod
        BY <3>3, <3>6, <4>1
      <4>3. i # n
        <5>1. ctxStack[l] # ctxStack[d]
          BY <1>1, <1>8, <4>1 DEF NInv, Distinct
        <5> QED BY <1>3, <4>2, <5>1
      <4>4. i \in 1..(n - 1)
        BY <1>1, <4>3
      <4> QED BY <1>4, <1>6, <2>1, <4>2, <4>4
    <3> QED BY <1>4, <1>6, <2>1, <3>2, <3>3, <3>5, <3>6
  <2>4. Nested'
    <3>1. DOMAIN running' = 1..(n - 1) /\ DOMAIN ctxStack' = 1..(d - 1)
      BY <1>4, <1>6, <2>1
    <3> QED BY <2>3, <3>1 DEF Nested
  <2> QED BY <2>2, <2>4 DEF NInv
<1>10. CASE ~running[n].child
  <2>1. UNCHANGED ctxStack
    BY <1>7, <1>10 DEF Return
  <2>2. n = 1
    <3>1. ~(n > 1)
      BY <1>1, <1>10 DEF NInv, Nested
    <3> QED BY <1>1, <3>1
  <2>3. DOMAIN running' = {}
    BY <1>4, <2>2
  <2> QED BY <2>1, <2>3 DEF NInv, Nested, Distinct
<1> QED BY <1>9, <1>10

LEMMA NestedDispose ==
  ASSUME RInv, TypeOK', NInv, NEW c \in Module, Dispose(Owned(c)),
         Ends(c), running' = IF c = Current THEN ButFinal(running) ELSE running
  PROVE  NInv'
<1> DEFINE places == {k \in DOMAIN ctxStack : ctxStack[k] \notin Owned(c)}
<1>2. places \in SUBSET DOMAIN ctxStack /\ ctxStack \in Seq(Module)
  BY DEF RInv, TypeOK
<1>3. PICK s : s = ctxStack'
  OBVIOUS
<1>4. s = Only(ctxStack, places)
  BY <1>3 DEF Dispose, Without
<1>5. \A k \in DOMAIN ctxStack : k \in places <=> ctxStack[k] \notin Owned(c)
  OBVIOUS
<1> HIDE DEF places
<1>6. s \in Seq(Module)
  BY <1>2, <1>4, OnlyFacts
<1>7. PICK e : Lists(e, places)
  BY <1>2, OnlyPicks
<1>8. /\ DOMAIN e = DOMAIN s /\ e \in [DOMAIN s -> places]
      /\ \A i \in DOMAIN s : s[i] = ctxStack[e[i]]
      /\ \A i, j \in DOMAIN s : i < j => e[i] < e[j]
      /\ \A k \in places : \E i \in DOMAIN s : e[i] = k
  <2>1. s = [i \in 1..Cardinality(places) |-> ctxStack[e[i]]] /\ DOMAIN e = 1..Cardinality(places)
    BY <1>2, <1>4, <1>7, OnlyBy
  <2>2. DOMAIN s = 1..Cardinality(places) /\ \A i \in DOMAIN s : s[i] = ctxStack[e[i]]
    BY <2>1
  <2> QED BY <1>7, <2>1, <2>2 DEF Lists
<1>9. /\ \A i \in DOMAIN s : i \in Int /\ e[i] \in places /\ e[i] \in DOMAIN ctxStack /\ e[i] \in Int
      /\ \A k \in DOMAIN ctxStack : k \in Int
  BY <1>2, <1>6, <1>8
<1>10. Distinct'
  <2>1. ASSUME NEW i \in DOMAIN s, NEW j \in DOMAIN s, s[i] = s[j] PROVE i = j
    <3>1. e[i] = e[j]
      BY <1>8, <1>9, <2>1 DEF NInv, Distinct
    <3>2. (i < j => e[i] < e[j]) /\ (j < i => e[j] < e[i])
      BY <1>8
    <3> QED BY <1>9, <3>1, <3>2
  <2> QED BY <1>3, <2>1 DEF Distinct
\* Who still runs is none that goes; who ran and does not is the one that goes.
<1>11. \A j \in DOMAIN running' :
         j \in DOMAIN running /\ running'[j] = running[j] /\ running[j].mod \notin Owned(c)
  BY DisposeLeaves
<1>12. \A i \in DOMAIN running : running[i].mod \notin Owned(c) => i \in DOMAIN running'
  BY DisposeLeaves
<1>13. ASSUME NEW j \in DOMAIN running'
       PROVE  /\ j > 1 => running'[j].child
              /\ \E q \in DOMAIN s :
                   /\ s[q] = running'[j].mod
                   /\ \A l \in DOMAIN s :
                        l > q => \E i \in DOMAIN running' : i > j /\ s[l] = running'[i].mod
  <2>1. j \in DOMAIN running /\ running'[j] = running[j] /\ running[j].mod \notin Owned(c)
    BY <1>11
  <2>2. PICK k \in DOMAIN ctxStack :
          /\ ctxStack[k] = running[j].mod
          /\ \A l \in DOMAIN ctxStack :
               l > k => \E i \in DOMAIN running : i > j /\ ctxStack[l] = running[i].mod
    BY <2>1 DEF NInv, Nested
  <2>3. k \in places
    BY <1>5, <2>1, <2>2
  <2>4. PICK q \in DOMAIN s : e[q] = k
    BY <1>8, <2>3
  <2>5. s[q] = running'[j].mod
    BY <1>8, <2>1, <2>2, <2>4
  <2>6. ASSUME NEW l \in DOMAIN s, l > q
        PROVE  \E i \in DOMAIN running' : i > j /\ s[l] = running'[i].mod
    <3>1. e[l] > k
      <4>1. q < l
        BY <1>9, <2>6
      <4>2. e[q] < e[l]
        BY <1>8, <4>1
      <4> QED BY <1>9, <2>4, <4>2
    <3>2. PICK i \in DOMAIN running : i > j /\ ctxStack[e[l]] = running[i].mod
      BY <1>9, <2>2, <3>1
    <3>3. running[i].mod \notin Owned(c)
      BY <1>5, <1>9, <3>2
    <3>4. i \in DOMAIN running'
      BY <1>12, <3>3
    <3> QED BY <1>8, <1>11, <3>2, <3>4
  <2>7. j > 1 => running'[j].child
    BY <2>1 DEF NInv, Nested
  <2> QED BY <2>5, <2>6, <2>7
<1>14. Nested'
  BY <1>3, <1>13 DEF Nested
<1> QED BY <1>10, <1>14 DEF NInv

LEMMA NestedStep ==
  ASSUME ~Nesting, RInv, NInv, [Next]_vars
  PROVE  NInv'
<1>1. TypeOK'
  BY RStep DEF RInv
<1>2. CASE Throw \/ \E m \in Module : Destroy(m)
  BY <1>1, <1>2, EndFacts, NestedDispose
<1>3. CASE \E m \in Module : BeginRoot(m) \/ \E p \in Module, name \in Name : BeginChild(p, m, name)
  <2>1. PICK m \in Module : \E owner : \E child \in BOOLEAN :
          Construct(m, owner, child) /\ (child \/ running = <<>>)
    BY <1>3 DEF BeginRoot, BeginChild
  <2> QED BY <2>1, NestedConstruct
<1>4. CASE \E m \in Module : Elaborate(m)
  <2>1. running' = <<>> /\ ctxStack' = <<>>
    BY <1>4 DEF Elaborate, AfterElaborate
  <2> QED BY <2>1 DEF NInv, Nested, Distinct
<1>5. CASE UNCHANGED <<running, ctxStack>>
  BY <1>5 DEF NInv, Nested, Distinct
<1>6. \/ Throw \/ \E m \in Module : Destroy(m)
      \/ \E m \in Module : BeginRoot(m) \/ \E p \in Module, name \in Name : BeginChild(p, m, name)
      \/ \E m \in Module : Elaborate(m)
      \/ Return
      \/ UNCHANGED <<running, ctxStack>>
  BY DEF Next, vars, objects, Create, Register
<1> QED BY <1>1, <1>2, <1>3, <1>4, <1>5, <1>6, NestedReturn

\* The top of the stack is always the module whose constructor body is running
\* (module.h:26-28), when no constructor builds root modules: elaborate() of one of
\* those, which clears the stack, is what takes it away.
THEOREM TopOfContexts == ASSUME ~Nesting PROVE Spec => []TopIsRunning
<1>1. Init => RInv /\ NInv
  BY RInit DEF Init, NInv, Nested, Distinct
<1>2. (RInv /\ NInv) /\ [Next]_vars => (RInv /\ NInv)'
  BY RStep, NestedStep
<1>3. RInv /\ NInv => TopIsRunning
  BY NestedTop
<1> QED BY <1>1, <1>2, <1>3, PTL DEF Spec

\* Contexts are of modules that are neither linked nor elaborated: a child's goes as it is
\* linked, a root's as it is elaborated.
Clear == \A k \in DOMAIN ctxStack : parent[ctxStack[k]] = Nobody /\ ctxStack[k] \notin simmed

LEMMA ClearStep ==
  ASSUME RInv, NInv, Clear, [Next]_vars
  PROVE  Clear'
<1> SUFFICES ASSUME NEW k \in DOMAIN ctxStack'
             PROVE  parent'[ctxStack'[k]] = Nobody /\ ctxStack'[k] \notin simmed'
  BY DEF Clear
<1>0. ctxStack \in Seq(Module) /\ TypeOK'
  BY RStep DEF RInv, TypeOK
<1>1. CASE \E y \in Module : BeginRoot(y) \/ \E p \in Module, name \in Name : BeginChild(p, y, name)
  <2>1. PICK y \in Module : /\ ctxStack' = Append(ctxStack, y) /\ life[y] = "unborn"
                            /\ UNCHANGED <<parent, simmed>>
    BY <1>1 DEF BeginRoot, BeginChild, Construct
  <2>2. parent[y] = Nobody /\ y \notin simmed
    BY <2>1 DEF RInv, Linked, Settled
  <2>3. (k \in DOMAIN ctxStack /\ ctxStack'[k] = ctxStack[k]) \/ ctxStack'[k] = y
    BY <1>0, <2>1
  <2> QED BY <2>1, <2>2, <2>3 DEF Clear
<1>2. CASE Return
  <2>1. k \in DOMAIN ctxStack /\ ctxStack'[k] = ctxStack[k] /\ ctxStack[k] \in Module
    BY <1>0, <1>2, ReturnPops, CurrentFacts DEF RInv
  <2>2. parent' = parent \/ ctxStack[k] # Current
    <3> SUFFICES ASSUME Final(running).child PROVE ctxStack[k] # Current
      BY <1>2 DEF Return
    <3>1. PICK d : d = Len(ctxStack)
      OBVIOUS
    <3>2. ctxStack # <<>> /\ ctxStack[d] = Current /\ ctxStack' = ButFinal(ctxStack)
      BY <1>2, <3>1, NestedTop DEF TopIsRunning, Final, Return, Popped
    <3>3. d \in Nat /\ DOMAIN ctxStack = 1..d /\ DOMAIN ctxStack' = 1..(d - 1)
      BY <1>0, <3>1, <3>2, ButFinalFacts
    <3>4. k \in 1..d /\ d \in 1..d /\ k # d
      BY <3>3
    <3> QED BY <3>2, <3>3, <3>4 DEF NInv, Distinct
  <2>3. /\ simmed' = simmed
        /\ parent' = parent \/ parent' = [parent EXCEPT ![Current] = maker[Current]]
    BY <1>2 DEF Return
  <2>4. parent'[ctxStack[k]] = parent[ctxStack[k]]
    BY <2>1, <2>2, <2>3 DEF RInv, TypeOK
  <2> QED BY <2>1, <2>3, <2>4 DEF Clear
<1>3. CASE Throw \/ \E m \in Module : Destroy(m)
  <2>1. PICK c \in Module : /\ Dispose(Owned(c)) /\ Ends(c)
                            /\ running' = IF c = Current THEN ButFinal(running) ELSE running
    BY <1>3, EndFacts
  <2>2. PICK j \in DOMAIN ctxStack : ctxStack'[k] = ctxStack[j]
    BY <1>0, <2>1, DisposeLeaves
  <2> QED BY <2>1, <2>2 DEF Clear, Dispose
<1>4. CASE \E m \in Module : Elaborate(m)
  BY <1>4 DEF Elaborate, AfterElaborate
<1>5. CASE UNCHANGED <<parent, ctxStack, simmed>>
  BY <1>5 DEF Clear
<1>6. \/ \E y \in Module : BeginRoot(y) \/ \E p \in Module, name \in Name : BeginChild(p, y, name)
      \/ Return
      \/ Throw \/ \E m \in Module : Destroy(m)
      \/ \E m \in Module : Elaborate(m)
      \/ UNCHANGED <<parent, ctxStack, simmed>>
  BY DEF Next, vars, objects, Create, Register
<1> QED BY <1>1, <1>2, <1>3, <1>4, <1>5, <1>6

\* An elaborated hierarchy keeps its modules and each of them its actions, however often
\* createChildModule() is called on them afterwards (module.h:103-114) and whatever the
\* program registers outside constructors: elaborate.h:59 leaves none of them a context,
\* and a child that comes late has lost its own by the time it is linked.  Constructors
\* that build root modules of their own are what this asks to do without.
THEOREM StrayActionsStayOut == ASSUME ~Nesting PROVE Spec => NoStrayAction
<1>1. Init => RInv /\ NInv /\ Clear
  BY RInit DEF Init, NInv, Nested, Distinct, Clear
<1>2. (RInv /\ NInv /\ Clear) /\ [Next]_vars => (RInv /\ NInv /\ Clear)'
  BY RStep, NestedStep, ClearStep
<1>3. ASSUME RInv, Clear, [Next]_vars, NEW m \in simmed \cap simmed', NEW x \in Tree(m)
      PROVE  x \in Tree(m)' /\ ActionsOf({x})' = ActionsOf({x})
  <2>1. x \in Tree(m)'
    BY <1>3, TreesStay
  <2>2. \A k \in DOMAIN ctxStack : ctxStack[k] # x
    BY <1>3, TreeBuilt DEF Clear
  <2>3. PICK group : group = {x}
    OBVIOUS
  <2>4. ActionsOf(group)' = ActionsOf(group)
    BY <1>3, <2>2, <2>3, StepsKeepActions
  <2> QED BY <2>1, <2>3, <2>4
<1>4. ASSUME RInv, Clear, [Next]_vars
      PROVE  [\A m \in simmed \cap simmed' : \A x \in Tree(m) :
                x \in Tree(m)' /\ ActionsOf({x})' = ActionsOf({x})]_vars
  BY <1>3, <1>4
<1> QED BY <1>1, <1>2, <1>4, PTL DEF Spec, NoStrayAction
=============================================================================
