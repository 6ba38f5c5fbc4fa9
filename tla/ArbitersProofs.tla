--------------------------- MODULE ArbitersProofs ---------------------------
(***************************************************************************)
(* The arbiters for any number of requesters: both halves of each arbiter  *)
(* name the same winner, ready is free of combinational feedback, and      *)
(* RRArb lets nobody wait for more than N - 1 grants to others.            *)
(***************************************************************************)
EXTENDS Arbiters, TLAPS, WellFoundedInduction

\* A set of naturals that is not empty has a lowest member.
LEMMA LowestIn ==
  ASSUME NEW S \in SUBSET Nat, S # {}
  PROVE  Lowest(S) \in S /\ \A j \in S : Lowest(S) <= j
<1>1. \A i, j \in Nat : j < i => <<j, i>> \in OpToRel(<, Nat)
  BY Zenon DEF OpToRel
<1>2. PICK R : IsWellFoundedOn(R, Nat) /\ \A i, j \in Nat : j < i => <<j, i>> \in R
  BY <1>1, NatLessThanWellFounded, Zenon
<1>3. \E i \in S : \A j \in S : <<j, i>> \notin R
  BY <1>2, WFMin, Zenon
<1>4. PICK i \in S : \A j \in S : <<j, i>> \notin R
  BY <1>3
<1>5. \A j \in S : i <= j
  <2> TAKE j \in S
  <2>1. i \in Nat /\ j \in Nat /\ ~(j < i)
    BY <1>2, <1>4, Zenon
  <2> QED BY <2>1
<1> QED BY <1>5 DEF Lowest

\* The scan of RRArb finds a requester, and skips none on its way.
DistFrom(l, i) == IF i > l THEN i - l ELSE i + N - l
Dist(i) == DistFrom(last_grant, i)

\* Distances go from 1 to N; whatever lies beyond k is nearer to k.
LEMMA DistFacts ==
  ASSUME NEW l \in Line, NEW k \in Line, NEW n \in Line
  PROVE  /\ N \in Nat /\ DistFrom(l, n) \in 1..N
         /\ n # k /\ DistFrom(l, k) <= DistFrom(l, n) => DistFrom(k, n) < DistFrom(l, n)
  BY ArbAssumption DEF DistFrom, Line

LEMMA Scan ==
  ASSUME TypeOK, NEW R \in SUBSET Line, R # {}
  PROVE  /\ RRChosen(R) \in R
         /\ \A j \in R : Dist(RRChosen(R)) <= Dist(j)
<1> DEFINE K == {k \in 1..N : Wrap(last_grant + k) \in R}
<1>1. N \in Nat \ {0} /\ last_grant \in 0..(N - 1)
  BY ArbAssumption DEF TypeOK, Line
<1>2. \A i \in Line : Dist(i) \in 1..N /\ Wrap(last_grant + Dist(i)) = i
  BY <1>1 DEF Dist, DistFrom, Wrap, Line
<1>3. \A k \in 1..N : Wrap(last_grant + k) \in Line /\ Dist(Wrap(last_grant + k)) = k
  BY <1>1 DEF Dist, DistFrom, Wrap, Line
<1>4. K # {} /\ K \in SUBSET Nat
  BY <1>1, <1>2
<1>5. Lowest(K) \in K /\ \A k \in K : Lowest(K) <= k
  BY <1>4, LowestIn
<1>6. RRChosen(R) = Wrap(last_grant + Lowest(K))
  BY DEF RRChosen
<1>7. Dist(RRChosen(R)) = Lowest(K)
  BY <1>3, <1>5, <1>6
<1>8. \A j \in R : Dist(j) \in K
  BY <1>2
<1> QED BY <1>5, <1>6, <1>7, <1>8

-----------------------------------------------------------------------------
\* The Reg of RRArb always names a requester: the scan wraps within the vector.
THEOREM ArbTypeCorrect == Spec => []TypeOK
<1>1. Init => TypeOK
  <2>1. 0 \in Line
    BY ArbAssumption DEF Line
  <2>2. [i \in Line |-> FALSE] \in [Line -> BOOLEAN] /\ [i \in Line |-> 0] \in [Line -> Nat]
    OBVIOUS
  <2> QED BY <2>1, <2>2 DEF Init, TypeOK
<1>2. TypeOK /\ [Next]_vars => TypeOK'
  <2> SUFFICES ASSUME TypeOK, [Next]_vars PROVE TypeOK'
    OBVIOUS
  <2>1. ASSUME NEW i \in Line, SetIn(i) PROVE TypeOK'
    BY <2>1 DEF SetIn, TypeOK
  <2>2. CASE SetOutRdy
    BY <2>2 DEF SetOutRdy, TypeOK
  <2>3. CASE Posedge
    <3>1. Requests \subseteq Line /\ Requests # {}
      BY <2>3 DEF Requests, Posedge, w_out_fire
    <3>2. last_grant' \in Line
      BY <2>3, <3>1, Scan DEF Posedge
    <3>3. passed' \in [Line -> Nat]
      BY <2>3 DEF Posedge, TypeOK
    <3> QED BY <2>3, <3>2, <3>3 DEF Posedge, TypeOK
  <2>4. CASE UNCHANGED vars
    BY <2>4 DEF vars, TypeOK
  <2> QED BY <2>1, <2>2, <2>3, <2>4 DEF Next
<1> QED BY <1>1, <1>2, PTL DEF Spec

-----------------------------------------------------------------------------
\* FixedArb: the only requester with nobody requesting below it is the lowest.
THEOREM FixedServesOne == Spec => []FixedOneWinner
<1>1. TypeOK => FixedOneWinner
  <2> SUFFICES ASSUME TypeOK PROVE FixedOneWinner
    OBVIOUS
  <2>1. Requests \in SUBSET Nat /\ Requests \subseteq Line /\ out_rdy \in BOOLEAN
    BY ArbAssumption DEF Requests, Line, TypeOK
  <2>2. CASE Requests = {}
    BY <2>2 DEF FixedOneWinner, Served, Winner, w_out_fire
  <2>3. CASE Requests # {}
    <3>1. /\ FixedChosen(Requests) \in Requests
          /\ \A j \in Requests : FixedChosen(Requests) <= j
      BY <2>1, <2>3, LowestIn DEF FixedChosen
    <3>2. ASSUME NEW i \in Requests
          PROVE  (\A j \in Requests : i <= j) <=> i = FixedChosen(Requests)
      <4>1. i \in Nat /\ FixedChosen(Requests) \in Nat
        BY <2>1, <3>1
      <4>2. (\A j \in Requests : i <= j) => i <= FixedChosen(Requests)
        BY <3>1
      <4> QED BY <3>1, <4>1, <4>2
    <3> QED BY <2>1, <2>3, <3>1, <3>2
            DEF FixedOneWinner, Served, Winner, w_out_fire, FixedReady
  <2> QED BY <2>2, <2>3
<1> QED BY <1>1, ArbTypeCorrect, PTL

\* RRArb: the two passes of in_rdy single out the requester the scan finds.
THEOREM RRServesOne == Spec => []RROneWinner
<1>1. TypeOK => RROneWinner
  <2> SUFFICES ASSUME TypeOK PROVE RROneWinner
    OBVIOUS
  <2>1. /\ Requests \subseteq 0..(N - 1) /\ Requests \subseteq Line /\ out_rdy \in BOOLEAN
        /\ N \in Nat /\ last_grant \in 0..(N - 1)
    BY ArbAssumption DEF Requests, Line, TypeOK
  <2>2. CASE Requests = {}
    BY <2>2 DEF RROneWinner, Served, Winner, w_out_fire
  <2>3. CASE Requests # {}
    <3> DEFINE c == RRChosen(Requests)
               wins(i) == \/ i > last_grant /\ \A j \in After(Requests) : i <= j
                          \/ After(Requests) = {} /\ \A j \in Requests : i <= j
    <3>1. c \in Requests /\ \A j \in Requests : Dist(c) <= Dist(j)
      BY <2>1, <2>3, Scan
    <3> HIDE DEF c
    <3>2. wins(c)
      <4>1. CASE c > last_grant
        BY <2>1, <3>1, <4>1 DEF Dist, DistFrom, After
      <4>2. CASE c <= last_grant
        <5>1. ASSUME NEW j \in Requests PROVE ~(j > last_grant)
          <6>1. Dist(c) <= Dist(j) /\ c \in 0..(N - 1) /\ j \in 0..(N - 1)
            BY <2>1, <3>1
          <6> QED BY <2>1, <4>2, <6>1 DEF Dist, DistFrom
        <5>2. ASSUME NEW j \in Requests PROVE c <= j
          <6>1. Dist(c) <= Dist(j) /\ c \in 0..(N - 1) /\ j \in 0..(N - 1) /\ ~(j > last_grant)
            BY <2>1, <3>1, <5>1
          <6> QED BY <2>1, <4>2, <6>1 DEF Dist, DistFrom
        <5> QED BY <5>1, <5>2 DEF After
      <4> QED BY <2>1, <3>1, <4>1, <4>2
    <3>3. \A i \in Requests : wins(i) => i = c
      BY <2>1, <3>1, <3>2 DEF After
    <3>4. \A i \in Requests : i \in RRReady(Requests) <=> out_rdy /\ i = c
      BY <2>1, <3>2, <3>3 DEF RRReady
    <3> QED BY <2>1, <2>3, <3>1, <3>4 DEF RROneWinner, Served, Winner, w_out_fire, c
  <2> QED BY <2>2, <2>3
<1> QED BY <1>1, ArbTypeCorrect, PTL

\* Raising one's own valid can end the first pass's search, never one's ready.
THEOREM ReadyFeedbackFree == Spec => []ReadyIgnoresOwnValid
<1>1. TypeOK => ReadyIgnoresOwnValid
  <2> SUFFICES ASSUME TypeOK, NEW i \in Line
               PROVE  i \in RRReady(Requests \cup {i}) <=> i \in RRReady(Requests \ {i})
    BY DEF ReadyIgnoresOwnValid
  <2>1. Requests \subseteq 0..(N - 1) /\ i \in 0..(N - 1) /\ N \in Nat /\ last_grant \in 0..(N - 1)
    BY ArbAssumption DEF Requests, Line, TypeOK
  <2> QED BY <2>1 DEF RRReady, After
<1> QED BY <1>1, ArbTypeCorrect, PTL

-----------------------------------------------------------------------------
\* A grant moves last_grant towards every waiting requester and never past it.
Approaching == \A i \in Line : passed[i] + Dist(i) <= N

\* Nobody waits for more than N - 1 grants to others.
THEOREM NobodyStarves == Spec => []BoundedWait
<1>1. Init => Approaching
  BY ArbAssumption DEF Init, Approaching, Dist, DistFrom, Line
<1>2. TypeOK /\ TypeOK' /\ Approaching /\ [Next]_vars => Approaching'
  <2> SUFFICES ASSUME TypeOK, TypeOK', Approaching, [Next]_vars, NEW n \in Line
               PROVE  passed'[n] + DistFrom(last_grant', n) <= N
    BY DEF Approaching, Dist
  <2>1. /\ N \in Nat \ {0} /\ n \in 0..(N - 1)
        /\ last_grant \in 0..(N - 1) /\ last_grant' \in 0..(N - 1)
        /\ passed \in [Line -> Nat] /\ passed[n] + Dist(n) <= N
    BY ArbAssumption DEF TypeOK, Line, Approaching
  <2>0. Dist(n) \in 1..N /\ (last_grant' = last_grant => DistFrom(last_grant', n) = Dist(n))
    BY DistFacts DEF Dist, TypeOK
  <2>2. ASSUME NEW i \in Line, SetIn(i) PROVE passed'[n] + DistFrom(last_grant', n) <= N
    <3>1. passed'[n] \in {passed[n], 0} /\ last_grant' = last_grant
      BY <2>1, <2>2 DEF SetIn
    <3> QED BY <2>0, <2>1, <3>1
  <2>3. CASE SetOutRdy
    BY <2>0, <2>1, <2>3 DEF SetOutRdy
  <2>4. CASE Posedge
    <3>1. Requests \in SUBSET Line /\ Requests # {}
      BY <2>4 DEF Requests, Posedge, w_out_fire
    <3>2. /\ last_grant' \in Requests /\ \A j \in Requests : Dist(last_grant') <= Dist(j)
      BY <2>4, <3>1, Scan DEF Posedge
    <3>3. CASE n \in Requests /\ n # last_grant'
      <4>1. passed'[n] = passed[n] + 1 /\ Dist(last_grant') <= Dist(n)
        BY <2>4, <3>2, <3>3 DEF Posedge
      <4>2. DistFrom(last_grant', n) < Dist(n)
        BY <3>3, <4>1, DistFacts DEF Dist, TypeOK
      <4>3. passed[n] \in Nat /\ Dist(n) \in Nat /\ DistFrom(last_grant', n) \in Nat /\ N \in Nat
        BY <2>1, DistFacts DEF Dist, TypeOK
      <4> QED BY <2>1, <4>1, <4>2, <4>3
    <3>4. CASE ~(n \in Requests /\ n # last_grant')
      <4>1. passed'[n] = 0
        BY <2>4, <3>4 DEF Posedge
      <4>2. DistFrom(last_grant', n) \in 1..N
        BY DistFacts DEF TypeOK
      <4> QED BY <2>1, <4>1, <4>2
    <3> QED BY <3>3, <3>4
  <2>5. CASE UNCHANGED vars
    BY <2>0, <2>1, <2>5 DEF vars
  <2> QED BY <2>2, <2>3, <2>4, <2>5 DEF Next
<1>3. TypeOK /\ Approaching => BoundedWait
  <2> SUFFICES ASSUME TypeOK, Approaching, NEW i \in Line PROVE passed[i] < N
    BY DEF BoundedWait
  <2>1. passed[i] + Dist(i) <= N /\ passed[i] \in Nat
    BY DEF TypeOK, Approaching
  <2>2. N \in Nat /\ Dist(i) \in 1..N
    BY DistFacts DEF Dist, TypeOK
  <2> QED BY <2>1, <2>2
<1> QED BY <1>1, <1>2, <1>3, ArbTypeCorrect, PTL DEF Spec
=============================================================================
