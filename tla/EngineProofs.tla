---------------------------- MODULE EngineProofs ----------------------------
(***************************************************************************)
(* What module Engine does on every netlist elaboration accepts, whatever  *)
(* its size, the width of a bitmap word, the caps, and the order in which  *)
(* the harness pokes inputs, calls eval() and flips debug switches.        *)
(***************************************************************************)
EXTENDS Engine, TLAPS, WellFoundedInduction, FiniteSetTheorems

-----------------------------------------------------------------------------
(***************************************************************************)
(* Facts about the structures of module Netlist that hold for every        *)
(* netlist elaboration accepts: consequences of its assumptions.           *)
(***************************************************************************)
\* Aliases lead to cells in one step; inputs and state elements are cells of
\* their own, and only a Mem is aliased to a Mem.
LEMMA CellFacts ==
  /\ Cell \subseteq Entity
  /\ \A c \in Cell : Canon[c] = c
  /\ \A e \in Entity : Canon[e] \in Cell
  /\ \A e \in Entity \ Mem : Canon[e] \in Cell \ Mem
  /\ Mem \subseteq Cell /\ Reg \subseteq Cell /\ Input \subseteq Cell
<1>1. Cell \subseteq Entity /\ \A e \in Entity : Canon[e] \in Cell
  BY StructureAssumption DEF Cell
<1>2. \A c \in Cell : Canon[c] = c
  BY StructureAssumption DEF Cell
<1>3. \A e \in Entity : Canon[e] \in Mem => e \in Mem
  BY StructureAssumption
<1>4. Mem \subseteq Entity /\ Reg \subseteq Entity /\ Input \subseteq Entity
  BY StructureAssumption
<1>5. \A e \in Mem \cup Reg \cup Input : Canon[e] = e
  BY StructureAssumption
<1> QED BY <1>1, <1>2, <1>3, <1>4, <1>5

\* An action drives a cell that is no root input, from declared names; the
\* address of a Mem Update is a word-valued signal it declared as a read.
LEMMA ActionFacts ==
  ASSUME NEW a \in Action
  PROVE  /\ a \in Nat
         /\ Target[a] \in Cell /\ Target[a] \notin Input
         /\ Plain[a] \subseteq Entity
         /\ Guard[a] \subseteq Entity \ Mem
         /\ Target[a] \in Mem => Addr[a] \in Entity \ Mem /\ Addr[a] \in Plain[a]
<1>1. a \in Nat /\ Target[a] \in Entity /\ Plain[a] \subseteq Entity
  BY StructureAssumption
<1>2. Guard[a] \subseteq Entity \ Mem
  BY StructureAssumption
<1>3. Canon[Target[a]] = Target[a] /\ Target[a] \notin Input
  BY DriverAssumption
<1>4. ASSUME Target[a] \in Mem
      PROVE  Addr[a] \in Entity \ Mem /\ Addr[a] \in Plain[a]
  <2>1. a \in {b \in Action : Target[b] \in Mem}
    BY <1>4
  <2>2. DOMAIN Addr = {b \in Action : Target[b] \in Mem} /\ Addr[a] \in Entity \ Mem
    BY <2>1, DriverAssumption
  <2> QED BY <2>1, <2>2, DriverAssumption
<1> QED BY <1>1, <1>2, <1>3, <1>4, CellFacts

\* Only an Update has events, at least one, each an edge of a signal.
LEMMA EventFacts ==
  ASSUME NEW a \in Action
  PROVE  /\ Len(Events[a]) \in Nat /\ DOMAIN Events[a] = 1..Len(Events[a])
         /\ \A i \in DOMAIN Events[a] : Events[a][i].sig \in Entity \ Mem
                                       /\ Events[a][i].kind \in Edge
         /\ ~IsUpdate(a) => DOMAIN Events[a] = {}
         /\ IsUpdate(a) => Events[a] # <<>>
<1> DEFINE Ev == [sig : Entity \ Mem, kind : Edge]
<1>1. Events[a] \in Seq(Ev)
  BY StructureAssumption
<1>2. Events[a] = <<>> <=> ~IsUpdate(a)
  BY StructureAssumption
<1>3. \A i \in DOMAIN Events[a] : Events[a][i] \in Ev
  <2> HIDE DEF Ev
  <2> QED BY <1>1
<1>4. Len(Events[a]) \in Nat /\ DOMAIN Events[a] = 1..Len(Events[a])
  BY <1>1
<1>5. ASSUME Events[a] = <<>> PROVE DOMAIN Events[a] = {}
  <2>1. Len(Events[a]) = 0
    BY <1>5
  <2> QED BY <2>1, <1>4
<1> QED BY <1>2, <1>3, <1>4, <1>5

\* The schedule is a nonempty sequence of nonempty items.
LEMMA ExecFacts ==
  /\ Len(Exec) \in Nat /\ Len(Exec) >= 1
  /\ \A p \in Pos : Len(Exec[p]) \in Nat /\ Len(Exec[p]) >= 1
  /\ \A p \in Pos : \A k \in 1..Len(Exec[p]) : Exec[p][k] \in Action /\ Exec[p][k] \in Item(p)
<1>1. Exec \in Seq(Seq(Action) \ {<<>>}) /\ Exec # <<>>
  BY ExecAssumption
<1>2. Len(Exec) \in Nat /\ Len(Exec) >= 1
  BY <1>1
<1>3. ASSUME NEW p \in Pos PROVE Exec[p] \in Seq(Action) /\ Exec[p] # <<>>
  BY <1>1 DEF Pos
<1>4. ASSUME NEW p \in Pos PROVE Len(Exec[p]) \in Nat /\ Len(Exec[p]) >= 1
  BY <1>3
<1>5. ASSUME NEW p \in Pos, NEW k \in 1..Len(Exec[p])
      PROVE  Exec[p][k] \in Action /\ Exec[p][k] \in Item(p)
  BY <1>3 DEF Item
<1> QED BY <1>2, <1>4, <1>5

\* A position outside the groups holds one action; a group holds Assigns.
LEMMA ItemFacts ==
  ASSUME NEW p \in Pos
  PROVE  /\ Item(p) \subseteq Action
         /\ p \notin Group => Single(p) \in Action /\ Item(p) = {Single(p)}
         /\ p \in Group => \A a \in Item(p) : ~IsUpdate(a)
<1>1. Item(p) \subseteq Action
  BY ExecFacts DEF Item
<1>2. ASSUME p \notin Group PROVE Single(p) \in Action /\ Item(p) = {Single(p)}
  <2>1. Len(Exec[p]) = 1
    BY <1>2, ExecAssumption
  <2>2. Item(p) = {Exec[p][1]}
    BY <2>1 DEF Item
  <2> QED BY <2>2, <1>1 DEF Single
<1>3. p \in Group => \A a \in Item(p) : ~IsUpdate(a)
  BY ExecAssumption
<1> QED BY <1>1, <1>2, <1>3

\* The earliest registered action of a nonempty set is one of its members.
LEMMA EarliestIn ==
  ASSUME NEW S \in SUBSET Nat, S # {}
  PROVE  Earliest(S) \in S /\ \A b \in S : Earliest(S) <= b
<1>1. \A a, b \in Nat : b < a => <<b, a>> \in OpToRel(<, Nat)
  BY Zenon DEF OpToRel
<1>2. PICK R : IsWellFoundedOn(R, Nat) /\ \A a, b \in Nat : b < a => <<b, a>> \in R
  BY <1>1, NatLessThanWellFounded, Zenon
<1>3. \E a \in S : \A b \in S : <<b, a>> \notin R
  BY <1>2, WFMin, Zenon
<1>4. PICK a \in S : \A b \in S : <<b, a>> \notin R
  BY <1>3
<1>5. \A b \in S : a <= b
  <2> TAKE b \in S
  <2>1. a \in Nat /\ b \in Nat
    OBVIOUS
  <2>2. ~(b < a)
    BY <1>2, <1>4, <2>1, Zenon
  <2> QED BY <2>1, <2>2
<1> QED BY <1>5 DEF Earliest

\* The user's function returns a word whatever valuation it sees, a bool where
\* its target is one.
LEMMA ComputeType ==
  ASSUME NEW a \in Action, NEW w, IsValuation(w)
  PROVE  Compute(a, w) \in Value /\ (Target[a] \in EventCell => Compute(a, w) \in Bool)
<1> DEFINE s == [e \in Plain[a] \ Mem |-> w[Canon[e]]]
           m == [e \in Plain[a] \cap Mem |-> w[Canon[e]]]
<1>0. Plain[a] \subseteq Entity
  BY StructureAssumption
<1>1. ASSUME NEW e \in Plain[a] \ Mem PROVE w[Canon[e]] \in Value
  <2>1. e \in Entity /\ Canon[e] \in Cell /\ Canon[e] \notin Mem
    BY <1>0, StructureAssumption DEF Cell
  <2> QED BY <2>1 DEF IsValuation, Content
<1>2. ASSUME NEW e \in Plain[a] \cap Mem PROVE w[Canon[e]] \in [Row -> Value]
  <2>1. e \in Entity /\ Canon[e] \in Cell /\ Canon[e] \in Mem
    BY <1>0, StructureAssumption DEF Cell
  <2> QED BY <2>1 DEF IsValuation, Content
<1>3. s \in [Plain[a] \ Mem -> Value] /\ m \in [Plain[a] \cap Mem -> [Row -> Value]]
  BY <1>1, <1>2
<1>4. View(a, w) = [e \in Plain[a] |-> IF e \in Mem THEN m[e] ELSE s[e]]
  BY DEF View
<1> DEFINE out == Fn(a, [e \in Plain[a] |-> IF e \in Mem THEN m[e] ELSE s[e]])
<1>5. out \in Value /\ (Target[a] \in EventCell => out \in Bool)
  BY <1>3, FnAssumption
<1> QED BY <1>4, <1>5 DEF Compute

-----------------------------------------------------------------------------
\* An action's result depends only on the cells it reads.
LEMMA ComputeSame ==
  ASSUME NEW a \in Action, NEW w, NEW u, \A c \in Reads(a) : u[c] = w[c]
  PROVE  Compute(a, u) = Compute(a, w) /\ (GuardPass(a, u) <=> GuardPass(a, w))
<1>1. \A e \in Plain[a] \cup Guard[a] : u[Canon[e]] = w[Canon[e]]
  BY DEF Reads
<1>2. View(a, u) = View(a, w)
  BY <1>1 DEF View
<1> QED BY <1>1, <1>2 DEF Compute, GuardPass

\* What an action reads is a storage cell.
LEMMA ReadsInCell ==
  ASSUME NEW a \in Action
  PROVE  Reads(a) \subseteq Cell
<1>1. \A i \in DOMAIN Events[a] : Events[a][i].sig \in Entity
  BY EventFacts
<1>2. Plain[a] \cup Guard[a] \cup EventSigs(a) \subseteq Entity
  BY <1>1, ActionFacts DEF EventSigs
<1> QED BY <1>2, CellFacts DEF Reads

\* A signal has one producer; an input or a state element has none.
LEMMA OneProducer ==
  ASSUME NEW c, NEW p \in Producer(c), NEW q \in Producer(c)
  PROVE  p = q
<1>1. PICK a \in Item(p) : ~IsUpdate(a) /\ Target[a] = c
  BY DEF Producer
<1>2. PICK b \in Item(q) : ~IsUpdate(b) /\ Target[b] = c
  BY DEF Producer
<1>3. p \in Pos /\ q \in Pos
  BY DEF Producer
<1>4. a \in Action /\ b \in Action
  BY <1>1, <1>2, <1>3, ItemFacts
<1>5. a = b
  BY <1>1, <1>2, <1>4, DriverAssumption
<1>6. PICK j \in 1..Len(Exec[p]) : Exec[p][j] = a
  BY <1>1 DEF Item
<1>7. PICK k \in 1..Len(Exec[q]) : Exec[q][k] = b
  BY <1>2 DEF Item
<1> QED BY <1>3, <1>5, <1>6, <1>7, ExecAssumption

\* A root input or a state element is driven by no Assign.
LEMMA NoProducer ==
  ASSUME NEW c \in Input \cup Chain
  PROVE  Producer(c) = {}
<1> SUFFICES ASSUME NEW p \in Producer(c) PROVE FALSE
  OBVIOUS
<1>1. PICK a \in Item(p) : ~IsUpdate(a) /\ Target[a] = c
  BY DEF Producer
<1>2. a \in Action
  BY <1>1, ItemFacts DEF Producer
<1>3. c \notin Input
  BY <1>1, <1>2, ActionFacts
<1>4. c \in Reg \cup Mem
  BY <1>3 DEF Chain, IsUpdate
<1> QED BY <1>1, <1>4 DEF IsUpdate

\* A chain is a state element with at least one Update.
LEMMA ChainFacts ==
  ASSUME NEW r \in Chain
  PROVE  r \in Cell /\ Updates(r) \subseteq Action /\ Updates(r) # {}
BY ActionFacts DEF Chain, Updates

\* The reader of a signal runs after its producer, except inside a group.
LEMMA ReaderFollows ==
  ASSUME NEW q \in Pos, NEW a \in Item(q), NEW c \in Reads(a), NEW p \in Producer(c)
  PROVE  p \in Pos /\ (p < q \/ (p = q /\ p \in Group))
BY ExecAssumption DEF Producer

\* A dependency wakes a position that reads the cell and does not produce it.
LEMMA DepsFacts ==
  ASSUME NEW c \in Cell
  PROVE  /\ Deps[c] \subseteq Pos
         /\ \A q \in Deps[c] : q \notin Producer(c) /\ \E a \in Item(q) : c \in Reads(a)
BY DEF Deps

\* An event slot belongs to an Update scheduled on its own.
LEMMA SlotFacts ==
  ASSUME NEW s \in Slots
  PROVE  s[1] \in Pos \ Group /\ s[2] \in DOMAIN Events[Single(s[1])]
BY DEF Slots

\* A watch stands for an event, on that very cell, of an Update that reads it.
LEMMA WatchFacts ==
  ASSUME NEW c \in Cell, NEW k \in Edge, NEW s \in Watch[c][k]
  PROVE  /\ s[1] \in Pos \ Group /\ Single(s[1]) \in Action
         /\ s[2] \in DOMAIN Events[Single(s[1])]
         /\ s[2] \in WatchSlot(Single(s[1]), c)
         /\ Events[Single(s[1])][s[2]].kind = k
         /\ c \in Reads(Single(s[1]))
<1>1. s \in Slots /\ s[2] \in WatchSlot(Single(s[1]), c) /\ Events[Single(s[1])][s[2]].kind = k
  BY DEF Watch
<1>2. s[1] \in Pos \ Group /\ s[2] \in DOMAIN Events[Single(s[1])]
  BY <1>1, SlotFacts
<1>3. Canon[Events[Single(s[1])][s[2]].sig] = c
  BY <1>1 DEF WatchSlot
<1>4. Events[Single(s[1])][s[2]].sig \in EventSigs(Single(s[1]))
  BY <1>2 DEF EventSigs
<1> QED BY <1>1, <1>2, <1>3, <1>4, ItemFacts DEF Reads

\* Whoever a change of a signal may wake runs after the producer of the signal.
LEMMA DependentFollows ==
  ASSUME NEW c \in Cell, NEW p \in Producer(c), NEW q,
         q \in Deps[c] \/ \E k \in Edge : \E s \in Watch[c][k] : q = s[1]
  PROVE  p \in Pos /\ q \in Pos /\ p < q
<1>1. CASE q \in Deps[c]
  <2>1. q \in Pos /\ q # p
    BY <1>1, DepsFacts
  <2>2. PICK a \in Item(q) : c \in Reads(a)
    BY <1>1, DepsFacts
  <2> QED BY <2>1, <2>2, ReaderFollows
<1>2. CASE \E k \in Edge : \E s \in Watch[c][k] : q = s[1]
  <2>1. q \in Pos \ Group /\ Single(q) \in Action /\ c \in Reads(Single(q))
    BY <1>2, WatchFacts
  <2>2. Single(q) \in Item(q)
    BY <2>1, ItemFacts
  <2> QED BY <2>1, <2>2, ReaderFollows
<1> QED BY <1>1, <1>2

\* A position that a change of c does not wake has no Assign reading c.
LEMMA UnwokenReadsNot ==
  ASSUME NEW c \in Cell, NEW p \in Pos, p \notin Producer(c), p \notin Deps[c],
         NEW a \in Item(p), ~IsUpdate(a)
  PROVE  c \notin Reads(a)
<1> SUFFICES ASSUME c \in Reads(a) PROVE FALSE
  OBVIOUS
<1>1. a \in Action
  BY ItemFacts
<1>2. DOMAIN Events[a] = {}
  BY <1>1, EventFacts
<1>3. WatchSlot(a, c) = {}
  BY <1>2 DEF WatchSlot
<1> QED BY <1>3 DEF Deps

-----------------------------------------------------------------------------
\* Words of the bitmap: later positions are never in an earlier word.
LEMMA WordFacts ==
  /\ \A p \in Pos : Word(p) \in Nat /\ Word(p) <= p - 1 /\ Word(p) <= LastWord
  /\ \A p, q \in Pos : p <= q => Word(p) <= Word(q)
  /\ LastWord \in Nat /\ LastWord < Len(Exec)
<1>1. WordBits \in Nat /\ WordBits >= 1
  BY ValueAssumption
<1>2. ASSUME NEW n \in Nat
      PROVE  /\ n \div WordBits \in Nat
             /\ WordBits * (n \div WordBits) <= n
             /\ n < WordBits * (n \div WordBits) + WordBits
  BY <1>1
<1>3. ASSUME NEW m \in Nat, NEW n \in Nat, m <= n
      PROVE  m \div WordBits <= n \div WordBits
  <2> DEFINE x == m \div WordBits
             y == n \div WordBits
  <2>1. x \in Nat /\ y \in Nat /\ WordBits * x <= m /\ n < WordBits * y + WordBits
    BY <1>2
  <2> HIDE DEF x, y
  <2>2. WordBits * x < WordBits * (y + 1)
    BY <1>1, <1>3, <2>1
  <2>3. x < y + 1
    BY <1>1, <2>1, <2>2
  <2>4. x <= y
    BY <2>1, <2>3
  <2> QED BY <2>4 DEF x, y
<1>4. ASSUME NEW n \in Nat PROVE n \div WordBits <= n
  BY <1>1
<1>5. Len(Exec) \in Nat /\ Len(Exec) >= 1
  BY ExecFacts
<1>6. \A p \in Pos : p \in Nat /\ p - 1 \in Nat /\ p <= Len(Exec)
  BY <1>5 DEF Pos
<1>7. \A p, q \in Pos : p <= q => Word(p) <= Word(q)
  BY <1>3, <1>6 DEF Word
<1>8. Len(Exec) \in Pos
  BY <1>5 DEF Pos
<1>9. \A p \in Pos : Word(p) \in Nat /\ Word(p) <= p - 1
  BY <1>2, <1>4, <1>6 DEF Word
<1> QED BY <1>5, <1>6, <1>7, <1>8, <1>9 DEF LastWord

-----------------------------------------------------------------------------
(***************************************************************************)
(* One write site.                                                         *)
(***************************************************************************)

\* Who a write may wake, and who it must.
LEMMA WokenFacts ==
  ASSUME NEW c \in Cell, NEW w
  PROVE  /\ \A q \in Woken(c, w) : q \in Deps[c] \/ \E k \in Edge : \E s \in Watch[c][k] : q = s[1]
         /\ Woken(c, w) \subseteq Pos /\ Flagged(c, w) \subseteq Pos
         /\ c \in Mem \/ w[c] # val[c] => Deps[c] \subseteq Woken(c, w)
<1>1. Direction(c, w) \in Edge
  BY DEF Direction, Edge
<1>2. Passing(c, Direction(c, w), w) \subseteq Watch[c][Direction(c, w)]
  BY DEF Passing
<1>3. \A s \in Passing(c, Direction(c, w), w) : s[1] \in Pos
  BY <1>1, <1>2, WatchFacts
<1>4. Deps[c] \subseteq Pos
  BY DepsFacts
<1>5. \A q \in Woken(c, w) : q \in Deps[c] \/ \E s \in Passing(c, Direction(c, w), w) : q = s[1]
  BY DEF Woken
<1>6. Flagged(c, w) \subseteq Pos
  BY <1>3 DEF Flagged
<1>at. c \in Mem \/ w[c] # val[c] => Deps[c] \subseteq Woken(c, w)
  BY DEF Woken
<1> QED BY <1>1, <1>2, <1>3, <1>4, <1>5, <1>6, <1>at

\* A write changes its own cell and no other.
LEMMA WriteVal ==
  ASSUME WiresOK, NEW c \in Cell, NEW v, NEW cleared, Write(c, v, cleared)
  PROVE  DOMAIN val' = Cell /\ val'[c] = v /\ \A d \in Cell : d # c => val'[d] = val[d]
BY DEF Write, WiresOK, IsValuation

\* Histories advanced by a write site still hold words.
LEMMA AdvanceType ==
  ASSUME WiresOK, NEW c \in Cell, NEW w, c \notin Mem => w[c] \in Value
  PROVE  /\ DOMAIN Advance(c, w) = Action
         /\ \A a \in Action : Advance(c, w)[a] \in [DOMAIN Events[a] -> Value]
<1>1. \A s \in Skipped(c, w) : w[c] \in Value
  BY DEF Skipped
<1>2. ASSUME NEW a \in Action PROVE Advance(c, w)[a] \in [DOMAIN Events[a] -> Value]
  <2>1. prev[a] \in [DOMAIN Events[a] -> Value]
    BY DEF WiresOK
  <2> QED BY <1>1, <2>1 DEF Advance
<1> QED BY <1>2 DEF Advance

\* A write of a value of the cell's type keeps every wire in its type.
LEMMA WriteType ==
  ASSUME WiresOK, NEW c \in Cell, NEW v \in Content(c), NEW cleared, Write(c, v, cleared)
  PROVE  WiresOK'
<1> DEFINE w == [val EXCEPT ![c] = v]
<1>1. w[c] = v /\ (c \notin Mem => w[c] \in Value)
  BY DEF WiresOK, IsValuation, Content
<1>2. IsValuation(val)'
  BY WriteVal DEF WiresOK, IsValuation
<1>3. prev' = Advance(c, w)
  BY DEF Write
<1>4. (DOMAIN prev = Action /\ \A a \in Action : prev[a] \in [DOMAIN Events[a] -> Value])'
  <2> HIDE DEF w
  <2> QED BY <1>1, <1>3, AdvanceType
<1>5. act' \subseteq Pos /\ ebit' \subseteq Pos
  <2>1. act' = (act \ cleared) \cup Woken(c, w) /\ ebit' = ebit \cup Flagged(c, w)
    BY DEF Write
  <2>2. Woken(c, w) \subseteq Pos /\ Flagged(c, w) \subseteq Pos
    <3> HIDE DEF w
    <3> QED BY WokenFacts
  <2> QED BY <2>1, <2>2 DEF WiresOK
<1> QED BY <1>2, <1>4, <1>5 DEF WiresOK

-----------------------------------------------------------------------------
(***************************************************************************)
(* Type correctness.                                                       *)
(***************************************************************************)

\* What an Update chain lands on its target is a value of the target's type.
LEMMA LandingType ==
  ASSUME TypeOK, NEW r \in Chain, Raised(r) # {}
  PROVE  Landing(r) \in Content(r)
<1>1. r \in Cell /\ Raised(r) \subseteq Action
  BY ChainFacts DEF Raised
<1>2. Action \subseteq Nat
  BY StructureAssumption
<1>3. \A a \in Action : intent[a].data \in Value
  BY DEF TypeOK, CommitsOK
<1>4. CASE r \in Mem
  <2>1. val[r] \in [Row -> Value]
    BY <1>1, <1>4 DEF TypeOK, WiresOK, IsValuation, Content
  <2>2. ASSUME NEW x \in Row
        PROVE  LET here == {a \in Raised(r) : intent[a].row = x} IN
                 (IF here = {} THEN val[r][x] ELSE intent[Earliest(here)].data) \in Value
    <3> DEFINE here == {a \in Raised(r) : intent[a].row = x}
    <3>1. here \subseteq Action /\ here \in SUBSET Nat
      BY <1>1, <1>2
    <3>2. here # {} => Earliest(here) \in here
      BY <3>1, EarliestIn
    <3> QED BY <2>1, <3>1, <3>2, <1>3
  <2>3. Landing(r) = [x \in Row |-> LET here == {a \in Raised(r) : intent[a].row = x} IN
                        IF here = {} THEN val[r][x] ELSE intent[Earliest(here)].data]
    BY <1>4 DEF Landing
  <2> QED BY <1>4, <2>2, <2>3 DEF Content
<1>5. CASE r \notin Mem
  <2>1. Earliest(Raised(r)) \in Action
    BY <1>1, <1>2, EarliestIn
  <2> QED BY <1>3, <1>5, <2>1 DEF Landing, Content
<1> QED BY <1>4, <1>5

\* What elaborate() leaves behind is well typed.
LEMMA InitType == Init => TypeOK
<1> SUFFICES ASSUME Init PROVE TypeOK
  OBVIOUS
<1>1. 0 \in Value /\ 0 \in Row /\ SccIterCap \in Nat \ {0} /\ RoundCap \in Nat \ {0}
  BY ValueAssumption
<1>2. IsValuation(Initial)
  BY <1>1 DEF Initial, IsValuation, Content
<1>3. WiresOK
  BY <1>1, <1>2 DEF Init, WiresOK
<1>4. CommitsOK
  BY <1>1 DEF Init, CommitsOK
<1>5. ControlOK
  BY <1>1, ExecFacts DEF Init, ControlOK
<1>6. HistoryOK
  BY <1>2 DEF Init, HistoryOK
<1> QED BY <1>3, <1>4, <1>5, <1>6 DEF TypeOK

\* The cell an event, a guard or an address is read from holds a word.
LEMMA SignalValue ==
  ASSUME WiresOK, NEW e \in Entity \ Mem
  PROVE  val[Canon[e]] \in Value
BY CellFacts DEF WiresOK, IsValuation, Content

\* What a wire is written by an Assign has the wire's type.
LEMMA AssignType ==
  ASSUME WiresOK, NEW a \in Action, ~IsUpdate(a)
  PROVE  Target[a] \in Cell /\ Compute(a, val) \in Content(Target[a])
<1>1. Target[a] \in Cell /\ Target[a] \notin Mem
  BY ActionFacts DEF IsUpdate
<1>2. Compute(a, val) \in Value
  BY ComputeType DEF WiresOK
<1> QED BY <1>1, <1>2 DEF Content

\* Outside an SCC group runSccGroup's locals do not exist.
LEMMA OutsideGroup ==
  ASSUME ControlOK, pc # "group", pc' \in {"idle", "scan", "commit"}, UNCHANGED locals,
         at' \in 0..(Len(Exec) + 1), round' \in 0..(RoundCap - 1)
  PROVE  ControlOK'
BY DEF ControlOK, locals

\* A step that moves nothing of the control outside a group keeps its type.
LEMMA SameControl ==
  ASSUME ControlOK, pc # "group", UNCHANGED <<pc, at, locals, round>>
  PROVE  ControlOK'
BY DEF ControlOK, locals

\* The steps that leave every wire, intent and history in its type at once.
LEMMA HarnessType ==
  ASSUME TypeOK, Harness
  PROVE  TypeOK'
<1>1. CASE \E i \in Input : Set(i)
  <2>1. PICK i \in Input : Set(i)
    BY <1>1
  <2>2. PICK v \in Drive[i] : Write(i, v, {})
    BY <2>1 DEF Set
  <2>3. i \in Cell /\ i \notin Mem
    BY CellFacts, StructureAssumption
  <2>4. v \in Content(i)
    BY <2>3, DriveAssumption DEF Content
  <2>5. WiresOK'
    BY <2>2, <2>3, <2>4, WriteType DEF TypeOK
  <2>6. ControlOK'
    BY <2>1, SameControl DEF Set, TypeOK
  <2> QED BY <2>1, <2>5, <2>6 DEF TypeOK, CommitsOK, HistoryOK, Set, commits, modes
<1>2. CASE TraceOn
  <2>1. ASSUME NEW a \in Action
        PROVE  [i \in DOMAIN Events[a] |-> val[Canon[Events[a][i].sig]]]
                 \in [DOMAIN Events[a] -> Value]
    BY EventFacts, SignalValue DEF TypeOK
  <2>2. WiresOK'
    BY <1>2, <2>1 DEF TraceOn, TypeOK, WiresOK
  <2>3. ControlOK'
    BY <1>2, SameControl DEF TraceOn, MaySwitch, TypeOK
  <2> QED BY <1>2, <2>2, <2>3 DEF TraceOn, TypeOK, CommitsOK, HistoryOK, commits, ghosts
<1>3. CASE TraceOff \/ OtherRootTrace \/ MutexSwitch
  <2>1. ControlOK'
    BY <1>3, SameControl DEF TraceOff, OtherRootTrace, MutexSwitch, MaySwitch, TypeOK
  <2>2. WiresOK' /\ CommitsOK'
    BY <1>3 DEF TraceOff, OtherRootTrace, MutexSwitch, TypeOK, WiresOK, CommitsOK,
                wires, commits, IsValuation
  <2>3. HistoryOK'
    BY <1>3 DEF TraceOff, OtherRootTrace, MutexSwitch, TypeOK, HistoryOK, ghosts, IsValuation
  <2> QED BY <2>1, <2>2, <2>3 DEF TypeOK
<1>4. CASE BeginEval
  <2>1. at' \in 0..(Len(Exec) + 1) /\ round' \in 0..(RoundCap - 1)
    BY <1>4, ExecFacts, ValueAssumption DEF BeginEval, ScanStart
  <2>2. ControlOK'
    BY <1>4, <2>1, OutsideGroup DEF BeginEval, TypeOK
  <2> QED BY <1>4, <2>2 DEF BeginEval, TypeOK, WiresOK, CommitsOK, HistoryOK,
                            wires, commits, modes, ghosts, IsValuation
<1> QED BY <1>1, <1>2, <1>3, <1>4 DEF Harness

\* Where phase 1 goes on after an item stays within the bitmap or the sweep.
LEMMA PassedType ==
  ASSUME TypeOK, NEW p \in Pos, Passed, trace => p = at, ~trace => Word(p) = at
  PROVE  at' \in 0..(Len(Exec) + 1)
BY WordFacts, ExecFacts DEF Passed, TypeOK, ControlOK, Pos

\* Dispatching one position of the schedule keeps the types.
LEMMA RunType ==
  ASSUME TypeOK, NEW p \in Pos, RunAssign(p) \/ RunUpdate(p) \/ EnterGroup(p)
  PROVE  TypeOK'
<1>1. CASE RunAssign(p)
  <2> DEFINE a == Single(p)
  <2>1. a \in Action /\ ~IsUpdate(a)
    BY <1>1, ItemFacts DEF RunAssign
  <2>2. Target[a] \in Cell /\ Compute(a, val) \in Content(Target[a])
    BY <2>1, AssignType DEF TypeOK
  <2>3. WiresOK'
    BY <1>1, <2>2, WriteType DEF RunAssign, TypeOK
  <2>4. at' \in 0..(Len(Exec) + 1)
    BY <1>1, PassedType DEF RunAssign, Picked
  <2>5. ControlOK'
    BY <1>1, <2>4, OutsideGroup DEF RunAssign, Picked, TypeOK, ControlOK
  <2> QED BY <1>1, <2>3, <2>5 DEF RunAssign, TypeOK, CommitsOK, HistoryOK, commits, modes, ghosts
<1>2. CASE RunUpdate(p)
  <2> DEFINE a == Single(p)
  <2>1. a \in Action /\ IsUpdate(a)
    BY <1>2, ItemFacts DEF RunUpdate
  <2>2. [i \in DOMAIN Events[a] |-> val[Canon[Events[a][i].sig]]] \in [DOMAIN Events[a] -> Value]
    BY <2>1, EventFacts, SignalValue DEF TypeOK
  <2>3. WiresOK'
    <3>1. IsValuation(val)' /\ (act \subseteq Pos)' /\ (ebit \subseteq Pos)'
      BY <1>2 DEF RunUpdate, ConsumeEdge, TypeOK, WiresOK, IsValuation
    <3>2. prev' = prev \/ prev' = [prev EXCEPT ![a] =
                                     [i \in DOMAIN Events[a] |-> val[Canon[Events[a][i].sig]]]]
      BY <1>2 DEF RunUpdate
    <3>3. DOMAIN prev' = Action /\ \A b \in Action : prev'[b] \in [DOMAIN Events[b] -> Value]
      <4> DEFINE fresh == [i \in DOMAIN Events[a] |-> val[Canon[Events[a][i].sig]]]
      <4>1. fresh \in [DOMAIN Events[a] -> Value]
        BY <2>2
      <4>2. prev' = prev \/ prev' = [prev EXCEPT ![a] = fresh]
        BY <3>2
      <4> HIDE DEF fresh
      <4> QED BY <2>1, <4>1, <4>2 DEF TypeOK, WiresOK
    <3> QED BY <3>1, <3>3 DEF WiresOK
  <2>4. Compute(a, val) \in Value
    BY <2>1, ComputeType DEF TypeOK, WiresOK
  <2>5. Address(a) \in Value
    <3>1. CASE Target[a] \in Mem
      BY <2>1, <3>1, ActionFacts, SignalValue DEF Address, TypeOK
    <3>2. CASE Target[a] \notin Mem
      BY <3>2, ValueAssumption DEF Address
    <3> QED BY <3>1, <3>2
  <2>6. \/ intent' = intent
        \/ /\ intent' = [intent EXCEPT ![a] = [row |-> Address(a), data |-> Compute(a, val)]]
           /\ Target[a] \in Mem => Address(a) \in Row
    BY <1>2 DEF RunUpdate
  <2>7. CommitsOK'
    <3>1. intent' \in [Action -> [row : Value, data : Value]]
      BY <2>1, <2>4, <2>5, <2>6 DEF TypeOK, CommitsOK
    <3>2. ASSUME NEW b \in Action, Target[b] \in Mem PROVE intent'[b].row \in Row
      <4>1. intent[b].row \in Row
        BY <3>2 DEF TypeOK, CommitsOK
      <4>2. CASE intent' = intent
        BY <4>1, <4>2
      <4>3. CASE /\ intent' = [intent EXCEPT ![a] = [row |-> Address(a), data |-> Compute(a, val)]]
                 /\ Target[a] \in Mem => Address(a) \in Row
        BY <2>1, <3>2, <4>1, <4>3 DEF TypeOK, CommitsOK
      <4> QED BY <2>6, <4>2, <4>3
    <3>3. intents' \subseteq {b \in Action : IsUpdate(b)}
      BY <1>2, <2>1 DEF RunUpdate, TypeOK, CommitsOK
    <3>4. cbits' \subseteq Chain
      BY <1>2, <2>1 DEF RunUpdate, TypeOK, CommitsOK, Chain
    <3>5. ncommit' \in Nat
      BY <1>2 DEF RunUpdate, TypeOK, CommitsOK
    <3> QED BY <3>1, <3>2, <3>3, <3>4, <3>5 DEF CommitsOK
  <2>8. ControlOK'
    <3>1. Passed => at' \in 0..(Len(Exec) + 1)
      BY <1>2, PassedType DEF RunUpdate, Picked
    <3>2. pc' \in {"idle", "scan"} /\ at' \in 0..(Len(Exec) + 1)
      BY <1>2, <3>1 DEF RunUpdate, Picked, Throw, TypeOK, ControlOK
    <3> QED BY <1>2, <3>2 DEF RunUpdate, Picked, TypeOK, ControlOK, locals
  <2>9. HistoryOK'
    BY <1>2 DEF RunUpdate, Throw, TypeOK, HistoryOK, modes
  <2> QED BY <2>3, <2>7, <2>8, <2>9 DEF TypeOK
<1>3. CASE EnterGroup(p)
  <2>1. WiresOK'
    BY <1>3 DEF EnterGroup, TypeOK, WiresOK
  <2>2. ControlOK'
    <3>1. Len(Exec[p]) \in Nat /\ 0 \in 0..(SccIterCap - 1)
      BY ExecFacts, ValueAssumption
    <3>2. grp' \in [pos : Group, k : Nat \ {0}, iter : 0..(SccIterCap - 1)]
      BY <1>3, <3>1 DEF EnterGroup
    <3>3. grp'.k <= Len(Exec[grp'.pos]) + 1
      BY <1>3, <3>1 DEF EnterGroup
    <3>4. IsValuation(snap)'
      BY <1>3 DEF EnterGroup, TypeOK, WiresOK, IsValuation
    <3>5. at' = IF trace' THEN grp'.pos ELSE Word(grp'.pos)
      BY <1>3 DEF EnterGroup, Picked, modes
    <3> QED BY <1>3, <3>2, <3>3, <3>4, <3>5 DEF EnterGroup, TypeOK, ControlOK
  <2> QED BY <1>3, <2>1, <2>2 DEF EnterGroup, TypeOK, CommitsOK, HistoryOK, commits, modes, ghosts
<1> QED BY <1>1, <1>2, <1>3

\* Inside an SCC group.
LEMMA GroupType ==
  ASSUME TypeOK, GroupAction \/ GroupPass
  PROVE  TypeOK'
<1> DEFINE p == grp.pos
<1>1. pc = "group"
  BY DEF GroupAction, GroupPass
<1>at. at = IF trace THEN p ELSE Word(p)
  BY <1>1 DEF TypeOK, ControlOK
<1>2. grp \in [pos : Group, k : Nat \ {0}, iter : 0..(SccIterCap - 1)] /\ IsValuation(snap)
  BY <1>1 DEF TypeOK, ControlOK
<1>3. p \in Group /\ p \in Pos
  BY <1>2, ExecAssumption
<1>4. Len(Exec[p]) \in Nat /\ Len(Exec[p]) >= 1 /\ SccIterCap \in Nat \ {0}
  BY <1>3, ExecFacts, ValueAssumption
<1>5. CASE GroupAction
  <2> DEFINE a == Exec[p][grp.k]
  <2>1. grp.k \in 1..Len(Exec[p])
    BY <1>2, <1>4, <1>5 DEF GroupAction
  <2>2. a \in Action /\ a \in Item(p)
    BY <1>3, <2>1, ExecFacts
  <2>3. ~IsUpdate(a)
    BY <1>3, <2>2, ItemFacts
  <2>4. WiresOK'
    <3>1. Write(Target[a], Compute(a, val), {})
      BY <1>5 DEF GroupAction
    <3>2. Target[a] \in Cell /\ Compute(a, val) \in Content(Target[a])
      BY <2>2, <2>3, AssignType DEF TypeOK
    <3> HIDE DEF a
    <3> QED BY <3>1, <3>2, WriteType DEF TypeOK
  <2>5. ControlOK'
    <3>1. grp' = [grp EXCEPT !.k = @ + 1] /\ UNCHANGED <<snap, pc, at, round>>
      BY <1>5 DEF GroupAction
    <3>2. grp' \in [pos : Group, k : Nat \ {0}, iter : 0..(SccIterCap - 1)]
      BY <1>2, <3>1
    <3>3. grp'.k <= Len(Exec[grp'.pos]) + 1
      BY <1>2, <2>1, <1>4, <3>1
    <3>4. at' = IF trace' THEN grp'.pos ELSE Word(grp'.pos)
      BY <1>at, <1>2, <1>5, <3>1 DEF GroupAction, modes
    <3> QED BY <1>1, <3>1, <3>2, <3>3, <3>4 DEF TypeOK, ControlOK, IsValuation
  <2> QED BY <1>5, <2>4, <2>5 DEF GroupAction, TypeOK, CommitsOK, HistoryOK, commits, modes, ghosts
<1>6. CASE GroupPass
  <2>1. WiresOK' /\ CommitsOK'
    BY <1>6 DEF GroupPass, TypeOK, WiresOK, CommitsOK, wires, commits, IsValuation
  <2>2. HistoryOK'
    BY <1>6 DEF GroupPass, Throw, TypeOK, HistoryOK, modes, IsValuation
  <2>3. round' \in 0..(RoundCap - 1)
    BY <1>6 DEF GroupPass, TypeOK, ControlOK
  <2>4. at \in 0..(Len(Exec) + 1)
    BY DEF TypeOK, ControlOK
  <2>5. CASE Changed /\ ~ItersExhausted
    <3>1. grp' = [grp EXCEPT !.k = 1, !.iter = @ + 1] /\ snap' = val /\ pc' = pc /\ at' = at
      BY <1>6, <2>5 DEF GroupPass
    <3>2. grp' \in [pos : Group, k : Nat \ {0}, iter : 0..(SccIterCap - 1)]
      <4>1. grp.iter + 1 \in 0..(SccIterCap - 1)
        BY <1>2, <1>4, <2>5 DEF ItersExhausted
      <4>2. grp' = [pos |-> grp.pos, k |-> 1, iter |-> grp.iter + 1] /\ grp.pos \in Group
        BY <1>2, <3>1
      <4> QED BY <4>1, <4>2
    <3>3. grp'.k <= Len(Exec[grp'.pos]) + 1
      BY <1>2, <1>4, <3>1
    <3>4. IsValuation(snap)'
      BY <3>1 DEF TypeOK, WiresOK, IsValuation
    <3>5. at' = IF trace' THEN grp'.pos ELSE Word(grp'.pos)
      BY <1>at, <1>2, <1>6, <3>1 DEF GroupPass, modes
    <3>6. ControlOK'
      BY <1>1, <2>3, <2>4, <3>1, <3>2, <3>3, <3>4, <3>5 DEF ControlOK
    <3> QED BY <2>1, <2>2, <3>6 DEF TypeOK
  <2>6. CASE ~Changed \/ ItersExhausted
    <3>1. pc' \in {"scan", "idle"} /\ grp' = <<>> /\ snap' = <<>> /\ (Passed \/ at' = at)
      BY <1>6, <2>6 DEF GroupPass, Throw
    <3>2. at' \in 0..(Len(Exec) + 1)
      BY <1>at, <1>3, <2>4, <3>1, PassedType
    <3> QED BY <2>1, <2>2, <2>3, <3>1, <3>2 DEF ControlOK, TypeOK
  <2> QED BY <2>5, <2>6
<1> QED BY <1>5, <1>6

\* The ends of a word, of phase 1 and of a round, and phase 2.
LEMMA PhaseType ==
  ASSUME TypeOK, NextWord \/ EndScan \/ EndRound
  PROVE  TypeOK'
<1>1. pc # "group" /\ at \in 0..(Len(Exec) + 1) /\ round \in 0..(RoundCap - 1)
  BY DEF NextWord, EndScan, ScanDone, EndRound, TypeOK, ControlOK
<1>2. at' \in 0..(Len(Exec) + 1)
  BY <1>1, WordFacts, ExecFacts DEF NextWord, EndScan, EndRound, ScanStart
<1>3. round' \in 0..(RoundCap - 1)
  BY <1>1, ValueAssumption DEF NextWord, EndScan, EndRound, RoundsExhausted
<1>4. pc' \in {"idle", "scan", "commit"} /\ UNCHANGED locals
  BY DEF NextWord, EndScan, EndRound, Throw
<1>5. ControlOK'
  BY <1>1, <1>2, <1>3, <1>4, OutsideGroup DEF TypeOK
<1>6. WiresOK'
  BY DEF NextWord, EndScan, EndRound, TypeOK, WiresOK, wires, IsValuation
<1>7. CommitsOK'
  BY DEF NextWord, EndScan, EndRound, TypeOK, CommitsOK, commits
<1>8. HistoryOK'
  BY DEF NextWord, EndScan, EndRound, Throw, TypeOK, HistoryOK, WiresOK, modes, ghosts, IsValuation
<1> QED BY <1>5, <1>6, <1>7, <1>8 DEF TypeOK

\* Committing one chain keeps the types.
LEMMA CommitType ==
  ASSUME TypeOK, NEW r \in Chain, CommitChain(r)
  PROVE  TypeOK'
<1>1. pc # "group" /\ UNCHANGED <<at, locals, round, intent, modes>> /\ pc' \in {"idle", "commit"}
  BY DEF CommitChain, Throw
<1>2. ControlOK'
  BY <1>1, OutsideGroup DEF TypeOK, ControlOK
<1>3. CommitsOK'
  BY <1>1 DEF CommitChain, TypeOK, CommitsOK
<1>4. HistoryOK'
  BY <1>1 DEF CommitChain, Throw, TypeOK, HistoryOK, modes, IsValuation
<1>5. WiresOK'
  <2>1. CASE UNCHANGED wires
    BY <2>1 DEF TypeOK, WiresOK, wires, IsValuation
  <2>2. CASE Raised(r) # {} /\ Write(r, Landing(r), {})
    BY <2>2, LandingType, ChainFacts, WriteType DEF TypeOK
  <2> QED BY <2>1, <2>2 DEF CommitChain
<1> QED BY <1>2, <1>3, <1>4, <1>5 DEF TypeOK

\* Every step keeps the types.
LEMMA TypeStep ==
  ASSUME TypeOK, [Next]_vars
  PROVE  TypeOK'
<1>1. CASE UNCHANGED vars
  BY <1>1 DEF vars, wires, commits, locals, modes, ghosts, TypeOK, WiresOK, CommitsOK,
              ControlOK, HistoryOK, IsValuation
<1>2. CASE Harness
  BY <1>2, HarnessType
<1>3. CASE Eval
  <2>1. CASE \E p \in Pos : RunAssign(p) \/ RunUpdate(p) \/ EnterGroup(p)
    BY <2>1, RunType
  <2>2. CASE GroupAction \/ GroupPass
    BY <2>2, GroupType
  <2>3. CASE NextWord \/ EndScan \/ EndRound
    BY <2>3, PhaseType
  <2>4. CASE \E r \in Chain : CommitChain(r)
    BY <2>4, CommitType
  <2> QED BY <1>3, <2>1, <2>2, <2>3, <2>4 DEF Eval
<1> QED BY <1>1, <1>2, <1>3 DEF Next

\* Every variable keeps its type, on every netlist and under every harness:
\* the iteration and round counters never reach their caps (engine.h:53-58,
\* 246-252), and no intent on a Mem ever holds a row outside it, because the
\* address check throws before the intent is stored (action.h:684-698).
THEOREM TypeCorrect == Spec => []TypeOK
<1>1. TypeOK /\ [Next]_vars => TypeOK'
  BY TypeStep
<1> QED BY InitType, <1>1, PTL DEF Spec

\* Only the mutex assertion strands an intent: it is the one Error thrown after
\* a chain's bit is cleared and before its intents are (engine.h:158-167).
THEOREM OnlyMutexStrands == Spec => []StrandedOnlyByMutex
<1>1. Init => StrandedOnlyByMutex
  BY DEF Init, StrandedOnlyByMutex, NoIntentStranded
<1>2. ASSUME TypeOK, StrandedOnlyByMutex, [Next]_vars
      PROVE  StrandedOnlyByMutex'
  <2> USE DEF StrandedOnlyByMutex, NoIntentStranded
  <2>1. CASE UNCHANGED <<intents, cbits>> /\ errs \subseteq errs'
    BY <1>2, <2>1
  <2>2. CASE \E p \in Pos : RunUpdate(p)
    <3>1. PICK p \in Pos : RunUpdate(p)
      BY <2>2
    <3>2. /\ intents' \subseteq intents \cup {Single(p)}
          /\ Single(p) \in intents' \ intents => Target[Single(p)] \in cbits'
          /\ cbits \subseteq cbits' /\ errs \subseteq errs'
      BY <3>1 DEF RunUpdate, Throw
    <3> QED BY <1>2, <3>2
  <2>3. CASE \E r \in Chain : CommitChain(r)
    <3>1. PICK r \in Chain : CommitChain(r)
      BY <2>3
    <3>2. cbits' = cbits \ {r} /\ errs \subseteq errs'
      BY <3>1 DEF CommitChain, Throw
    <3>3. CASE "mutex" \in errs'
      BY <3>3
    <3>4. CASE "mutex" \notin errs'
      <4>1. intents' = intents \ Raised(r)
        BY <3>1, <3>4 DEF CommitChain, Throw
      <4>2. \A a \in intents : a \in Action
        BY <1>2 DEF TypeOK, CommitsOK
      <4>3. \A a \in intents' : a \in intents /\ Target[a] # r
        BY <4>1, <4>2 DEF Raised, Updates
      <4> QED BY <1>2, <3>2, <3>4, <4>3
    <3> QED BY <3>3, <3>4
  <2>4. CASE UNCHANGED vars
    BY <2>1, <2>4 DEF vars, commits, ghosts
  <2>5. CASE Harness
    BY <2>1, <2>5 DEF Harness, Set, TraceOn, TraceOff, OtherRootTrace, MutexSwitch, BeginEval,
                      commits, ghosts
  <2>6. CASE \E p \in Pos : RunAssign(p) \/ EnterGroup(p)
    BY <2>1, <2>6 DEF RunAssign, EnterGroup, commits, ghosts
  <2>7. CASE GroupAction \/ GroupPass \/ NextWord \/ EndScan \/ EndRound
    BY <2>1, <2>7 DEF GroupAction, GroupPass, NextWord, EndScan, EndRound, Throw, commits, ghosts
  <2> QED BY <1>2, <2>2, <2>3, <2>4, <2>5, <2>6, <2>7 DEF Next, Eval
<1> QED BY <1>1, <1>2, TypeCorrect, PTL DEF Spec

-----------------------------------------------------------------------------
(***************************************************************************)
(* The dirty-driven invariant.  CleanIsSettled alone is not inductive: a   *)
(* group is in transit while runSccGroup() iterates, a full sweep clears   *)
(* no bit, and an empty bitmap means "settled" only because the scan never *)
(* leaves a bit behind.  What each of the three relies on is added here.   *)
(***************************************************************************)

\* Inside a group: the actions of this pass that have not run yet still hold
\* their snapshot, and if those that ran kept theirs too, they are settled.
Nth(k) == Exec[grp.pos][k]
Kept(k) == val[Target[Nth(k)]] = snap[Target[Nth(k)]]
GroupSound ==
  pc = "group" =>
    /\ \A k \in grp.k..Len(Exec[grp.pos]) : Kept(k)
    /\ (\A k \in 1..(grp.k - 1) : Kept(k)) =>
         \A k \in 1..(grp.k - 1) : val[Target[Nth(k)]] = Compute(Nth(k), val)

\* A full sweep leaves behind it settled positions only.
SweepSettled ==
  pc \in {"scan", "group"} /\ trace =>
    \A p \in Pos : p < at /\ Sound(p) => SettledItem(p, val)

IInv == TypeOK /\ CleanIsSettled /\ NothingLeftBehind /\ SampleSettled /\ GroupSound /\ SweepSettled

\* A write that does not wake a position, and is not of its own signals,
\* leaves it settled.
LEMMA WriteKeeps ==
  ASSUME WiresOK, NEW c \in Cell, NEW v, NEW cleared, Write(c, v, cleared),
         NEW p \in Pos, p \notin Producer(c), p \notin Woken(c, val'), SettledItem(p, val)
  PROVE  SettledItem(p, val')
<1> SUFFICES ASSUME NEW a \in Item(p), ~IsUpdate(a)
             PROVE  val'[Target[a]] = Compute(a, val')
  BY DEF SettledItem
<1>1. DOMAIN val' = Cell /\ \A d \in Cell : d # c => val'[d] = val[d]
  BY WriteVal
<1>2. a \in Action /\ Target[a] \in Cell /\ Reads(a) \subseteq Cell
  BY ItemFacts, ActionFacts, ReadsInCell
<1>3. val[Target[a]] = Compute(a, val)
  BY DEF SettledItem
<1>4. Target[a] # c
  BY DEF Producer
<1>5. \A d \in Reads(a) : val'[d] = val[d]
  <2>1. CASE p \in Deps[c]
    <3>1. val'[c] = val[c]
      BY <2>1, WokenFacts
    <3> QED BY <1>1, <1>2, <3>1
  <2>2. CASE p \notin Deps[c]
    <3>1. c \notin Reads(a)
      BY <2>2, UnwokenReadsNot
    <3> QED BY <1>1, <1>2, <3>1
  <2> QED BY <2>1, <2>2
<1>6. Compute(a, val') = Compute(a, val)
  BY <1>2, <1>5, ComputeSame
<1> QED BY <1>1, <1>2, <1>3, <1>4, <1>6

\* Whoever a write of a produced signal wakes runs after its producer.
LEMMA WokenFollow ==
  ASSUME NEW c \in Cell, NEW p \in Producer(c), NEW w, NEW q \in Woken(c, w)
  PROVE  p \in Pos /\ q \in Pos /\ p < q
BY WokenFacts, DependentFollows

\* Driving a signal of position p touches no position but p and those after it.
LEMMA ProducedKeeps ==
  ASSUME TypeOK, NEW c \in Cell, NEW p \in Producer(c), NEW v, NEW cleared, Write(c, v, cleared)
  PROVE  /\ \A q \in Pos \ act' : q # p /\ SettledItem(q, val) => SettledItem(q, val')
         /\ \A q \in Pos : q < p /\ SettledItem(q, val) => SettledItem(q, val')
         /\ \A q \in act' : q \in act \/ p < q
<1>1. p \in Pos /\ \A q \in Pos : q # p => q \notin Producer(c)
  BY OneProducer DEF Producer
<1>2. act' = (act \ cleared) \cup Woken(c, val')
  BY DEF Write
<1>3. ASSUME NEW q \in Pos, q # p, q \notin Woken(c, val'), SettledItem(q, val)
      PROVE  SettledItem(q, val')
  BY <1>1, <1>3, WriteKeeps DEF TypeOK
<1>4. \A q \in Woken(c, val') : p < q
  BY WokenFollow
<1>5. \A q \in Pos : q < p => q # p /\ q \notin Woken(c, val')
  BY <1>1, <1>4 DEF Pos
<1> QED BY <1>1, <1>2, <1>3, <1>4, <1>5

\* Driving an input or committing a state element keeps every clean position.
LEMMA SourceKeeps ==
  ASSUME TypeOK, CleanIsSettled, NEW c \in Input \cup Chain, NEW v, Write(c, v, {}), pc # "group",
         pc' # "group", errs \subseteq errs'
  PROVE  CleanIsSettled'
<1>1. c \in Cell /\ Producer(c) = {}
  BY CellFacts, ChainFacts, NoProducer
<1>2. act' = act \cup Woken(c, val')
  BY DEF Write
<1>3. ASSUME NEW p \in Pos, p \notin act', Sound(p)' PROVE SettledItem(p, val')
  <2>1. p \notin act /\ p \notin Woken(c, val')
    BY <1>2, <1>3
  <2>2. Sound(p) /\ ~InGroup(p)
    BY <1>3 DEF Sound, InGroup
  <2>3. SettledItem(p, val)
    BY <2>1, <2>2 DEF CleanIsSettled
  <2> QED BY <1>1, <2>1, <2>3, WriteKeeps DEF TypeOK
<1> QED BY <1>3 DEF CleanIsSettled

\* Dispatching an Assign settles its position and disturbs only later ones.
LEMMA AssignStep ==
  ASSUME IInv, NEW p \in Pos, RunAssign(p)
  PROVE  CleanIsSettled' /\ NothingLeftBehind' /\ SampleSettled' /\ GroupSound' /\ SweepSettled'
<1> DEFINE a == Single(p)
           c == Target[a]
<1>1. /\ pc = "scan" /\ pc' = "scan" /\ trace' = trace /\ errs' = errs
      /\ p \notin Group /\ ~IsUpdate(a) /\ a \in Action /\ Item(p) = {a}
      /\ IF trace THEN p = at /\ at' = at + 1 ELSE Word(p) = at /\ at' = at
  BY ItemFacts DEF RunAssign, Picked, Passed, modes, ghosts
<1>2. c \in Cell /\ p \in Producer(c)
  BY <1>1, ActionFacts DEF Producer
<1>3. Write(c, Compute(a, val), Cleared(p)) /\ WiresOK /\ TypeOK
  BY DEF RunAssign, IInv, TypeOK
<1>4. /\ \A q \in Pos \ act' : q # p /\ SettledItem(q, val) => SettledItem(q, val')
      /\ \A q \in Pos : q < p /\ SettledItem(q, val) => SettledItem(q, val')
      /\ \A q \in act' : q \in act \/ p < q
  <2> HIDE DEF a, c
  <2> QED BY <1>2, <1>3, ProducedKeeps
<1>5. SettledItem(p, val')
  <2>1. c \notin Reads(a)
    BY <1>1, <1>2, ReaderFollows DEF Pos
  <2>2. val'[c] = Compute(a, val) /\ \A d \in Cell : d # c => val'[d] = val[d]
    <3> HIDE DEF a, c
    <3> QED BY <1>2, <1>3, WriteVal
  <2>3. Compute(a, val') = Compute(a, val)
    BY <1>1, <2>1, <2>2, ReadsInCell, ComputeSame
  <2> QED BY <1>1, <2>2, <2>3 DEF SettledItem
<1>6. Sound(p)' <=> Sound(p)
  BY <1>1 DEF Sound
<1>7. CleanIsSettled'
  <2>1. ASSUME NEW q \in Pos, q \notin act', Sound(q)', q # p
        PROVE  SettledItem(q, val')
    <3>1. q \notin act
      BY <1>3, <2>1 DEF Write, Cleared
    <3>2. Sound(q) /\ ~InGroup(q)
      BY <1>1, <2>1 DEF Sound, InGroup
    <3> QED BY <1>4, <2>1, <3>1, <3>2 DEF IInv, CleanIsSettled
  <2> QED BY <1>5, <2>1 DEF CleanIsSettled
<1>8. NothingLeftBehind'
  <2>1. ASSUME ~trace, NEW q \in act' PROVE Word(q) >= at
    <3>1. q \in Pos /\ act \subseteq Pos
      BY <2>1, <1>3, WokenFacts, <1>2 DEF Write, TypeOK, WiresOK
    <3>2. CASE q \in act
      BY <1>1, <2>1, <3>2 DEF IInv, NothingLeftBehind
    <3>3. CASE p < q
      BY <1>1, <2>1, <3>1, <3>3, WordFacts DEF Pos
    <3> QED BY <1>4, <3>2, <3>3
  <2> QED BY <1>1, <2>1 DEF NothingLeftBehind
<1>9. SweepSettled'
  <2>1. ASSUME trace, NEW q \in Pos, q < at + 1, Sound(q)' PROVE SettledItem(q, val')
    <3>1. CASE q = p
      BY <1>5, <3>1
    <3>2. CASE q < p
      <4>1. Sound(q) /\ q < at
        BY <1>1, <2>1, <3>2 DEF Sound
      <4> QED BY <1>1, <1>4, <2>1, <3>2, <4>1 DEF IInv, SweepSettled
    <3> QED BY <1>1, <2>1, <3>1, <3>2 DEF Pos
  <2> QED BY <1>1, <2>1 DEF SweepSettled
<1> QED BY <1>1, <1>7, <1>8, <1>9 DEF SampleSettled, GroupSound

\* Dispatching an Update, or entering a group, writes nothing.
LEMMA UpdateStep ==
  ASSUME IInv, NEW p \in Pos, RunUpdate(p)
  PROVE  CleanIsSettled' /\ NothingLeftBehind' /\ SampleSettled' /\ GroupSound' /\ SweepSettled'
<1>1. /\ pc = "scan" /\ pc' \in {"scan", "idle"} /\ trace' = trace /\ val' = val
      /\ act' = act \ Cleared(p) /\ Item(p) = {Single(p)} /\ IsUpdate(Single(p))
      /\ IF trace THEN p = at ELSE Word(p) = at
      /\ pc' = "scan" => at' = IF trace THEN at + 1 ELSE at
  BY ItemFacts DEF RunUpdate, Picked, Passed, Throw, modes
<1>2. errs \subseteq errs' /\ ("scc" \in errs' => "scc" \in errs)
  BY DEF RunUpdate, Throw
<1>3. SettledItem(p, val)
  BY <1>1 DEF SettledItem
<1>4. CleanIsSettled'
  BY <1>1, <1>2, <1>3 DEF Cleared, IInv, CleanIsSettled, Sound, InGroup
<1>5. NothingLeftBehind'
  BY <1>1 DEF IInv, NothingLeftBehind
<1>6. SweepSettled'
  <2>1. ASSUME pc' = "scan", trace, NEW q \in Pos, q < at + 1, Sound(q)' PROVE SettledItem(q, val)
    <3>1. q < at \/ q = p
      BY <1>1, <2>1 DEF Pos
    <3>2. Sound(q)
      BY <1>2, <2>1 DEF Sound
    <3> QED BY <1>1, <1>3, <2>1, <3>1, <3>2 DEF IInv, SweepSettled
  <2> QED BY <1>1, <2>1 DEF SweepSettled
<1> QED BY <1>1, <1>4, <1>5, <1>6 DEF SampleSettled, GroupSound

\* Entering a group writes nothing, and its first pass starts from its snapshot.
LEMMA EnterStep ==
  ASSUME IInv, NEW p \in Pos, EnterGroup(p)
  PROVE  CleanIsSettled' /\ NothingLeftBehind' /\ SampleSettled' /\ GroupSound' /\ SweepSettled'
<1>1. /\ pc = "scan" /\ pc' = "group" /\ trace' = trace /\ val' = val /\ snap' = val
      /\ grp' = [pos |-> p, k |-> 1, iter |-> 0]
      /\ act' = act \ Cleared(p) /\ at' = at /\ errs' = errs
  BY DEF EnterGroup, Picked, modes, ghosts
<1>2. CleanIsSettled'
  BY <1>1 DEF Cleared, IInv, CleanIsSettled, Sound, InGroup
<1>3. NothingLeftBehind' /\ SweepSettled'
  BY <1>1 DEF IInv, NothingLeftBehind, SweepSettled, Sound
<1>4. GroupSound'
  BY <1>1 DEF GroupSound, Kept, Nth
<1> QED BY <1>1, <1>2, <1>3, <1>4 DEF SampleSettled

\* An action of a group: the rest of the netlist is disturbed as by any other
\* Assign, and the pass stays sound because each action has its own target.
LEMMA GroupActionStep ==
  ASSUME IInv, GroupAction
  PROVE  CleanIsSettled' /\ NothingLeftBehind' /\ SampleSettled' /\ GroupSound' /\ SweepSettled'
<1> DEFINE p == grp.pos
           a == Nth(grp.k)
           c == Target[a]
<1>1. /\ pc = "group" /\ pc' = "group" /\ trace' = trace /\ errs' = errs /\ at' = at /\ snap' = snap
      /\ grp' = [grp EXCEPT !.k = @ + 1] /\ grp.k <= Len(Exec[p])
      /\ Write(c, Compute(a, val), {})
  BY DEF GroupAction, Nth, modes, ghosts
<1>2. /\ TypeOK /\ p \in Group /\ p \in Pos /\ grp.k \in Nat \ {0}
      /\ at = IF trace THEN p ELSE Word(p)
      /\ grp' = [pos |-> p, k |-> grp.k + 1, iter |-> grp.iter]
  BY <1>1, ExecAssumption DEF IInv, TypeOK, ControlOK
<1>3. /\ Len(Exec[p]) \in Nat
      /\ \A k \in 1..Len(Exec[p]) : Nth(k) \in Action /\ ~IsUpdate(Nth(k)) /\ Target[Nth(k)] \in Cell
  BY <1>2, ExecFacts, ItemFacts, ActionFacts DEF Nth
<1>4. c \in Cell /\ p \in Producer(c)
  <2>1. grp.k \in 1..Len(Exec[p])
    BY <1>1, <1>2, <1>3
  <2> QED BY <1>2, <1>3, <2>1, ExecFacts DEF Producer, Nth
<1>5. /\ \A q \in Pos \ act' : q # p /\ SettledItem(q, val) => SettledItem(q, val')
      /\ \A q \in Pos : q < p /\ SettledItem(q, val) => SettledItem(q, val')
      /\ \A q \in act' : q \in act \/ p < q
  <2> HIDE DEF a, c, p
  <2> QED BY <1>1, <1>2, <1>4, ProducedKeeps
<1>6. val'[c] = Compute(a, val) /\ \A d \in Cell : d # c => val'[d] = val[d]
  <2> HIDE DEF a, c
  <2> QED BY <1>1, <1>2, <1>4, WriteVal DEF TypeOK
<1>7. act \subseteq act' /\ act' \subseteq Pos
  <2> HIDE DEF a, c
  <2> QED BY <1>1, <1>2, <1>4, WokenFacts DEF Write, TypeOK, WiresOK
<1>8. CleanIsSettled'
  <2>1. ASSUME NEW q \in Pos, q \notin act', Sound(q)', ~InGroup(q)'
        PROVE  SettledItem(q, val')
    <3>1. q \notin act /\ q # p /\ Sound(q) /\ ~InGroup(q)
      BY <1>1, <1>2, <1>7, <2>1 DEF Sound, InGroup
    <3> QED BY <1>5, <2>1, <3>1 DEF IInv, CleanIsSettled
  <2> QED BY <2>1 DEF CleanIsSettled
<1>9. NothingLeftBehind'
  <2>1. ASSUME ~trace, NEW q \in act' PROVE Word(q) >= at
    <3>1. CASE q \in act
      BY <1>1, <2>1, <3>1 DEF IInv, NothingLeftBehind
    <3>2. CASE p < q
      BY <1>2, <1>7, <2>1, <3>2, WordFacts DEF Pos
    <3> QED BY <1>5, <3>1, <3>2
  <2> QED BY <1>1, <2>1 DEF NothingLeftBehind
<1>10. SweepSettled'
  BY <1>1, <1>2, <1>5 DEF IInv, SweepSettled, Sound
<1>11. GroupSound'
  <2>1. \A k \in 1..Len(Exec[p]) : Target[Nth(k)] = c => k = grp.k
    <3> SUFFICES ASSUME NEW k \in 1..Len(Exec[p]), Target[Nth(k)] = c PROVE k = grp.k
      OBVIOUS
    <3>1. grp.k \in 1..Len(Exec[p])
      BY <1>1, <1>2, <1>3
    <3>2. Nth(k) = Nth(grp.k)
      BY <1>3, <3>1, DriverAssumption
    <3> QED BY <1>2, <3>1, <3>2, ExecAssumption DEF Nth
  <2>2. \A k \in 1..Len(Exec[p]) : k # grp.k => val'[Target[Nth(k)]] = val[Target[Nth(k)]]
    <3> HIDE DEF c, p
    <3> QED BY <1>3, <1>6, <2>1
  <2>3. \A k \in grp.k..Len(Exec[p]) : Kept(k)
    BY <1>1 DEF IInv, GroupSound
  <2>4. \A k \in (grp.k + 1)..Len(Exec[p]) : val'[Target[Nth(k)]] = snap[Target[Nth(k)]]
    BY <1>2, <1>3, <2>2, <2>3 DEF Kept
  <2>5. ASSUME \A k \in 1..grp.k : val'[Target[Nth(k)]] = snap[Target[Nth(k)]]
        PROVE  \A k \in 1..grp.k : val'[Target[Nth(k)]] = Compute(Nth(k), val')
    <3>1. val'[c] = val[c]
      <4>1. grp.k \in 1..grp.k /\ grp.k \in grp.k..Len(Exec[p])
        BY <1>1, <1>2, <1>3
      <4> QED BY <2>3, <2>5, <4>1 DEF Kept
    <3>2. \A d \in Cell : val'[d] = val[d]
      BY <1>6, <3>1
    <3>3. \A k \in 1..(grp.k - 1) : Kept(k)
      BY <1>1, <1>2, <1>3, <2>2, <2>5 DEF Kept
    <3>4. \A k \in 1..(grp.k - 1) : val[Target[Nth(k)]] = Compute(Nth(k), val)
      BY <1>1, <3>3 DEF IInv, GroupSound
    <3>5. val[c] = Compute(a, val)
      BY <1>6, <3>1
    <3> SUFFICES ASSUME NEW k \in 1..grp.k
                 PROVE  val'[Target[Nth(k)]] = Compute(Nth(k), val')
      OBVIOUS
    <3>6. k \in 1..Len(Exec[p]) /\ (k = grp.k \/ k \in 1..(grp.k - 1))
      BY <1>1, <1>2, <1>3
    <3>7. Compute(Nth(k), val') = Compute(Nth(k), val)
      BY <1>3, <3>2, <3>6, ReadsInCell, ComputeSame
    <3> QED BY <1>3, <3>2, <3>4, <3>5, <3>6, <3>7
  <2>6. grp'.k = grp.k + 1 /\ grp'.pos = p /\ snap' = snap
    BY <1>1, <1>2
  <2> QED BY <1>2, <2>4, <2>5, <2>6 DEF GroupSound, Kept, Nth
<1> QED BY <1>1, <1>8, <1>9, <1>10, <1>11 DEF SampleSettled

\* A pass that changed nothing leaves the group settled; one that gives up
\* leaves it unsettled, and is remembered by its Error.
LEMMA GroupPassStep ==
  ASSUME IInv, GroupPass
  PROVE  CleanIsSettled' /\ NothingLeftBehind' /\ SampleSettled' /\ GroupSound' /\ SweepSettled'
<1> DEFINE p == grp.pos
<1>1. /\ pc = "group" /\ grp.k > Len(Exec[p]) /\ val' = val /\ act' = act /\ trace' = trace
      /\ errs \subseteq errs' /\ ("scc" \in errs => "scc" \in errs')
  BY DEF GroupPass, Throw, wires, modes
<1>2. /\ p \in Group /\ p \in Pos /\ grp.k \in Nat \ {0} /\ Len(Exec[p]) \in Nat
      /\ grp.k - 1 = Len(Exec[p])
      /\ at = IF trace THEN p ELSE Word(p)
  <2>1. p \in Group /\ grp.k \in Nat \ {0} /\ grp.k <= Len(Exec[p]) + 1
    BY <1>1 DEF IInv, TypeOK, ControlOK
  <2>2. p \in Pos
    BY <2>1, ExecAssumption
  <2> QED BY <1>1, <2>1, <2>2, ExecFacts DEF IInv, TypeOK, ControlOK
<1>3. CASE ~Changed
  <2>1. pc' = "scan" /\ at' = (IF trace THEN at + 1 ELSE at) /\ errs' = errs
    BY <1>3 DEF GroupPass, Passed
  <2>2. \A k \in 1..(grp.k - 1) : Kept(k)
    BY <1>2, <1>3 DEF Changed, Item, Kept, Nth
  <2>3. \A k \in 1..(grp.k - 1) : val[Target[Nth(k)]] = Compute(Nth(k), val)
    BY <1>1, <2>2 DEF IInv, GroupSound
  <2>4. SettledItem(p, val)
    BY <1>2, <2>3 DEF SettledItem, Item, Nth
  <2>5. CleanIsSettled'
    BY <1>1, <2>1, <2>4 DEF IInv, CleanIsSettled, Sound, InGroup
  <2>6. NothingLeftBehind'
    BY <1>1, <2>1 DEF IInv, NothingLeftBehind
  <2>7. SweepSettled'
    <3>1. \A q \in Pos : trace /\ q < at + 1 => q < at \/ q = p
      BY <1>2 DEF Pos
    <3> QED BY <1>1, <2>1, <2>4, <3>1 DEF IInv, SweepSettled, Sound
  <2> QED BY <2>1, <2>5, <2>6, <2>7 DEF SampleSettled, GroupSound
<1>4. CASE Changed /\ ItersExhausted
  <2>1. pc' = "idle" /\ "scc" \in errs'
    BY <1>4 DEF GroupPass, Throw
  <2>2. CleanIsSettled'
    BY <1>1, <1>2, <2>1 DEF IInv, CleanIsSettled, Sound, InGroup
  <2> QED BY <2>1, <2>2 DEF NothingLeftBehind, SweepSettled, SampleSettled, GroupSound
<1>5. CASE Changed /\ ~ItersExhausted
  <2>1. pc' = "group" /\ at' = at /\ errs' = errs /\ snap' = val
        /\ grp'.pos = p /\ grp'.k = 1
    <3>1. grp' = [grp EXCEPT !.k = 1, !.iter = @ + 1] /\ pc' = pc /\ at' = at /\ errs' = errs
          /\ snap' = val
      BY <1>5 DEF GroupPass
    <3>2. grp = [pos |-> grp.pos, k |-> grp.k, iter |-> grp.iter]
      BY <1>1 DEF IInv, TypeOK, ControlOK
    <3> QED BY <1>1, <3>1, <3>2
  <2>2. CleanIsSettled'
    BY <1>1, <2>1 DEF IInv, CleanIsSettled, Sound, InGroup
  <2>3. NothingLeftBehind' /\ SweepSettled'
    BY <1>1, <2>1 DEF IInv, NothingLeftBehind, SweepSettled, Sound
  <2>4. GroupSound'
    BY <1>1, <2>1 DEF GroupSound, Kept, Nth
  <2> QED BY <2>1, <2>2, <2>3, <2>4 DEF SampleSettled
<1> QED BY <1>3, <1>4, <1>5

\* The ends of a word, of phase 1 and of a round write nothing.
LEMMA PhaseStep ==
  ASSUME IInv, NextWord \/ EndScan \/ EndRound
  PROVE  CleanIsSettled' /\ NothingLeftBehind' /\ SampleSettled' /\ GroupSound' /\ SweepSettled'
<1>1. /\ val' = val /\ act' = act /\ trace' = trace /\ errs \subseteq errs'
      /\ ("scc" \in errs' => "scc" \in errs) /\ pc # "group" /\ pc' # "group"
  BY DEF NextWord, EndScan, ScanDone, EndRound, Throw, wires, modes, ghosts
<1>2. CleanIsSettled'
  BY <1>1 DEF IInv, CleanIsSettled, Sound, InGroup
<1>3. act \subseteq Pos /\ at \in Nat
  BY ExecFacts DEF IInv, TypeOK, WiresOK, ControlOK
<1>4. CASE NextWord
  <2>1. pc = "scan" /\ pc' = "scan" /\ at' = at + 1 /\ ~trace /\ \A q \in act : Word(q) # at
    BY <1>4 DEF NextWord
  <2>2. \A q \in act : Word(q) \in Nat /\ Word(q) >= at
    BY <1>3, <2>1, WordFacts DEF IInv, NothingLeftBehind
  <2>3. \A q \in act : Word(q) >= at + 1
    BY <1>3, <2>1, <2>2
  <2> QED BY <1>1, <1>2, <2>1, <2>3 DEF NothingLeftBehind, SampleSettled, GroupSound, SweepSettled
<1>5. CASE EndScan
  <2>1. pc' = "commit" /\ sampled' = val /\ errs' = errs
    BY <1>5 DEF EndScan
  <2>2. ASSUME NEW p \in Pos, Sound(p) PROVE SettledItem(p, val)
    <3>1. CASE trace
      <4>1. p < at
        BY <1>3, <1>5, <3>1, ExecFacts DEF EndScan, ScanDone, Pos
      <4> QED BY <1>5, <2>2, <3>1, <4>1 DEF EndScan, ScanDone, IInv, SweepSettled
    <3>2. CASE ~trace
      <4>1. \A q \in act : Word(q) \in Nat /\ Word(q) <= LastWord /\ Word(q) >= at
        BY <1>3, <1>5, <3>2, WordFacts DEF EndScan, ScanDone, IInv, NothingLeftBehind
      <4>2. at > LastWord /\ LastWord \in Nat
        BY <1>5, <3>2, WordFacts DEF EndScan, ScanDone
      <4>3. p \notin act
        BY <1>3, <4>1, <4>2
      <4> QED BY <1>1, <2>2, <4>3 DEF IInv, CleanIsSettled, InGroup
    <3> QED BY <3>1, <3>2
  <2>3. SampleSettled'
    BY <2>1, <2>2 DEF SampleSettled, Sound
  <2> QED BY <1>2, <2>1, <2>3 DEF NothingLeftBehind, GroupSound, SweepSettled
<1>6. CASE EndRound
  <2>1. pc' \in {"idle", "scan"} /\ (pc' = "scan" => at' = IF trace THEN 1 ELSE 0)
    BY <1>6 DEF EndRound, Throw, ScanStart
  <2>2. NothingLeftBehind'
    BY <1>1, <1>3, <2>1, WordFacts DEF NothingLeftBehind
  <2>3. SweepSettled'
    BY <1>1, <2>1, ExecFacts DEF SweepSettled, Pos
  <2> QED BY <1>2, <2>1, <2>2, <2>3 DEF SampleSettled, GroupSound
<1> QED BY <1>4, <1>5, <1>6

\* A commit writes a state element, which no position produces, and works on
\* the state sampled before it.
LEMMA CommitStep ==
  ASSUME IInv, NEW r \in Chain, CommitChain(r)
  PROVE  CleanIsSettled' /\ NothingLeftBehind' /\ SampleSettled' /\ GroupSound' /\ SweepSettled'
<1>1. /\ pc = "commit" /\ pc' \in {"commit", "idle"} /\ sampled' = sampled
      /\ errs \subseteq errs' /\ ("scc" \in errs' => "scc" \in errs)
  BY DEF CommitChain, Throw
<1>2. CleanIsSettled'
  <2>1. CASE UNCHANGED wires
    BY <1>1, <2>1 DEF wires, IInv, CleanIsSettled, Sound, InGroup
  <2>2. CASE Write(r, Landing(r), {})
    BY <1>1, <2>2, SourceKeeps DEF IInv
  <2> QED BY <2>1, <2>2 DEF CommitChain
<1>3. SampleSettled'
  BY <1>1 DEF IInv, SampleSettled, Sound
<1> QED BY <1>1, <1>2, <1>3 DEF NothingLeftBehind, GroupSound, SweepSettled

\* Between evals, a poke is a write of a source and a switch writes no signal.
LEMMA HarnessStep ==
  ASSUME IInv, Harness
  PROVE  CleanIsSettled' /\ NothingLeftBehind' /\ SampleSettled' /\ GroupSound' /\ SweepSettled'
<1>1. /\ pc = "idle" /\ errs' = errs /\ pc' \in {"idle", "scan"}
  BY DEF Harness, Set, TraceOn, TraceOff, OtherRootTrace, MutexSwitch, BeginEval, MaySwitch, ghosts
<1>2. CASE \E i \in Input : Set(i)
  <2>1. PICK i \in Input : Set(i)
    BY <1>2
  <2>2. PICK v \in Drive[i] : Write(i, v, {})
    BY <2>1 DEF Set
  <2>3. pc' = "idle"
    BY <1>1, <2>1 DEF Set
  <2>4. CleanIsSettled'
    BY <1>1, <2>2, <2>3, SourceKeeps DEF IInv
  <2> QED BY <2>3, <2>4 DEF NothingLeftBehind, SampleSettled, GroupSound, SweepSettled
<1>3. CASE TraceOn \/ TraceOff \/ OtherRootTrace \/ MutexSwitch
  <2>1. pc' = "idle" /\ val' = val /\ act' = act
    BY <1>1, <1>3 DEF TraceOn, TraceOff, OtherRootTrace, MutexSwitch, wires
  <2>2. CleanIsSettled'
    BY <1>1, <2>1 DEF IInv, CleanIsSettled, Sound, InGroup
  <2> QED BY <2>1, <2>2 DEF NothingLeftBehind, SampleSettled, GroupSound, SweepSettled
<1>4. CASE BeginEval
  <2>1. val' = val /\ act' = act /\ trace' = trace /\ pc' = "scan" /\ at' = IF trace THEN 1 ELSE 0
    BY <1>4 DEF BeginEval, ScanStart, wires, modes
  <2>2. CleanIsSettled'
    BY <1>1, <2>1 DEF IInv, CleanIsSettled, Sound, InGroup
  <2>3. act \subseteq Pos
    BY DEF IInv, TypeOK, WiresOK
  <2>4. NothingLeftBehind'
    BY <2>1, <2>3, WordFacts DEF NothingLeftBehind
  <2>5. SweepSettled'
    BY <2>1, ExecFacts DEF SweepSettled, Pos
  <2> QED BY <2>1, <2>2, <2>4, <2>5 DEF SampleSettled, GroupSound
<1> QED BY <1>2, <1>3, <1>4 DEF Harness

\* After elaboration every position is active, so nothing has to be settled yet.
LEMMA IInvInit == Init => IInv
BY InitType DEF Init, IInv, CleanIsSettled, NothingLeftBehind, SampleSettled, GroupSound, SweepSettled

\* Every step keeps the inductive invariant.
LEMMA IInvStep ==
  ASSUME IInv, [Next]_vars
  PROVE  IInv'
<1>1. TypeOK'
  BY TypeStep DEF IInv
<1>2. CASE UNCHANGED vars
  BY <1>1, <1>2 DEF vars, wires, commits, locals, modes, ghosts, IInv, CleanIsSettled,
     NothingLeftBehind, SampleSettled, GroupSound, SweepSettled, Sound, InGroup, Kept, Nth
<1>3. CASE Harness
  BY <1>1, <1>3, HarnessStep DEF IInv
<1>4. CASE Eval
  <2>1. CASE \E p \in Pos : RunAssign(p)
    BY <1>1, <2>1, AssignStep DEF IInv
  <2>2. CASE \E p \in Pos : RunUpdate(p)
    BY <1>1, <2>2, UpdateStep DEF IInv
  <2>3. CASE \E p \in Pos : EnterGroup(p)
    BY <1>1, <2>3, EnterStep DEF IInv
  <2>4. CASE GroupAction
    BY <1>1, <2>4, GroupActionStep DEF IInv
  <2>5. CASE GroupPass
    BY <1>1, <2>5, GroupPassStep DEF IInv
  <2>6. CASE NextWord \/ EndScan \/ EndRound
    BY <1>1, <2>6, PhaseStep DEF IInv
  <2>7. CASE \E r \in Chain : CommitChain(r)
    BY <1>1, <2>7, CommitStep DEF IInv
  <2> QED BY <1>4, <2>1, <2>2, <2>3, <2>4, <2>5, <2>6, <2>7 DEF Eval
<1> QED BY <1>2, <1>3, <1>4 DEF Next

\* The inductive invariant holds in every reachable state.
LEMMA Inductive == Spec => []IInv
<1>1. IInv /\ [Next]_vars => IInv'
  BY IInvStep
<1> QED BY IInvInit, <1>1, PTL DEF Spec

\* The dirty-driven invariant holds on every netlist (engine.h:69-74): skipping
\* a position whose activity bit is clear never loses an evaluation, under any
\* order of pokes, evals and debug switches, and after any caught Error but the
\* non-convergence of the group itself.
THEOREM CleanSettled == Spec => []CleanIsSettled
<1>1. IInv => CleanIsSettled
  BY DEF IInv
<1> QED BY Inductive, <1>1, PTL

\* One pass over the bitmap is enough, for any width of a word: no phase 1
\* write sets a bit in a word the scan has left (engine.h:94-98).
THEOREM ScanMissesNothing == Spec => []NothingLeftBehind
<1>1. IInv => NothingLeftBehind
  BY DEF IInv
<1> QED BY Inductive, <1>1, PTL

\* Phase 2 starts from a combinational state in which every assignment holds
\* (engine.h:64-67), whether phase 1 scanned the bitmap or swept everything.
THEOREM CommitsFromSettled == Spec => []SampleSettled
<1>1. IInv => SampleSettled
  BY DEF IInv
<1> QED BY Inductive, <1>1, PTL

-----------------------------------------------------------------------------
(***************************************************************************)
(* Non-blocking assignment.  An intent stays what its Update would compute *)
(* now because phase 1 only moves on: all that is still to run comes after *)
(* the Update, so nothing it reads is written again before phase 2.        *)
(***************************************************************************)
Current(a, w) ==
  /\ intent[a].data = Compute(a, w)
  /\ Target[a] \in Mem => intent[a].row = w[Canon[Addr[a]]]
Behind(p) ==
  IF trace THEN p < at ELSE (\A q \in act : p < q) /\ (pc = "group" => p < grp.pos)
PendingCurrent ==
  errs = {} =>
    /\ pc = "idle" => intents = {}
    /\ pc \in {"scan", "group"} =>
         \A a \in intents : Current(a, val) /\ \A p \in Pos : a \in Item(p) => Behind(p)

NInv == IInv /\ StrandedOnlyByMutex /\ PendingCurrent /\ NonBlocking

\* An intent whose Update comes before the producer of a signal does not
\* depend on the signal.
LEMMA BehindKeeps ==
  ASSUME WiresOK, CommitsOK, NEW c \in Cell, NEW p \in Producer(c), NEW v, NEW cleared,
         Write(c, v, cleared), intent' = intent,
         NEW a \in intents, \A q \in Pos : a \in Item(q) => q < p, Current(a, val)
  PROVE  Current(a, val)'
<1>1. a \in Action
  BY DEF CommitsOK
<1>2. PICK q \in Pos : a \in Item(q)
  BY <1>1, ExecAssumption
<1>3. c \notin Reads(a)
  BY <1>2, ReaderFollows DEF Pos
<1>4. \A d \in Cell : d # c => val'[d] = val[d]
  BY WriteVal
<1>5. Compute(a, val') = Compute(a, val)
  BY <1>1, <1>3, <1>4, ReadsInCell, ComputeSame
<1>6. Target[a] \in Mem => val'[Canon[Addr[a]]] = val[Canon[Addr[a]]]
  BY <1>1, <1>3, <1>4, ActionFacts, CellFacts DEF Reads
<1> QED BY <1>5, <1>6 DEF Current

\* The lowest bit of the word phase 1 is at is the lowest bit of all.
LEMMA PickedFirst ==
  ASSUME IInv, NEW p \in Pos, Picked(p), ~trace
  PROVE  /\ p \in act /\ \A q \in act : q # p => p < q
<1>1. p \in act /\ Word(p) = at /\ \A q \in act : Word(q) = at => p <= q
  BY DEF Picked
<1>2. \A q \in act : q \in Pos /\ Word(q) >= at
  BY DEF Picked, IInv, TypeOK, WiresOK, NothingLeftBehind
<1> SUFFICES ASSUME NEW q \in act, q # p PROVE p < q
  BY <1>1
<1>3. CASE Word(q) = at
  BY <1>1, <1>2, <1>3 DEF Pos
<1>4. CASE Word(q) # at
  <2>1. q \in Pos /\ Word(q) \in Nat /\ Word(p) \in Nat /\ Word(q) > Word(p)
    BY <1>1, <1>2, <1>4, WordFacts
  <2>2. ~(q <= p)
    BY <2>1, WordFacts
  <2> QED BY <2>1, <2>2 DEF Pos
<1> QED BY <1>3, <1>4

\* A step of a producer: what is pending stays current, and stays behind.
LEMMA ProducerPending ==
  ASSUME NInv, errs = {}, pc \in {"scan", "group"}, NEW c \in Cell, NEW p \in Producer(c),
         NEW v, NEW cleared, Write(c, v, cleared), UNCHANGED <<intents, intent, trace, pc>>,
         trace => p = at, ~trace /\ pc = "scan" => Picked(p), pc = "group" => p = grp.pos,
         trace => at' \in {at, at + 1}, pc = "group" => grp'.pos = p
  PROVE  \A a \in intents : Current(a, val)' /\ \A q \in Pos : a \in Item(q) => Behind(q)'
<1> SUFFICES ASSUME NEW a \in intents
             PROVE  Current(a, val)' /\ \A q \in Pos : a \in Item(q) => Behind(q)'
  OBVIOUS
<1>1. Current(a, val) /\ \A q \in Pos : a \in Item(q) => Behind(q)
  BY DEF NInv, PendingCurrent
<1>2. p \in Pos /\ TypeOK /\ IInv
  BY DEF Producer, NInv, IInv
<1>3. act' = (act \ cleared) \cup Woken(c, val') /\ \A q \in Woken(c, val') : p < q /\ q \in Pos
  BY WokenFollow DEF Write
<1>4. ASSUME NEW q \in Pos, a \in Item(q) PROVE q < p /\ Behind(q)'
  <2>1. CASE trace
    <3>1. q < at /\ at = p
      BY <1>1, <1>4, <2>1 DEF Behind
    <3> QED BY <1>2, <2>1, <3>1 DEF Behind, Pos
  <2>2. CASE ~trace
    <3>1. (\A b \in act : q < b) /\ (pc = "group" => q < grp.pos)
      BY <1>1, <1>4, <2>2 DEF Behind
    <3>2. q < p
      BY <1>2, <2>2, <3>1, PickedFirst
    <3>3. \A b \in act' : q < b
      BY <1>2, <1>3, <3>1, <3>2 DEF Pos
    <3> QED BY <2>2, <3>2, <3>3 DEF Behind
  <2> QED BY <2>1, <2>2
<1> QED BY <1>1, <1>2, <1>4, BehindKeeps DEF TypeOK

\* An Assign, alone or in a group, leaves the pending intents current.
LEMMA AssignPending ==
  ASSUME NInv, (\E p \in Pos : RunAssign(p)) \/ GroupAction
  PROVE  PendingCurrent' /\ NonBlocking'
<1>1. CASE \E p \in Pos : RunAssign(p)
  <2>1. PICK p \in Pos : RunAssign(p)
    BY <1>1
  <2> DEFINE a == Single(p)
             c == Target[a]
  <2>2. /\ pc = "scan" /\ pc' = "scan" /\ Picked(p) /\ a \in Action /\ a \in Item(p) /\ ~IsUpdate(a)
        /\ UNCHANGED <<intents, intent, trace, errs, pc>>
        /\ Write(c, Compute(a, val), Cleared(p)) /\ Passed
    BY <2>1, ItemFacts DEF RunAssign, Picked, commits, modes, ghosts
  <2>3. c \in Cell /\ p \in Producer(c)
    BY <2>2, ActionFacts DEF Producer
  <2>4. trace => p = at /\ at' \in {at, at + 1}
    BY <2>2 DEF Picked, Passed
  <2>5. errs = {} => \A b \in intents : Current(b, val)' /\ \A q \in Pos : b \in Item(q) => Behind(q)'
    <3> HIDE DEF a, c
    <3> QED BY <2>2, <2>3, <2>4, ProducerPending
  <2> QED BY <2>2, <2>5 DEF PendingCurrent, NonBlocking
<1>2. CASE GroupAction
  <2> DEFINE p == grp.pos
             a == Exec[p][grp.k]
             c == Target[a]
  <2>1. /\ pc = "group" /\ pc' = "group" /\ grp.k <= Len(Exec[p])
        /\ UNCHANGED <<intents, intent, trace, errs, pc, at>>
        /\ grp' = [grp EXCEPT !.k = @ + 1]
        /\ Write(c, Compute(a, val), {})
    BY <1>2 DEF GroupAction, commits, modes, ghosts
  <2>2. p \in Group /\ p \in Pos /\ grp.k \in Nat \ {0} /\ at = (IF trace THEN p ELSE Word(p))
        /\ grp'.pos = p
    BY <2>1, ExecAssumption DEF NInv, IInv, TypeOK, ControlOK
  <2>3. a \in Action /\ a \in Item(p) /\ ~IsUpdate(a)
    <3>1. grp.k \in 1..Len(Exec[p])
      BY <2>1, <2>2, ExecFacts
    <3> QED BY <2>2, <3>1, ExecFacts, ItemFacts
  <2>4. c \in Cell /\ p \in Producer(c)
    BY <2>2, <2>3, ActionFacts DEF Producer
  <2>5. errs = {} => \A b \in intents : Current(b, val)' /\ \A q \in Pos : b \in Item(q) => Behind(q)'
    <3> HIDE DEF a, c, p
    <3>1. trace => p = at
      BY <2>2
    <3>2. pc = "group" => p = grp.pos
      BY DEF p
    <3> QED BY <2>1, <2>2, <2>4, <3>1, <3>2, ProducerPending
  <2> QED BY <2>1, <2>5 DEF PendingCurrent, NonBlocking
<1> QED BY <1>1, <1>2

\* An Update records its own intent as current and leaves the others alone.
LEMMA UpdatePending ==
  ASSUME NInv, NEW p \in Pos, RunUpdate(p)
  PROVE  PendingCurrent' /\ NonBlocking'
<1> DEFINE a == Single(p)
<1>1. /\ pc = "scan" /\ pc' \in {"scan", "idle"} /\ Picked(p) /\ Item(p) = {a} /\ a \in Action
      /\ act' = act \ Cleared(p) /\ UNCHANGED <<val, trace>>
      /\ errs \subseteq errs' /\ intents' \subseteq intents \cup {a}
  BY ItemFacts DEF RunUpdate, Picked, Throw, modes
<1> SUFFICES ASSUME errs' = {}
             PROVE  /\ pc' = "scan"
                    /\ \A b \in intents' :
                         Current(b, val)' /\ \A q \in Pos : b \in Item(q) => Behind(q)'
  BY DEF PendingCurrent, NonBlocking
<1>2. pc' = "scan" /\ Passed /\ errs = {}
      /\ intent' = IF Active(a, p)
                   THEN [intent EXCEPT ![a] = [row |-> Address(a), data |-> Compute(a, val)]]
                   ELSE intent
  BY <1>1 DEF RunUpdate, Throw
<1>3. a \in intents' => Active(a, p)
  BY DEF RunUpdate
<1>4. intent \in [Action -> [row : Value, data : Value]] /\ intents \subseteq Action
      /\ act \subseteq Pos /\ at \in Nat
  BY ExecFacts DEF NInv, IInv, TypeOK, CommitsOK, WiresOK, ControlOK
<1>5. ASSUME Active(a, p) PROVE Current(a, val)'
  <2>1. intent'[a] = [row |-> Address(a), data |-> Compute(a, val)]
    BY <1>1, <1>2, <1>4, <1>5
  <2> QED BY <1>1, <2>1 DEF Current, Address
<1>6. ASSUME NEW b \in intents, b # a PROVE Current(b, val)'
  <2>1. intent'[b] = intent[b]
    BY <1>2, <1>4, <1>6
  <2>2. Current(b, val)
    BY <1>1, <1>2 DEF NInv, PendingCurrent
  <2> QED BY <1>1, <2>1, <2>2 DEF Current
<1>7. ASSUME NEW b \in intents, NEW q \in Pos, b \in Item(q) PROVE Behind(q)'
  <2>1. Behind(q)
    BY <1>1, <1>2, <1>7 DEF NInv, PendingCurrent
  <2> QED BY <1>1, <1>2, <1>4, <2>1 DEF Behind, Passed, Pos
<1>8. Behind(p)'
  <2>1. CASE trace
    BY <1>1, <1>2, <1>4, <2>1 DEF Behind, Passed, Picked
  <2>2. CASE ~trace
    BY <1>1, <1>2, <2>2, PickedFirst DEF Behind, Cleared, NInv
  <2> QED BY <2>1, <2>2
<1>9. ASSUME NEW q \in Pos, a \in Item(q) PROVE q = p
  <2>1. PICK j \in 1..Len(Exec[q]) : Exec[q][j] = a
    BY <1>9 DEF Item
  <2>2. 1 \in 1..Len(Exec[p]) /\ Exec[p][1] = a
    BY ExecFacts DEF Single
  <2>3. \A k \in 1..Len(Exec[p]) : Exec[q][j] = Exec[p][k] => q = p
    BY <2>1, ExecAssumption
  <2> QED BY <2>1, <2>2, <2>3
<1> QED BY <1>1, <1>2, <1>3, <1>5, <1>6, <1>7, <1>8, <1>9

\* With no Error so far, the end of a round leaves nothing pending.
LEMMA RoundPending ==
  ASSUME NInv, EndScan \/ EndRound \/ NextWord
  PROVE  PendingCurrent' /\ NonBlocking'
<1>1. CASE EndScan
  <2>1. /\ pc = "scan" /\ pc' = "commit" /\ sampled' = val
        /\ UNCHANGED <<intents, intent, errs>>
    BY <1>1 DEF EndScan, ScanDone
  <2>2. errs = {} => \A a \in intents : Current(a, val)
    BY <2>1 DEF NInv, PendingCurrent
  <2> QED BY <2>1, <2>2 DEF PendingCurrent, NonBlocking, Current
<1>2. CASE EndRound
  <2>1. cbits = {} /\ pc' \in {"idle", "scan"} /\ intents' = intents /\ errs \subseteq errs'
    BY <1>2 DEF EndRound, Throw, commits
  <2>2. errs = {} => intents = {}
    BY <2>1 DEF NInv, StrandedOnlyByMutex, NoIntentStranded
  <2> QED BY <2>1, <2>2 DEF PendingCurrent, NonBlocking
<1>3. CASE NextWord
  <2>1. /\ pc = "scan" /\ pc' = "scan" /\ ~trace
        /\ UNCHANGED <<val, act, intents, intent, errs, trace>>
    BY <1>3 DEF NextWord, wires, commits, modes, ghosts
  <2> QED BY <2>1 DEF NInv, PendingCurrent, NonBlocking, Current, Behind
<1> QED BY <1>1, <1>2, <1>3

\* Entering a group or ending a pass of it writes nothing.
LEMMA GroupPending ==
  ASSUME NInv, (\E p \in Pos : EnterGroup(p)) \/ GroupPass
  PROVE  PendingCurrent' /\ NonBlocking'
<1>1. UNCHANGED <<val, intents, intent, trace>> /\ errs \subseteq errs'
      /\ (pc = "scan" \/ pc = "group") /\ pc' # "commit"
  BY DEF EnterGroup, Picked, GroupPass, Throw, wires, commits, modes, ghosts
<1>2. act' \subseteq act /\ (errs' = {} => pc' \in {"scan", "group"})
  BY DEF EnterGroup, GroupPass, Throw, wires
<1>3. ASSUME errs' = {}, NEW a \in intents, NEW q \in Pos, a \in Item(q) PROVE Behind(q)'
  <2>1. Behind(q)
    BY <1>1, <1>3 DEF NInv, PendingCurrent
  <2>2. at \in Nat
    BY ExecFacts DEF NInv, IInv, TypeOK, ControlOK
  <2>3. CASE \E p \in Pos : EnterGroup(p)
    <3>1. PICK p \in Pos : EnterGroup(p)
      BY <2>3
    <3>2. Picked(p) /\ grp' = [pos |-> p, k |-> 1, iter |-> 0] /\ at' = at
      BY <3>1 DEF EnterGroup
    <3>3. ~trace => p \in act
      BY <3>2 DEF Picked
    <3> QED BY <1>1, <1>2, <2>1, <3>2, <3>3 DEF Behind
  <2>4. CASE GroupPass
    <3>1. grp = [pos |-> grp.pos, k |-> grp.k, iter |-> grp.iter] /\ pc = "group"
      BY <2>4 DEF GroupPass, NInv, IInv, TypeOK, ControlOK
    <3>2. at' = at \/ (trace /\ at' = at + 1)
      BY <2>4 DEF GroupPass, Passed
    <3>3. pc' = "group" => grp'.pos = grp.pos
      BY <2>4, <3>1 DEF GroupPass, Throw
    <3> QED BY <1>1, <1>2, <2>1, <2>2, <3>1, <3>2, <3>3 DEF Behind, Pos
  <2> QED BY <2>3, <2>4
<1> QED BY <1>1, <1>2, <1>3 DEF NInv, PendingCurrent, NonBlocking, Current

\* A commit only removes intents.
LEMMA CommitPending ==
  ASSUME NInv, NEW r \in Chain, CommitChain(r)
  PROVE  PendingCurrent' /\ NonBlocking'
<1>1. /\ pc = "commit" /\ intents' \subseteq intents /\ UNCHANGED <<intent, sampled>>
      /\ errs \subseteq errs' /\ (errs' = {} => pc' = "commit")
  BY DEF CommitChain, Throw
<1> QED BY <1>1 DEF NInv, PendingCurrent, NonBlocking

\* Between evals nothing is pending.
LEMMA HarnessPending ==
  ASSUME NInv, Harness
  PROVE  PendingCurrent' /\ NonBlocking'
<1>1. pc = "idle" /\ pc' # "commit" /\ UNCHANGED <<intents, errs>>
  BY DEF Harness, Set, TraceOn, TraceOff, OtherRootTrace, MutexSwitch, BeginEval, MaySwitch,
         commits, ghosts
<1> QED BY <1>1 DEF NInv, PendingCurrent, NonBlocking

\* What is pending stays current from one phase to the next.
LEMMA PendingStep ==
  ASSUME NInv, [Next]_vars
  PROVE  PendingCurrent' /\ NonBlocking'
<1>1. CASE UNCHANGED vars
  BY <1>1 DEF vars, wires, commits, locals, modes, ghosts, NInv, PendingCurrent,
              NonBlocking, Current, Behind
<1>2. CASE Harness
  BY <1>2, HarnessPending
<1>3. CASE Eval
  <2>1. CASE (\E p \in Pos : RunAssign(p)) \/ GroupAction
    BY <2>1, AssignPending
  <2>2. CASE \E p \in Pos : RunUpdate(p)
    BY <2>2, UpdatePending
  <2>3. CASE (\E p \in Pos : EnterGroup(p)) \/ GroupPass
    BY <2>3, GroupPending
  <2>4. CASE EndScan \/ EndRound \/ NextWord
    BY <2>4, RoundPending
  <2>5. CASE \E r \in Chain : CommitChain(r)
    BY <2>5, CommitPending
  <2> QED BY <1>3, <2>1, <2>2, <2>3, <2>4, <2>5 DEF Eval
<1> QED BY <1>1, <1>2, <1>3 DEF Next

LEMMA PendingInductive == Spec => []NInv
<1>1. Init => PendingCurrent /\ NonBlocking
  BY DEF Init, PendingCurrent, NonBlocking
<1>2. IInv /\ StrandedOnlyByMutex /\ PendingCurrent /\ NonBlocking /\ [Next]_vars
        => (PendingCurrent /\ NonBlocking)'
  BY PendingStep DEF NInv
<1>3. NInv <=> IInv /\ StrandedOnlyByMutex /\ PendingCurrent /\ NonBlocking
  BY DEF NInv
<1> QED BY <1>1, <1>2, <1>3, Inductive, OnlyMutexStrands, PTL DEF Spec

\* Non-blocking assignment (README.md 3.6, engine.h:145-230): until an Error is
\* thrown, every pending intent holds what its Update computes from the settled
\* state before phase 2, whatever has been committed meanwhile.
THEOREM NonBlockingCommit == Spec => []NonBlocking
<1>1. NInv => NonBlocking
  BY DEF NInv
<1> QED BY PendingInductive, <1>1, PTL

-----------------------------------------------------------------------------
(***************************************************************************)
(* The three ways of keeping a Reg's intents (module Chains).              *)
(***************************************************************************)

\* A schedule is finite, and every action is on it.
LEMMA ActionFinite == IsFiniteSet(Action)
<1>1. ASSUME NEW p \in Pos PROVE IsFiniteSet(Item(p))
  <2> DEFINE f == [k \in 1..Len(Exec[p]) |-> Exec[p][k]]
  <2>1. f \in Surjection(1..Len(Exec[p]), Item(p))
    BY DEF Surjection, Item
  <2>2. IsFiniteSet(1..Len(Exec[p]))
    BY ExecFacts, FS_Interval
  <2> HIDE DEF f
  <2> QED BY <2>1, <2>2, FS_Surjection
<1> DEFINE Items == {Item(p) : p \in Pos}
<1>2. IsFiniteSet(Items)
  <2> DEFINE g == [p \in Pos |-> Item(p)]
  <2>1. g \in Surjection(Pos, Items)
    BY DEF Surjection
  <2>2. IsFiniteSet(Pos)
    BY ExecFacts, FS_Interval DEF Pos
  <2> HIDE DEF g, Items
  <2> QED BY <2>1, <2>2, FS_Surjection
<1>3. \A T \in Items : IsFiniteSet(T)
  BY <1>1
<1>4. Action \in SUBSET UNION Items
  BY ExecAssumption
<1> HIDE DEF Items
<1> QED BY <1>2, <1>3, <1>4, FS_UNION, FS_Subset

\* The members of a chain are numbered from 0 in registration order, with no gap.
LEMMA Ranks ==
  ASSUME NEW r
  PROVE  /\ Cardinality(Updates(r)) \in Nat
         /\ \A a \in Updates(r) : Bit(a) \in 0..(Cardinality(Updates(r)) - 1)
         /\ \A a, b \in Updates(r) : a < b => Bit(a) < Bit(b)
         /\ \A k \in 0..(Cardinality(Updates(r)) - 1) : \E a \in Updates(r) : Bit(a) = k
<1> DEFINE S == Updates(r)
           n == Cardinality(S)
           Under(x) == {y \in S : y < x}
           bit == [x \in S |-> Cardinality(Under(x))]
<1>1. S \in SUBSET Nat /\ IsFiniteSet(S) /\ n \in Nat
  <2>1. S \in SUBSET Action /\ Action \subseteq Nat
    BY StructureAssumption DEF Updates
  <2> QED BY <2>1, ActionFinite, FS_Subset, FS_CardinalityType
<1>2. \A a \in S : Bit(a) = bit[a]
  BY DEF Bit, Updates
<1> HIDE DEF S
<1>3. ASSUME NEW x \in S
      PROVE  bit[x] \in 0..(n - 1) /\ IsFiniteSet(Under(x)) /\ Cardinality(Under(x)) \in Nat
  <2>1. Under(x) \in SUBSET S /\ Under(x) # S
    BY <1>1
  <2>2. IsFiniteSet(Under(x)) /\ Cardinality(Under(x)) <= n /\ Cardinality(Under(x)) # n
    BY <1>1, <2>1, FS_Subset
  <2>3. Cardinality(Under(x)) \in Nat
    BY <2>2, FS_CardinalityType
  <2> HIDE DEF Under, n
  <2> QED BY <1>1, <2>2, <2>3
<1>4. ASSUME NEW x \in S, NEW y \in S, x < y PROVE bit[x] < bit[y]
  <2>1. \A z \in S : z < x => z < y
    BY <1>1, <1>4
  <2>2. Under(x) \in SUBSET Under(y) /\ x \in Under(y) /\ x \notin Under(x)
    <3>1. \A z \in Under(x) : z \in Under(y)
      BY <2>1
    <3>2. x \in Under(y) /\ x \notin Under(x)
      BY <1>1, <1>4
    <3> HIDE DEF Under
    <3> QED BY <3>1, <3>2
  <2> HIDE DEF Under
  <2>3. Cardinality(Under(x)) <= Cardinality(Under(y)) /\ Cardinality(Under(x)) # Cardinality(Under(y))
    BY <1>3, <2>2, FS_Subset
  <2> QED BY <1>3, <2>3
<1>5. \A x, y \in S : bit[x] = bit[y] => x = y
  <2> TAKE x, y \in S
  <2> HAVE bit[x] = bit[y]
  <2>1. ~(x < y) /\ ~(y < x)
    <3>1. bit[x] \in Nat
      BY <1>3
    <3> HIDE DEF bit
    <3> QED BY <1>4, <3>1
  <2> QED BY <1>1, <2>1
<1>6. \A k \in 0..(n - 1) : \E x \in S : bit[x] = k
  <2>1. IsFiniteSet(0..(n - 1)) /\ Cardinality(0..(n - 1)) = n
    <3>1. 0 \in Int /\ n - 1 \in Int
      BY <1>1
    <3>2. /\ IsFiniteSet(0..(n - 1))
          /\ Cardinality(0..(n - 1)) = IF 0 > n - 1 THEN 0 ELSE (n - 1) - 0 + 1
      BY <3>1, FS_Interval
    <3> HIDE DEF n
    <3> QED BY <1>1, <3>2
  <2>2. bit \in [S -> 0..(n - 1)]
    BY <1>3
  <2> HIDE DEF bit
  <2>3. bit \in Injection(S, 0..(n - 1))
    BY <1>5, <2>2 DEF Injection, IsInjective
  <2>4. bit \in Surjection(S, 0..(n - 1))
    BY <1>1, <2>1, <2>3, FS_Injection
  <2> QED BY <2>4 DEF Surjection
<1>7. /\ \A a \in S : Bit(a) \in 0..(n - 1)
      /\ \A a, b \in S : a < b => Bit(a) < Bit(b)
      /\ \A k \in 0..(n - 1) : \E a \in S : Bit(a) = k
  <2>1. \A a \in S : bit[a] \in 0..(n - 1)
    BY <1>3
  <2>2. \A a, b \in S : a < b => bit[a] < bit[b]
    BY <1>4
  <2> HIDE DEF bit
  <2> QED BY <1>2, <1>6, <2>1, <2>2
<1> QED BY <1>1, <1>7 DEF S

\* List u, of places 0 to n, filled from the end: by d where T says so, else by the next
\* place; the last by c.
Filled(u, n, c, T, d) ==
  \A k \in 0..n : u[k] = IF k = n THEN c ELSE IF k \in T THEN d[k] ELSE u[k + 1]

\* Two lists filled by the same rule start alike.
LEMMA SameFromTheEnd ==
  ASSUME NEW n \in Nat, NEW c, NEW T, NEW d, NEW u, NEW v,
         Filled(u, n, c, T, d), Filled(v, n, c, T, d)
  PROVE  u[0] = v[0]
<1> DEFINE B == {j \in 0..n : u[n - j] # v[n - j]}
<1> SUFFICES ASSUME B # {} PROVE FALSE
  <2>1. n \notin B => u[0] = v[0]
    OBVIOUS
  <2> QED BY <2>1
<1>1. PICK j \in B : \A i \in B : j <= i
  <2>1. B \in SUBSET Nat
    OBVIOUS
  <2> HIDE DEF B
  <2> QED BY <2>1, EarliestIn
<1>2. j # 0
  <2>1. u[n] = c /\ v[n] = c
    BY DEF Filled
  <2>2. n - 0 = n
    OBVIOUS
  <2> QED BY <2>1, <2>2
<1>3. j - 1 \in 0..n /\ j - 1 \notin B
  BY <1>1, <1>2
<1>4. u[(n - j) + 1] = v[(n - j) + 1]
  <2>1. n - (j - 1) = (n - j) + 1
    OBVIOUS
  <2> QED BY <1>3, <2>1
<1>5. n - j \in 0..n /\ n - j # n
  BY <1>2
<1> QED BY <1>4, <1>5 DEF Filled

\* commitChain() leaves in next_ the value of the earliest intent that is up.
LEMMA AppliedFirst ==
  ASSUME NEW r, NEW stored, UpIn(r) # {}
  PROVE  Applied(r, stored) = stored[Earliest(UpIn(r))].data
<1> DEFINE n == Cardinality(Updates(r))
           Kth(k) == CHOOSE b \in Updates(r) : Bit(b) = k
           From(k) == {a \in UpIn(r) : Bit(a) >= k}
           IsFrom(u) == u = [k \in 0..n |->
                               IF k = n THEN next[r]
                               ELSE IF Up(Kth(k)) THEN stored[Kth(k)].data ELSE u[k + 1]]
           v == [k \in 0..n |-> IF From(k) = {} THEN next[r] ELSE stored[Earliest(From(k))].data]
<1>1. /\ n \in Nat
      /\ \A a \in Updates(r) : Bit(a) \in 0..(n - 1)
      /\ \A a, b \in Updates(r) : a < b => Bit(a) < Bit(b)
      /\ \A k \in 0..(n - 1) : Kth(k) \in Updates(r) /\ Bit(Kth(k)) = k
  BY Ranks
<1>2. UpIn(r) \subseteq Updates(r) /\ Updates(r) \subseteq Nat
  BY StructureAssumption DEF UpIn, Updates
<1>3. Applied(r, stored) = (CHOOSE u : IsFrom(u))[0]
  BY DEF Applied
<1> HIDE DEF n, Kth
<1>4. ASSUME NEW k \in 0..n
      PROVE  v[k] = IF k = n THEN next[r] ELSE IF Up(Kth(k)) THEN stored[Kth(k)].data ELSE v[k + 1]
  <2>1. CASE k = n
    <3>1. From(n) = {}
      <4>1. \A a \in UpIn(r) : Bit(a) \in 0..(n - 1)
        BY <1>1, <1>2
      <4> QED BY <1>1, <4>1
    <3> QED BY <2>1, <3>1
  <2>2. CASE k # n
    <3> DEFINE a == Kth(k)
    <3>1. k \in 0..(n - 1) /\ k + 1 \in 0..n
      BY <1>1, <2>2
    <3>2. a \in Updates(r) /\ Bit(a) = k
      BY <1>1, <3>1
    <3> HIDE DEF a
    <3>3. CASE Up(a)
      <4>1. a \in From(k)
        BY <3>2, <3>3, <3>1 DEF UpIn
      <4>2. ASSUME NEW b \in From(k) PROVE ~(b < a)
        <5>1. b \in Updates(r) /\ Bit(b) >= k /\ Bit(b) \in 0..(n - 1)
          BY <1>1, <1>2
        <5> QED BY <1>1, <3>1, <3>2, <5>1
      <4>3. From(k) \in SUBSET Nat
        BY <1>2
      <4> HIDE DEF From
      <4>4. Earliest(From(k)) \in From(k) /\ Earliest(From(k)) <= a
        BY <4>1, <4>3, EarliestIn
      <4>5. Earliest(From(k)) = a
        <5>1. ~(Earliest(From(k)) < a)
          BY <4>2, <4>4
        <5>2. Earliest(From(k)) \in Nat /\ a \in Nat
          BY <1>2, <3>2, <4>3, <4>4
        <5> QED BY <4>4, <5>1, <5>2
      <4> QED BY <2>2, <3>3, <4>1, <4>5 DEF a
    <3>4. CASE ~Up(a)
      <4>1. ASSUME NEW b \in UpIn(r), Bit(b) >= k PROVE Bit(b) >= k + 1
        <5>1. b \in Updates(r) /\ b # a /\ Bit(b) \in Nat
          BY <1>1, <1>2, <3>4 DEF UpIn
        <5>2. Bit(b) # k
          <6>1. a \in Nat /\ b \in Nat
            BY <1>2, <3>2, <5>1
          <6>2. a < b \/ b < a
            BY <5>1, <6>1
          <6> QED BY <1>1, <3>1, <3>2, <5>1, <6>2
        <5> QED BY <3>1, <4>1, <5>1, <5>2
      <4>2. ASSUME NEW b \in UpIn(r), Bit(b) >= k + 1 PROVE Bit(b) >= k
        <5>1. Bit(b) \in Nat
          BY <1>1, <1>2
        <5> QED BY <3>1, <4>2, <5>1
      <4>3. From(k) = From(k + 1)
        BY <4>1, <4>2
      <4> HIDE DEF From
      <4> QED BY <2>2, <3>1, <3>4, <4>3 DEF a
    <3> QED BY <3>3, <3>4
  <2> QED BY <2>1, <2>2
<1>5. IsFrom(v)
  <2> HIDE DEF v
  <2>1. v = [k \in 0..n |-> v[k]]
    BY DEF v
  <2> QED BY <1>4, <2>1
<1> DEFINE u == CHOOSE x : IsFrom(x)
<1>6. IsFrom(u)
  <2> HIDE DEF IsFrom, v
  <2> QED BY <1>5
<1>7. \A k \in 0..n : u[k] = IF k = n THEN next[r] ELSE IF Up(Kth(k)) THEN stored[Kth(k)].data ELSE u[k + 1]
  <2> HIDE DEF u
  <2> QED BY <1>6
<1>8. u[0] = v[0]
  <2> HIDE DEF u, v, IsFrom
  <2> DEFINE T == {k \in 0..n : Up(Kth(k))}
             d == [k \in 0..n |-> stored[Kth(k)].data]
  <2>1. Filled(u, n, next[r], T, d) /\ Filled(v, n, next[r], T, d)
    BY <1>4, <1>7 DEF Filled
  <2>2. n \in Nat
    BY <1>1
  <2> HIDE DEF T, d
  <2>3. PICK m, c, R, e, x, y :
          m = n /\ c = next[r] /\ R = T /\ e = d /\ x = u /\ y = v
    OBVIOUS
  <2>4. x[0] = y[0]
    BY <2>1, <2>2, <2>3, SameFromTheEnd
  <2> QED BY <2>3, <2>4
<1>9. From(0) = UpIn(r)
  <2>1. \A a \in UpIn(r) : Bit(a) >= 0
    BY <1>1, <1>2
  <2> QED BY <2>1
<1>10. v[0] = stored[Earliest(UpIn(r))].data
  <2>1. 0 \in 0..n
    BY <1>1
  <2> HIDE DEF From
  <2> QED BY <1>9, <2>1
<1> QED BY <1>3, <1>8, <1>10

\* What the three ways keep, and that they keep the same.
WInv ==
  /\ way \in [RegChain -> {"bits", "polled", "virtual"}]
  /\ memberBits \in [RegChain -> SUBSET Nat]
  /\ flag \in [Member -> BOOLEAN]
  /\ DOMAIN next = RegChain
  /\ notified \subseteq RegChain
  /\ WaysAgree

\* A member belongs to one chain, which is the chain of a Reg.
LEMMA MemberFacts ==
  /\ \A r \in RegChain : r \in Reg /\ r \in Chain /\ r \in Cell /\ r \notin Mem
  /\ \A r \in RegChain : \A a \in Updates(r) : a \in Member /\ Target[a] = r
  /\ \A a \in Member : a \in Action /\ Target[a] \in RegChain /\ a \in Updates(Target[a])
  /\ \A a \in Action : IsUpdate(a) => Target[a] \in Chain
<1>1. Mem \cap Reg = {}
  BY StructureAssumption
<1>2. \A r \in RegChain : r \in Reg /\ r \in Chain
  BY DEF RegChain
<1>3. \A a \in Action : IsUpdate(a) => Target[a] \in Chain
  BY DEF IsUpdate, Chain, Updates
<1> QED BY <1>1, <1>2, <1>3, CellFacts DEF Member, Updates

\* Distinct members of a chain have distinct bits.
LEMMA BitsDiffer ==
  ASSUME NEW a \in Member, NEW b \in Member, Target[a] = Target[b], a # b
  PROVE  Bit(a) # Bit(b)
<1>1. a \in Updates(Target[a]) /\ b \in Updates(Target[a]) /\ a \in Nat /\ b \in Nat
  BY MemberFacts, ActionFacts
<1>2. a < b \/ b < a
  BY <1>1
<1>3. /\ a < b => Bit(a) < Bit(b)
      /\ b < a => Bit(b) < Bit(a)
      /\ Bit(a) \in Int /\ Bit(b) \in Int
  BY <1>1, Ranks
<1> QED BY <1>2, <1>3

\* A step that moves no intent, no chain and no Reg keeps the ways in agreement.
LEMMA WaysKept ==
  ASSUME WInv, UNCHANGED <<intents, cbits, chainVars>>, \A r \in RegChain : val'[r] = val[r]
  PROVE  WInv'
<1>1. UNCHANGED <<intents, cbits, way, memberBits, flag, next, notified>>
  BY DEF chainVars
<1>2. \A a \in Member : Up(a)' <=> Up(a)
  BY <1>1 DEF Up
<1>3. \A r \in RegChain : UpIn(r)' = UpIn(r) /\ Raised(r)' = Raised(r)
  BY <1>1, <1>2, MemberFacts DEF UpIn, Raised
<1> QED BY <1>1, <1>3 DEF WInv, WaysAgree

\* setIntent() changes the intent of its Update and no other, whichever way is taken.
LEMMA SetUp ==
  ASSUME WInv, NEW a \in Member, NEW active \in BOOLEAN, SetIntent(a, active)
  PROVE  /\ \A b \in Member : Up(b)' <=> IF b = a THEN active ELSE Up(b)
         /\ way' = way /\ next' = next
         /\ memberBits' \in [RegChain -> SUBSET Nat]
         /\ flag' \in [Member -> BOOLEAN]
         /\ notified' = IF active /\ ~Up(a) THEN notified \cup {Target[a]} ELSE notified
<1> DEFINE r == Target[a]
<1>1. /\ notified' = IF active /\ ~Up(a) THEN notified \cup {r} ELSE notified
      /\ memberBits' =
           IF way[r] # "bits" THEN memberBits
           ELSE [memberBits EXCEPT ![r] = IF active THEN @ \cup {Bit(a)} ELSE @ \ {Bit(a)}]
      /\ flag' = [flag EXCEPT ![a] = active]
      /\ way' = way /\ next' = next
  BY DEF SetIntent
<1>2. r \in RegChain /\ Bit(a) \in Nat
  BY MemberFacts, Ranks
<1>3. memberBits' \in [RegChain -> SUBSET Nat] /\ flag' \in [Member -> BOOLEAN]
  BY <1>1, <1>2 DEF WInv
<1>4. ASSUME NEW b \in Member PROVE Up(b)' <=> IF b = a THEN active ELSE Up(b)
  <2>1. Target[b] \in RegChain
    BY MemberFacts
  <2>2. CASE way[Target[b]] = "bits"
    <3>1. /\ Up(b) <=> Bit(b) \in memberBits[Target[b]]
          /\ Up(b)' <=> Bit(b) \in memberBits'[Target[b]]
      BY <1>1, <2>2 DEF Up
    <3>2. CASE Target[b] # r
      BY <1>1, <1>2, <2>1, <3>1, <3>2 DEF WInv
    <3>3. CASE Target[b] = r
      <4>1. memberBits'[r] = IF active THEN memberBits[r] \cup {Bit(a)} ELSE memberBits[r] \ {Bit(a)}
        BY <1>1, <1>2, <2>2, <3>3 DEF WInv
      <4>2. b # a => Bit(b) # Bit(a)
        BY <3>3, BitsDiffer
      <4> QED BY <3>1, <3>3, <4>1, <4>2
    <3> QED BY <3>2, <3>3
  <2>3. CASE way[Target[b]] # "bits"
    BY <1>1, <2>3 DEF Up, WInv
  <2> QED BY <2>2, <2>3
<1> QED BY <1>1, <1>3, <1>4

\* An Update's run keeps the ways in agreement.
LEMMA RunWays ==
  ASSUME TypeOK, WInv, NEW p \in Pos, RunUpdate(p)
  PROVE  WInv'
<1> DEFINE a == Single(p)
           active == Active(a, p)
<1>1. /\ a \in Action /\ IsUpdate(a) /\ active \in BOOLEAN
  <2>1. a \in Action /\ IsUpdate(a)
    BY ItemFacts DEF RunUpdate
  <2> QED BY <2>1 DEF Active
<1>2. /\ intents' = IF active THEN intents \cup {a} ELSE intents \ {a}
      /\ cbits' = IF active /\ a \notin intents THEN cbits \cup {Target[a]} ELSE cbits
      /\ SetIntent(a, active)
      /\ val' = val
  BY DEF RunUpdate
<1> HIDE DEF a, active
<1>3. CASE a \notin Member
  <2>1. UNCHANGED chainVars /\ Target[a] \notin RegChain
    BY <1>1, <1>2, <1>3 DEF SetIntent, Member
  <2>2. UNCHANGED <<way, memberBits, flag, next, notified>>
    BY <2>1 DEF chainVars
  <2>3. \A b \in Member : Up(b)' <=> Up(b)
    BY <2>2 DEF Up
  <2>4. \A r \in RegChain : UpIn(r)' = UpIn(r) /\ Raised(r)' = Raised(r)
    BY <1>2, <1>3, <2>3, MemberFacts DEF UpIn, Raised
  <2>5. \A r \in RegChain : r \in cbits' <=> r \in cbits
    BY <1>2, <2>1
  <2> QED BY <1>2, <2>2, <2>4, <2>5 DEF WInv, WaysAgree
<1>4. CASE a \in Member
  <2>1. /\ \A b \in Member : Up(b)' <=> IF b = a THEN active ELSE Up(b)
        /\ way' = way /\ next' = next
        /\ memberBits' \in [RegChain -> SUBSET Nat]
        /\ flag' \in [Member -> BOOLEAN]
        /\ notified' = IF active /\ ~Up(a) THEN notified \cup {Target[a]} ELSE notified
    BY <1>1, <1>2, <1>4, SetUp
  <2>2. Target[a] \in RegChain /\ a \in Updates(Target[a])
    BY <1>4, MemberFacts
  <2>3. Up(a) <=> a \in intents
    <3>1. UpIn(Target[a]) = Raised(Target[a])
      BY <2>2 DEF WInv, WaysAgree
    <3> QED BY <2>2, <3>1 DEF UpIn, Raised
  <2>4. ASSUME NEW r \in RegChain
        PROVE  /\ UpIn(r)' = Raised(r)'
               /\ r \in notified' <=> r \in cbits'
               /\ next'[r] = val'[r]
    <3>1. UpIn(r) = Raised(r) /\ (r \in notified <=> r \in cbits) /\ next[r] = val[r]
      BY DEF WInv, WaysAgree
    <3>2. \A b \in Updates(r) : Up(b) <=> b \in intents
      BY <3>1 DEF UpIn, Raised
    <3>3. \A b \in Updates(r) : Up(b)' <=> b \in intents'
      BY <1>2, <2>1, <3>2, MemberFacts
    <3>4. UpIn(r)' = Raised(r)'
      BY <3>3 DEF UpIn, Raised
    <3>5. r \in notified' <=> r \in cbits'
      BY <1>2, <2>1, <2>3, <3>1
    <3> QED BY <1>2, <2>1, <3>1, <3>4, <3>5
  <2>5. notified' \subseteq RegChain
    BY <2>1, <2>2 DEF WInv
  <2>6. WaysAgree'
    BY <2>4 DEF WaysAgree
  <2> QED BY <2>1, <2>5, <2>6 DEF WInv
<1> QED BY <1>3, <1>4

\* A chain's commit keeps the ways in agreement.
LEMMA CommitWays ==
  ASSUME TypeOK, WInv, NEW r \in Chain, CommitChain(r)
  PROVE  WInv'
<1>1. cbits' = cbits \ {r} /\ CommitReg(r, intent, mutex)
  BY DEF CommitChain
<1>2. r \in Cell
  BY ChainFacts
<1>3. \/ Raised(r) = {} /\ UNCHANGED <<wires, intents>>
      \/ mutex /\ Cardinality(Raised(r)) > 1 /\ UNCHANGED <<wires, intents>>
      \/ /\ Raised(r) # {} /\ (mutex => Cardinality(Raised(r)) = 1)
         /\ Write(r, Landing(r), {}) /\ intents' = intents \ Raised(r)
  BY DEF CommitChain
<1>4. \A s \in RegChain : s # r => val'[s] = val[s]
  <2>1. CASE UNCHANGED wires
    BY <2>1 DEF wires
  <2>2. CASE Write(r, Landing(r), {})
    BY <1>2, <2>2, WriteVal, MemberFacts DEF TypeOK
  <2> QED BY <1>3, <2>1, <2>2
<1>5. ASSUME NEW s \in RegChain, s # r PROVE Raised(s)' = Raised(s)
  <2>1. Updates(s) \cap Updates(r) = {}
    BY <1>5 DEF Updates
  <2>2. intents' = intents \/ intents' = intents \ Raised(r)
    BY <1>3
  <2> QED BY <2>1, <2>2 DEF Raised
<1>6. CASE r \notin RegChain
  <2>1. UNCHANGED <<way, memberBits, flag, next, notified>>
    BY <1>1, <1>6 DEF CommitReg, chainVars
  <2>2. \A b \in Member : Up(b)' <=> Up(b)
    BY <2>1 DEF Up
  <2>3. ASSUME NEW s \in RegChain
        PROVE  /\ UpIn(s)' = Raised(s)' /\ (s \in notified' <=> s \in cbits') /\ next'[s] = val'[s]
    <3>1. UpIn(s)' = UpIn(s) /\ s # r
      BY <1>6, <2>2, MemberFacts DEF UpIn
    <3>2. UpIn(s) = Raised(s) /\ (s \in notified <=> s \in cbits) /\ next[s] = val[s]
      BY DEF WInv, WaysAgree
    <3> QED BY <1>1, <1>4, <1>5, <2>1, <3>1, <3>2
  <2>4. WaysAgree'
    BY <2>3 DEF WaysAgree
  <2> QED BY <2>1, <2>4 DEF WInv
<1>7. CASE r \in RegChain
  <2>1. UpIn(r) = Raised(r) /\ next[r] = val[r] /\ r \notin Mem
    BY <1>7, MemberFacts DEF WInv, WaysAgree
  <2>2. notified' = notified \ {r} /\ way' = way
    BY <1>1, <1>7 DEF CommitReg
  <2>3. CASE Raised(r) = {} \/ (mutex /\ Cardinality(Raised(r)) > 1)
    <3>1. UNCHANGED <<memberBits, flag, next>>
      BY <1>1, <1>7, <2>1, <2>3 DEF CommitReg
    <3>2. UNCHANGED <<val, intents>>
      <4>1. Cardinality(Raised(r)) > 1 => Cardinality(Raised(r)) # 1
        <5>1. IsFiniteSet(Raised(r))
          <6>1. Raised(r) \in SUBSET Action
            BY ChainFacts DEF Raised
          <6> QED BY <6>1, ActionFinite, FS_Subset
        <5>2. Cardinality(Raised(r)) \in Nat
          BY <5>1, FS_CardinalityType
        <5> QED BY <5>2
      <4> QED BY <1>3, <2>3, <4>1 DEF wires
    <3>3. \A b \in Member : Up(b)' <=> Up(b)
      BY <2>2, <3>1 DEF Up
    <3>4. ASSUME NEW s \in RegChain
          PROVE  /\ UpIn(s)' = Raised(s)' /\ (s \in notified' <=> s \in cbits') /\ next'[s] = val'[s]
      <4>1. UpIn(s)' = UpIn(s) /\ Raised(s)' = Raised(s)
        BY <3>2, <3>3, MemberFacts DEF UpIn, Raised
      <4>2. UpIn(s) = Raised(s) /\ (s \in notified <=> s \in cbits) /\ next[s] = val[s]
        BY DEF WInv, WaysAgree
      <4> QED BY <1>1, <2>2, <3>1, <3>2, <4>1, <4>2
    <3>5. WaysAgree'
      BY <3>4 DEF WaysAgree
    <3> QED BY <2>2, <3>1, <3>5 DEF WInv
  <2>4. CASE ~(Raised(r) = {} \/ (mutex /\ Cardinality(Raised(r)) > 1))
    <3>1. /\ next' = [next EXCEPT ![r] = Applied(r, intent)]
          /\ IF way[r] = "bits"
             THEN memberBits' = [memberBits EXCEPT ![r] = {}] /\ UNCHANGED flag
             ELSE flag' = [a \in Member |-> flag[a] /\ Target[a] # r] /\ UNCHANGED memberBits
      BY <1>1, <1>7, <2>1, <2>4 DEF CommitReg
    <3>2. Write(r, Landing(r), {}) /\ intents' = intents \ Raised(r)
      BY <1>3, <2>4
    <3>3. \A b \in Member : Up(b)' <=> Up(b) /\ Target[b] # r
      <4> TAKE b \in Member
      <4>1. Target[b] \in RegChain
        BY MemberFacts
      <4>2. CASE way[Target[b]] = "bits"
        <5>1. Up(b) <=> Bit(b) \in memberBits[Target[b]]
          BY <4>2 DEF Up
        <5>2. Up(b)' <=> Bit(b) \in memberBits'[Target[b]]
          BY <2>2, <4>2 DEF Up
        <5>3. memberBits'[Target[b]] = IF Target[b] = r THEN {} ELSE memberBits[Target[b]]
          BY <3>1, <4>1, <4>2 DEF WInv
        <5> QED BY <5>1, <5>2, <5>3
      <4>3. CASE way[Target[b]] # "bits"
        <5>1. Up(b) <=> flag[b]
          BY <4>3 DEF Up
        <5>2. Up(b)' <=> flag'[b]
          BY <2>2, <4>3 DEF Up
        <5>3. flag'[b] <=> flag[b] /\ Target[b] # r
          BY <3>1, <4>1, <4>3 DEF WInv
        <5> QED BY <5>1, <5>2, <5>3
      <4> QED BY <4>2, <4>3
    <3>4. next'[r] = val'[r]
      <4>1. Applied(r, intent) = intent[Earliest(UpIn(r))].data
        <5>1. PICK stored : stored = intent
          OBVIOUS
        <5>2. Applied(r, stored) = stored[Earliest(UpIn(r))].data
          BY <2>1, <2>4, AppliedFirst
        <5> QED BY <5>1, <5>2
      <4>2. Landing(r) = intent[Earliest(Raised(r))].data
        BY <2>1 DEF Landing
      <4>3. val'[r] = Landing(r)
        BY <1>2, <3>2, WriteVal DEF TypeOK
      <4>4. next'[r] = Applied(r, intent)
        BY <1>7, <3>1 DEF WInv
      <4> QED BY <2>1, <4>1, <4>2, <4>3, <4>4
    <3>5. UpIn(r)' = {} /\ Raised(r)' = {}
      BY <1>7, <3>2, <3>3, MemberFacts DEF UpIn, Raised
    <3>6. ASSUME NEW s \in RegChain
          PROVE  /\ UpIn(s)' = Raised(s)' /\ (s \in notified' <=> s \in cbits') /\ next'[s] = val'[s]
      <4>1. CASE s = r
        BY <1>1, <2>2, <3>4, <3>5, <4>1
      <4>2. CASE s # r
        <5>1. UpIn(s)' = UpIn(s)
          BY <3>3, <4>2, MemberFacts DEF UpIn
        <5>2. UpIn(s) = Raised(s) /\ (s \in notified <=> s \in cbits) /\ next[s] = val[s]
          BY DEF WInv, WaysAgree
        <5>3. next'[s] = next[s]
          BY <3>1, <4>2 DEF WInv
        <5> QED BY <1>1, <1>4, <1>5, <2>2, <4>2, <5>1, <5>2, <5>3
      <4> QED BY <4>1, <4>2
    <3>7. WaysAgree'
      BY <3>6 DEF WaysAgree
    <3>8. /\ memberBits' \in [RegChain -> SUBSET Nat] /\ flag' \in [Member -> BOOLEAN]
          /\ DOMAIN next' = RegChain
      BY <1>7, <3>1 DEF WInv
    <3> QED BY <2>2, <3>7, <3>8 DEF WInv
  <2> QED BY <2>3, <2>4
<1> QED BY <1>6, <1>7

\* Everything else leaves intents, chains and Regs alone.
LEMMA OtherWays ==
  ASSUME TypeOK, WInv,
         \/ Harness \/ \E p \in Pos : RunAssign(p) \/ EnterGroup(p)
         \/ GroupAction \/ GroupPass \/ NextWord \/ EndScan \/ EndRound \/ UNCHANGED vars
  PROVE  WInv'
<1>1. UNCHANGED <<intents, cbits, chainVars>>
  BY DEF Harness, Set, TraceOn, TraceOff, OtherRootTrace, MutexSwitch, BeginEval, RunAssign,
         EnterGroup, GroupAction, GroupPass, NextWord, EndScan, EndRound, vars, commits
<1>2. ASSUME NEW c \in Cell, NEW v, NEW cleared, Write(c, v, cleared), c \notin RegChain
      PROVE  \A r \in RegChain : val'[r] = val[r]
  BY <1>2, WriteVal, MemberFacts DEF TypeOK
<1>3. \A r \in RegChain : val'[r] = val[r]
  <2>1. CASE \E i \in Input : Set(i)
    <3>1. PICK i \in Input : Set(i)
      BY <2>1
    <3>2. PICK v : Write(i, v, {})
      BY <3>1 DEF Set
    <3>3. i \in Cell /\ i \notin RegChain
      BY CellFacts, MemberFacts, StructureAssumption
    <3> QED BY <1>2, <3>2, <3>3
  <2>2. CASE \E p \in Pos : RunAssign(p)
    <3>1. PICK p \in Pos : RunAssign(p)
      BY <2>2
    <3>2. Single(p) \in Action /\ ~IsUpdate(Single(p))
      BY <3>1, ItemFacts DEF RunAssign
    <3>3. Target[Single(p)] \in Cell /\ Target[Single(p)] \notin RegChain
      BY <3>2, ActionFacts, MemberFacts DEF IsUpdate
    <3> QED BY <1>2, <3>1, <3>3 DEF RunAssign
  <2>3. CASE GroupAction
    <3> DEFINE a == Exec[grp.pos][grp.k]
    <3>1. grp.pos \in Group /\ grp.k \in 1..Len(Exec[grp.pos])
      BY <2>3 DEF GroupAction, TypeOK, ControlOK
    <3>2. a \in Action /\ ~IsUpdate(a)
      <4>1. grp.pos \in Pos
        BY <3>1, ExecAssumption
      <4> QED BY <3>1, <4>1, ExecFacts, ItemFacts
    <3>3. Target[a] \in Cell /\ Target[a] \notin RegChain
      BY <3>2, ActionFacts, MemberFacts DEF IsUpdate
    <3> QED BY <1>2, <2>3, <3>3 DEF GroupAction
  <2>4. CASE val' = val
    BY <2>4
  <2> QED BY <2>1, <2>2, <2>3, <2>4
          DEF Harness, TraceOn, TraceOff, OtherRootTrace, MutexSwitch, BeginEval,
              EnterGroup, GroupPass, NextWord, EndScan, EndRound, vars, wires
<1> QED BY <1>1, <1>3, WaysKept

\* Elaboration leaves every chain empty, and every next_ at the initial value.
LEMMA InitWays == Init => WInv
<1> SUFFICES ASSUME Init PROVE WInv
  OBVIOUS
<1>1. ChainInit /\ intents = {} /\ cbits = {} /\ val = Initial
  BY DEF Init
<1>2. /\ memberBits = [r \in RegChain |-> {}] /\ flag = [a \in Member |-> FALSE]
      /\ next = [r \in RegChain |-> 0] /\ notified = {}
      /\ way \in [RegChain -> {"bits", "polled", "virtual"}]
  BY <1>1 DEF ChainInit
<1>3. \A a \in Member : ~Up(a)
  BY <1>2, MemberFacts DEF Up
<1>4. \A r \in RegChain : UpIn(r) = {} /\ Raised(r) = {}
  BY <1>1, <1>3, MemberFacts DEF UpIn, Raised
<1>5. \A r \in RegChain : next[r] = val[r]
  BY <1>1, <1>2, MemberFacts DEF Initial
<1> QED BY <1>1, <1>2, <1>4, <1>5 DEF WInv, WaysAgree

\* The three ways are one (graph.h:461-512): whatever the type of a Reg and the length
\* of its chain, the same intents are up, the same chains are visited, and the same
\* value lands, under any order of calls and after any caught Error.
THEOREM WaysCommitAlike == Spec => []WaysAgree
<1>1. TypeOK /\ WInv /\ [Next]_vars => WInv'
  <2> SUFFICES ASSUME TypeOK, WInv, [Next]_vars PROVE WInv'
    OBVIOUS
  <2>1. CASE \E p \in Pos : RunUpdate(p)
    BY <2>1, RunWays
  <2>2. CASE \E r \in Chain : CommitChain(r)
    BY <2>2, CommitWays
  <2> QED BY <2>1, <2>2, OtherWays DEF Next, Eval
<1>2. WInv => WaysAgree
  BY DEF WInv
<1> QED BY InitWays, <1>1, <1>2, TypeCorrect, PTL DEF Spec
=============================================================================
