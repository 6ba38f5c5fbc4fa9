------------------------------ MODULE Netlist ------------------------------
(***************************************************************************)
(* The simulation structures elaboration leaves behind (SimState,          *)
(* include/wolvicmod/elab/graph.h): the scheduled items, who is woken by   *)
(* what, and the priority chains.  Everything here is fixed once           *)
(* elaborate() returns; module Engine runs on it.                          *)
(*                                                                         *)
(* A bool is 0 or 1, a word is a number of Value, a Mem is a function from *)
(* its rows.  An action is named by its registration index, so "earlier    *)
(* registered" is "<".  Pre-alias names (Canon[e] # e) are kept because    *)
(* registration-time checks compare them before aliasing is resolved.      *)
(***************************************************************************)
EXTENDS Integers, Sequences, FiniteSets

CONSTANTS
  Entity,     \* every signal and state element of the flattened model
  Mem,        \* the row-addressed ones
  Reg,        \* the single-value registers
  Input,      \* the root module's inputs
  Canon,      \* Entity -> the canonical source its storage is aliased to
  Action,     \* registration indices of the actions aliasing did not eliminate
  Target,     \* Action -> the entity it drives
  Plain,      \* Action -> entities of .reads(...) and .addr(...)
  Events,     \* Action -> sequence of [sig, kind] of .on(...); <<>> for an Assign
  Guard,      \* Action -> {g} for .en(g), {} without one
  Addr,       \* action on a Mem -> its address signal
  Exec,       \* execOrder: a sequence of items, each a sequence of actions
  Group,      \* the positions holding an SCC group instead of one action
  Value,      \* the words
  Row,        \* the rows of a Mem
  Fn(_, _),   \* the user's lambda: action, view of its reads -> value
  WordBits,   \* bits in one word of the activity bitmap (64)
  SccIterCap, \* SimState::sccIterCap (100)
  RoundCap    \* SimState::roundCap (10000)

Pos == 1..Len(Exec)
Item(p) == {Exec[p][k] : k \in 1..Len(Exec[p])}
Word(p) == (p - 1) \div WordBits
LastWord == Word(Len(Exec))

Edge == {"posedge", "negedge"}
EventSigs(a) == {Events[a][i].sig : i \in DOMAIN Events[a]}
IsUpdate(a) == Target[a] \in Reg \cup Mem
Reads(a) == {Canon[e] : e \in Plain[a] \cup Guard[a] \cup EventSigs(a)}

\* The storage cells: no entity is aliased to a cell that is itself aliased.
Cell == {Canon[e] : e \in Entity}
Content(c) == IF c \in Mem THEN [Row -> Value] ELSE Value
IsValuation(w) == DOMAIN w = Cell /\ \A c \in Cell : w[c] \in Content(c)
Producer(c) == {p \in Pos : \E a \in Item(p) : ~IsUpdate(a) /\ Target[a] = c}

(***************************************************************************)
(* What elaboration checked or built: one driver per signal, no driver for *)
(* a root input (flatten.h:31-56), aliases fully compressed                *)
(* (flatten.h:66-97), every action scheduled once, SCC groups made of      *)
(* Assigns only, and a producer never after a consumer (graph.h:408-411).  *)
(***************************************************************************)
ASSUME StructureAssumption ==
  /\ Mem \cup Reg \cup Input \subseteq Entity
  /\ Mem \cap (Reg \cup Input) = {} /\ Reg \cap Input = {}
  /\ Canon \in [Entity -> Entity]
  /\ \A e \in Entity : Canon[Canon[e]] = Canon[e] /\ (Canon[e] \in Mem => e \in Mem)
  /\ \A e \in Mem \cup Reg \cup Input : Canon[e] = e
  /\ Action \subseteq Nat
  /\ Target \in [Action -> Entity]
  /\ Plain \in [Action -> SUBSET Entity]
  /\ Guard \in [Action -> SUBSET (Entity \ Mem)]
  /\ Events \in [Action -> Seq([sig : Entity \ Mem, kind : Edge])]
  /\ \A a \in Action : Events[a] = <<>> <=> ~IsUpdate(a)

ASSUME DriverAssumption ==
  /\ \A a \in Action : Canon[Target[a]] = Target[a] /\ Target[a] \notin Input
  /\ \A a, b \in Action : ~IsUpdate(a) /\ Target[a] = Target[b] => a = b
  /\ Addr \in [{a \in Action : Target[a] \in Mem} -> Entity \ Mem]
  /\ \A a \in DOMAIN Addr : Addr[a] \in Plain[a]

ASSUME ExecAssumption ==
  /\ Exec \in Seq(Seq(Action) \ {<<>>}) /\ Exec # <<>>
  /\ \A a \in Action : \E p \in Pos : a \in Item(p)
  /\ \A p, q \in Pos : \A j \in 1..Len(Exec[p]), k \in 1..Len(Exec[q]) :
        Exec[p][j] = Exec[q][k] => p = q /\ j = k
  /\ Group \subseteq Pos
  /\ \A p \in Pos \ Group : Len(Exec[p]) = 1
  /\ \A p \in Group : \A a \in Item(p) : ~IsUpdate(a)
  /\ \A p \in Pos : \A a \in Item(p) : \A c \in Reads(a) : \A q \in Producer(c) :
        q < p \/ (q = p /\ p \in Group)

ASSUME ValueAssumption ==
  /\ Value \subseteq Nat /\ 0 \in Value
  /\ Row \subseteq Value /\ 0 \in Row
  /\ WordBits \in Nat \ {0} /\ SccIterCap \in Nat \ {0} /\ RoundCap \in Nat \ {0}

\* Events are taken on bool signals only (core/edge.h:30-40).
EventCell == {Canon[e] : e \in UNION {EventSigs(a) : a \in Action}}
Bool == {0, 1}

\* The lambda is a function of exactly the tuple it is handed (makeCompute), and
\* returns what its target holds.
ASSUME FnAssumption ==
  \A a \in Action : \A s \in [Plain[a] \ Mem -> Value] :
    \A m \in [Plain[a] \cap Mem -> [Row -> Value]] :
      LET out == Fn(a, [e \in Plain[a] |-> IF e \in Mem THEN m[e] ELSE s[e]])
      IN  out \in Value /\ (Target[a] \in EventCell => out \in Bool)

-----------------------------------------------------------------------------
(***************************************************************************)
(* Event watches (action.h:531-551, graph.h:375-424).                      *)
(***************************************************************************)

\* The Update uses the signal as this one event and nothing else.  Names are
\* compared as registered, before aliasing.
Eligible(a, i) ==
  /\ Events[a][i].sig \notin Plain[a] \cup Guard[a]
  /\ \A j \in DOMAIN Events[a] : Events[a][j].sig = Events[a][i].sig => j = i

\* A single-event Update learns of its edge from an edge bit, not from prev.
EdgeBitMode(a) == Len(Events[a]) = 1 /\ Eligible(a, 1)

SccDriven(c) == Producer(c) \cap Group # {}

\* The watch that replaces the dependency of a on cell c: the first eligible
\* event whose alias-resolved signal is c.
WatchSlot(a, c) ==
  LET hits == {i \in DOMAIN Events[a] : Eligible(a, i) /\ Canon[Events[a][i].sig] = c}
  IN  {i \in hits : ~SccDriven(c) /\ \A j \in hits : i <= j}

\* Positions always woken by a change of c (SimState::depPool).
Deps == [c \in Cell |->
  {p \in Pos \ Producer(c) :
     \E a \in Item(p) : c \in Reads(a) /\ (p \in Group \/ WatchSlot(a, c) = {})}]

\* Event slots of the Updates scheduled on their own.
Single(p) == Exec[p][1]
Slots == UNION {{<<p, i>> : i \in DOMAIN Events[Single(p)]} : p \in Pos \ Group}

\* c's pos/neg watch list: the slots woken by a change of c in one direction.
Watch == [c \in Cell |-> [k \in Edge |->
  {s \in Slots : LET a == Single(s[1]) IN
     s[2] \in WatchSlot(a, c) /\ Events[a][s[2]].kind = k}]]

-----------------------------------------------------------------------------
\* What an action sees: the values of its declared reads, through the aliases.
View(a, w) == [e \in Plain[a] |-> w[Canon[e]]]
Compute(a, w) == Fn(a, View(a, w))

GuardPass(a, w) == \A g \in Guard[a] : w[Canon[g]] # 0

Rises(k, old, new) == IF k = "posedge" THEN old = 0 /\ new # 0 ELSE old # 0 /\ new = 0

\* Update chains (graph.h:461-512): every state element updated by someone,
\* in the order their first Update was registered.
Chain == {Target[a] : a \in {b \in Action : IsUpdate(b)}}
Updates(r) == {a \in Action : Target[a] = r}
Earliest(S) == CHOOSE a \in S : \A b \in S : a <= b
ChainBefore(r, s) == Earliest(Updates(r)) < Earliest(Updates(s))

\* The assignments of an item hold in a valuation.
SettledItem(p, w) == \A a \in Item(p) : ~IsUpdate(a) => w[Target[a]] = Compute(a, w)
=============================================================================
