-------------------------- MODULE ActivationProofs --------------------------
(***************************************************************************)
(* When an Update activates, on every netlist and for any number of evals: *)
(* exactly when one of its events occurred between two settled states and  *)
(* its guard holds in the new one, provided the harness is Disciplined and *)
(* no Error has been thrown.  From it, that Engine implements EvalSpec.    *)
(***************************************************************************)
EXTENDS EngineProofs

-----------------------------------------------------------------------------
(***************************************************************************)
(* The slots of an Update, and what one write does to them.                *)
(***************************************************************************)
EventCellOf(a, i) == Canon[Events[a][i].sig]
IsUpdatePos(p) == p \in Pos \ Group /\ IsUpdate(Single(p))

\* The cell of an event is a bool the Update reads.
LEMMA UpdateFacts ==
  ASSUME NEW p, IsUpdatePos(p)
  PROVE  /\ p \in Pos /\ Single(p) \in Action /\ Item(p) = {Single(p)}
         /\ \A c : p \notin Producer(c)
         /\ DOMAIN Events[Single(p)] = 1..Len(Events[Single(p)]) /\ Len(Events[Single(p)]) \in Nat \ {0}
         /\ \A i \in DOMAIN Events[Single(p)] :
              /\ EventCellOf(Single(p), i) \in Cell \ Mem
              /\ EventCellOf(Single(p), i) \in EventCell
              /\ EventCellOf(Single(p), i) \in Reads(Single(p))
              /\ Events[Single(p)][i].kind \in Edge
<1> DEFINE a == Single(p)
<1>1. p \in Pos /\ a \in Action /\ Item(p) = {a} /\ IsUpdate(a)
  BY ItemFacts DEF IsUpdatePos
<1>2. \A c : p \notin Producer(c)
  BY <1>1 DEF Producer
<1>3. DOMAIN Events[a] = 1..Len(Events[a]) /\ Len(Events[a]) \in Nat /\ Events[a] # <<>>
  BY <1>1, EventFacts
<1>4. Len(Events[a]) # 0
  <2>1. Events[a] \in Seq([sig : Entity \ Mem, kind : Edge])
    BY <1>1, StructureAssumption
  <2> QED BY <1>3, <2>1
<1>5. ASSUME NEW i \in DOMAIN Events[a]
      PROVE  /\ EventCellOf(a, i) \in Cell \ Mem /\ EventCellOf(a, i) \in EventCell
             /\ EventCellOf(a, i) \in Reads(a) /\ Events[a][i].kind \in Edge
  <2>1. Events[a][i].sig \in Entity \ Mem /\ Events[a][i].kind \in Edge
    BY <1>1, EventFacts
  <2>2. Events[a][i].sig \in EventSigs(a)
    BY DEF EventSigs
  <2> QED BY <1>1, <2>1, <2>2, CellFacts DEF EventCellOf, EventCell, Reads
<1> QED BY <1>1, <1>2, <1>3, <1>4, <1>5

\* Events are taken on cells that hold one value.
LEMMA EventCellFacts == EventCell \subseteq Cell \ Mem
<1> SUFFICES ASSUME NEW a \in Action, NEW e \in EventSigs(a) PROVE Canon[e] \in Cell \ Mem
  BY DEF EventCell
<1>1. e \in Entity \ Mem
  BY EventFacts DEF EventSigs
<1> QED BY <1>1, CellFacts

\* An action is scheduled in one place.
LEMMA ScheduledAt ==
  ASSUME NEW p \in Pos, NEW q \in Pos, NEW a, a \in Item(p), a \in Item(q)
  PROVE  p = q
<1>1. PICK j \in 1..Len(Exec[p]) : Exec[p][j] = a
  BY DEF Item
<1>2. PICK k \in 1..Len(Exec[q]) : Exec[q][k] = a
  BY DEF Item
<1> QED BY <1>1, <1>2, ExecAssumption

\* A watch of cell c that belongs to the Update at p is its one watch there.
LEMMA WatchOf ==
  ASSUME NEW p, IsUpdatePos(p), NEW c \in Cell, NEW k \in Edge, NEW s \in Watch[c][k],
         Single(s[1]) = Single(p)
  PROVE  /\ s = <<p, s[2]>> /\ s[2] \in DOMAIN Events[Single(p)]
         /\ EventCellOf(Single(p), s[2]) = c /\ Events[Single(p)][s[2]].kind = k
         /\ \A j \in WatchSlot(Single(p), c) : j = s[2]
<1> DEFINE a == Single(p)
<1>1. s \in Slots /\ s[2] \in WatchSlot(a, c) /\ Events[a][s[2]].kind = k
  BY DEF Watch
<1>2. s[1] \in Pos \ Group /\ s[2] \in DOMAIN Events[a]
  BY <1>1, SlotFacts
<1>3. s = <<s[1], s[2]>>
  BY <1>1 DEF Slots
<1>4. s[1] = p
  <2>1. a \in Item(p) /\ a \in Item(s[1]) /\ p \in Pos
    BY <1>2, ItemFacts DEF IsUpdatePos
  <2> QED BY <1>2, <2>1, ScheduledAt
<1>5. EventCellOf(a, s[2]) = c
  BY <1>1 DEF WatchSlot, EventCellOf
<1>6. ASSUME NEW j \in WatchSlot(a, c) PROVE j = s[2]
  <2>1. j \in DOMAIN Events[a] /\ j <= s[2] /\ s[2] <= j
    BY <1>1 DEF WatchSlot
  <2> QED BY <1>2, <2>1, UpdateFacts
<1> QED BY <1>1, <1>2, <1>3, <1>4, <1>5, <1>6

\* A slot that is the Update's watch on its cell is in the cell's watch list; a
\* cell without a watch wakes the Update whatever the edge.
LEMMA SlotWaken ==
  ASSUME NEW p, IsUpdatePos(p), NEW i \in DOMAIN Events[Single(p)]
  PROVE  /\ i \in WatchSlot(Single(p), EventCellOf(Single(p), i)) =>
              <<p, i>> \in Watch[EventCellOf(Single(p), i)][Events[Single(p)][i].kind]
         /\ WatchSlot(Single(p), EventCellOf(Single(p), i)) = {} => p \in Deps[EventCellOf(Single(p), i)]
<1> DEFINE a == Single(p)
           c == EventCellOf(a, i)
<1>1. c \in Cell /\ c \in Reads(a) /\ Events[a][i].kind \in Edge /\ p \notin Producer(c)
      /\ a \in Item(p) /\ p \in Pos \ Group
  BY UpdateFacts DEF IsUpdatePos
<1>2. <<p, i>> \in Slots
  BY <1>1 DEF Slots
<1>3. ASSUME i \in WatchSlot(a, c) PROVE <<p, i>> \in Watch[c][Events[a][i].kind]
  BY <1>1, <1>2, <1>3 DEF Watch
<1>4. ASSUME WatchSlot(a, c) = {} PROVE p \in Deps[c]
  BY <1>1, <1>4 DEF Deps
<1> QED BY <1>3, <1>4

\* A write leaves alone every slot on another cell, every slot if it changes nothing,
\* and with them the edge bit of an Update that has its only event elsewhere.
LEMMA SlotElsewhere ==
  ASSUME WiresOK, NEW c \in Cell, NEW v, NEW cleared, Write(c, v, cleared),
         NEW p, IsUpdatePos(p), NEW i \in DOMAIN Events[Single(p)],
         c \in Mem \/ val'[c] = val[c] \/ EventCellOf(Single(p), i) # c
  PROVE  /\ val'[EventCellOf(Single(p), i)] = val[EventCellOf(Single(p), i)]
         /\ prev'[Single(p)][i] = prev[Single(p)][i]
         /\ EdgeBitMode(Single(p)) => (p \in ebit' <=> p \in ebit)
<1> DEFINE a == Single(p)
           d == EventCellOf(a, i)
<1>1. a \in Action /\ d \in Cell \ Mem /\ DOMAIN Events[a] = 1..Len(Events[a])
  BY UpdateFacts
<1>2. val'[d] = val[d]
  BY <1>1, WriteVal
<1>3. prev' = Advance(c, val') /\ ebit' = ebit \cup Flagged(c, val')
  BY DEF Write
<1>4. \A s \in Skipped(c, val') :
        /\ c \notin Mem /\ val'[c] # val[c]
        /\ \E k \in Edge : s \in Watch[c][k]
  BY DEF Skipped, Edge
<1>5. ~\E s \in Skipped(c, val') : Single(s[1]) = a /\ s[2] = i
  BY <1>4, WatchOf
<1>6. prev'[a][i] = prev[a][i]
  BY <1>1, <1>3, <1>5 DEF Advance
<1>7. ASSUME EdgeBitMode(a) PROVE p \notin Flagged(c, val')
  <2> SUFFICES ASSUME p \in Flagged(c, val') PROVE FALSE
    OBVIOUS
  <2>1. c \notin Mem /\ val'[c] # val[c]
    BY DEF Flagged
  <2>2. PICK s \in Passing(c, Direction(c, val'), val') : s[1] = p
    BY DEF Flagged
  <2>3. s \in Watch[c][Direction(c, val')] /\ Direction(c, val') \in Edge
    BY DEF Passing, Direction, Edge
  <2>4. s[2] \in DOMAIN Events[a] /\ EventCellOf(a, s[2]) = c
    BY <2>2, <2>3, WatchOf
  <2>5. s[2] = i
    BY <1>1, <1>7, <2>4 DEF EdgeBitMode
  <2> QED BY <2>1, <2>4, <2>5
<1> QED BY <1>2, <1>3, <1>6, <1>7

\* A write that changes a signal wakes the Update behind an unwatched slot; of a
\* watched one it either reports the edge, or advances the history.
LEMMA SlotWritten ==
  ASSUME WiresOK, NEW c \in Cell \ Mem, NEW v, NEW cleared, Write(c, v, cleared), val'[c] # val[c],
         NEW p, IsUpdatePos(p), p \notin cleared, NEW i \in DOMAIN Events[Single(p)],
         EventCellOf(Single(p), i) = c, WatchSlot(Single(p), c) \in {{}, {i}},
         tm' = tm, EdgeBitMode(Single(p)) => WatchSlot(Single(p), c) # {}
  PROVE  IF WatchSlot(Single(p), c) = {}
         THEN p \in act' /\ prev'[Single(p)][i] = prev[Single(p)][i]
         ELSE IF Events[Single(p)][i].kind = Direction(c, val') /\ GuardPass(Single(p), val')
         THEN /\ p \in act' /\ prev'[Single(p)][i] = prev[Single(p)][i]
              /\ UsesBit(Single(p)) => p \in ebit'
         ELSE /\ UsesBit(Single(p)) => (p \in ebit' <=> p \in ebit)
              /\ ~UsesBit(Single(p)) => prev'[Single(p)][i] = val'[c]
<1> DEFINE a == Single(p)
           dir == Direction(c, val')
           s == <<p, i>>
<1>1. /\ a \in Action /\ DOMAIN Events[a] = 1..Len(Events[a]) /\ dir \in Edge
      /\ Events[a][i].kind \in Edge
  BY UpdateFacts DEF Direction, Edge
<1>2. /\ prev' = Advance(c, val') /\ ebit' = ebit \cup Flagged(c, val')
      /\ act' = (act \ cleared) \cup Woken(c, val')
      /\ Woken(c, val') = Deps[c] \cup {u[1] : u \in Passing(c, dir, val')}
  BY DEF Write, Woken
<1>3. \A k \in Edge : \A u \in Watch[c][k] : Single(u[1]) = a => u = <<p, u[2]>> /\ u[2] \in WatchSlot(a, c)
      /\ Events[a][u[2]].kind = k
  BY WatchOf DEF Watch
<1>4. \A u \in Skipped(c, val') : \E k \in Edge : u \in Watch[c][k]
  BY DEF Skipped, Edge
<1>5. \A u \in Passing(c, dir, val') : u \in Watch[c][dir] /\ GuardPass(Single(u[1]), val')
  BY DEF Passing
<1>6. \A u \in Skipped(c, val') : u \notin Passing(c, dir, val') /\ (tm \/ ~EdgeBitMode(Single(u[1])))
  BY DEF Skipped
<1>7. CASE WatchSlot(a, c) = {}
  <2>1. p \in Deps[c]
    BY <1>7, SlotWaken
  <2>2. ~\E u \in Skipped(c, val') : Single(u[1]) = a /\ u[2] = i
    BY <1>3, <1>4, <1>7
  <2>3. prev'[a][i] = prev[a][i]
    BY <1>1, <1>2, <2>2 DEF Advance
  <2> QED BY <1>2, <1>7, <2>1, <2>3
<1>8. CASE WatchSlot(a, c) # {}
  <2>1. WatchSlot(a, c) = {i} /\ s \in Watch[c][Events[a][i].kind]
    BY <1>8, SlotWaken
  <2>2. s[1] = p /\ s[2] = i
    OBVIOUS
  <2>3. CASE Events[a][i].kind = dir /\ GuardPass(a, val')
    <3>1. s \in Passing(c, dir, val')
      BY <2>1, <2>2, <2>3 DEF Passing
    <3>2. p \in act'
      BY <1>2, <2>2, <3>1
    <3>3. ~\E u \in Skipped(c, val') : Single(u[1]) = a /\ u[2] = i
      BY <1>3, <1>4, <1>6, <3>1
    <3>4. prev'[a][i] = prev[a][i]
      BY <1>1, <1>2, <3>3 DEF Advance
    <3>5. UsesBit(a) => p \in ebit'
      BY <1>2, <2>2, <3>1 DEF UsesBit, Flagged
    <3> QED BY <1>8, <2>3, <3>2, <3>4, <3>5
  <2>4. CASE ~(Events[a][i].kind = dir /\ GuardPass(a, val'))
    <3>1. s \notin Passing(c, dir, val')
      <4> SUFFICES ASSUME s \in Passing(c, dir, val') PROVE FALSE
        OBVIOUS
      <4>1. s \in Watch[c][dir] /\ GuardPass(a, val')
        BY <1>5, <2>2
      <4>2. Events[a][i].kind = dir
        BY <1>1, <1>3, <2>2, <4>1
      <4> QED BY <2>4, <4>1, <4>2
    <3>2. p \notin Flagged(c, val')
      <4> SUFFICES ASSUME p \in Flagged(c, val') PROVE FALSE
        OBVIOUS
      <4>1. PICK u \in Passing(c, dir, val') : u[1] = p
        BY DEF Flagged
      <4>2. u = s
        BY <1>1, <1>3, <1>5, <2>1, <4>1
      <4> QED BY <3>1, <4>2
    <3>3. ASSUME ~UsesBit(a) PROVE prev'[a][i] = val'[c]
      <4>1. s \in Skipped(c, val')
        BY <1>1, <2>1, <2>2, <3>1, <3>3 DEF Skipped, UsesBit, Edge
      <4> QED BY <1>1, <1>2, <2>2, <4>1 DEF Advance
    <3> QED BY <1>2, <1>8, <2>4, <3>2, <3>3
  <2> QED BY <2>3, <2>4
<1> QED BY <1>7, <1>8

-----------------------------------------------------------------------------
(***************************************************************************)
(* The invariant.  Between two settled states an Update first waits: each  *)
(* of its slots tells whether its event has occurred.  Then phase 1 passes *)
(* its position, and its intent is up exactly if it fires.                 *)
(***************************************************************************)
Scanning == pc \in {"scan", "group"}
Ran(p) == Scanning /\ Behind(p)
Same(c) == val[c] = sampled[c]

Rose(a, i) ==
  Rises(Events[a][i].kind, sampled[EventCellOf(a, i)], val[EventCellOf(a, i)])
Fires(a) == (\E i \in DOMAIN Events[a] : Rose(a, i)) /\ GuardPass(a, val)

\* Dispatched now, the Update would detect nothing.
Quiet(a, p) ==
  IF UsesBit(a) THEN p \notin ebit
  ELSE \A i \in DOMAIN Events[a] : prev[a][i] = val[EventCellOf(a, i)]

\* The edge bit is set for the event; or the history holds the last settled value, or
\* was advanced because what happened does not make the Update fire.
SlotOK(a, p, i) ==
  IF UsesBit(a)
  THEN (p \in ebit => Rose(a, i)) /\ (Rose(a, i) /\ GuardPass(a, val) => p \in ebit)
  ELSE \/ prev[a][i] = sampled[EventCellOf(a, i)]
       \/ /\ WatchSlot(a, EventCellOf(a, i)) # {}
          /\ prev[a][i] = val[EventCellOf(a, i)] /\ ~(Rose(a, i) /\ GuardPass(a, val))

Waits(p) ==
  /\ Scanning => Single(p) \notin intents
  /\ \A i \in DOMAIN Events[Single(p)] : SlotOK(Single(p), p, i)
  /\ ~trace /\ p \notin act => Quiet(Single(p), p)
Done(p) == Quiet(Single(p), p) /\ (Single(p) \in intents <=> Fires(Single(p)))
UpdateOK(p) ==
  /\ tm /\ EdgeBitMode(Single(p)) => p \notin ebit
  /\ IF Ran(p) THEN Done(p) ELSE Waits(p)
UpdatesOK == \A p : IsUpdatePos(p) => UpdateOK(p)

\* Who may differ from the last settled state: wires whose producer phase 1 has
\* passed, state committed since, inputs poked since.
WiresFrom ==
  \A c \in Cell \ (Input \cup Reg \cup Mem) : ~Same(c) =>
    Scanning /\ \E p \in Producer(c) : Behind(p) \/ (pc = "group" /\ p = grp.pos)
StateFrom ==
  \A c \in Reg \cup Mem : ~Same(c) =>
    (pc = "commit" /\ c \notin cbits /\ ncommit > 0) \/ (Scanning /\ round > 0)
InputsFrom ==
  \A c \in Input : ~Same(c) => c \in touched /\ (pc = "idle" \/ (Scanning /\ round = 0))
Pulses == touched \cap Clock # {} => \E i \in Clock : touched = {i}
Differs == WiresFrom /\ StateFrom /\ InputsFrom /\ Pulses

\* From the first eval() on, except between a poke and the eval() that settles it, the
\* last settled state is settled; and a difference of sources spreads only where the
\* netlist leads it.
SampleGood ==
  touched = {} \/ touched \cap Clock # {} \/ pc = "commit" \/ (Scanning /\ round > 0)
SampledSettled == SampleGood => \A p \in Pos : SettledItem(p, sampled)
Cones ==
  \A D \in SUBSET Cell :
    Closed(D) /\ SampleGood /\ (\A c \in (Input \cup Reg \cup Mem) \ D : Same(c))
      => \A c \in Cell \ D : Same(c)

GroupAhead == pc = "group" /\ ~trace => \A q \in act : grp.pos < q
Bools == \A c \in EventCell : val[c] \in Bool /\ sampled[c] \in Bool

\* What the Updates rely on, and all of it.
Ground ==
  /\ NInv /\ errs = {} /\ tm = trace
  /\ Differs /\ SampledSettled /\ Cones /\ GroupAhead /\ Bools
AInv == Ground /\ UpdatesOK

-----------------------------------------------------------------------------
(***************************************************************************)
(* One Update across one step.                                             *)
(***************************************************************************)

\* What the structure gives each slot of a Disciplined netlist.
LEMMA SlotExact ==
  ASSUME ExactEvents, NEW p, IsUpdatePos(p), NEW i \in DOMAIN Events[Single(p)]
  PROVE  /\ WatchSlot(Single(p), EventCellOf(Single(p), i)) \in {{}, {i}}
         /\ EdgeBitMode(Single(p)) => WatchSlot(Single(p), EventCellOf(Single(p), i)) # {}
         /\ WatchSlot(Single(p), EventCellOf(Single(p), i)) # {} =>
              /\ EventCellOf(Single(p), i) \in Input => EventCellOf(Single(p), i) \in Clock
              /\ \A g \in Guard[Single(p)] : GuardFirst(EventCellOf(Single(p), i), Canon[g])
<1>1. Single(p) \in Action
  BY UpdateFacts
<1> QED BY <1>1 DEF ExactEvents, EventCellOf

\* An Update that waits and would detect nothing does not fire.
LEMMA QuietMeansIdle ==
  ASSUME NEW p, IsUpdatePos(p), Quiet(Single(p), p),
         \A i \in DOMAIN Events[Single(p)] : SlotOK(Single(p), p, i)
  PROVE  ~Fires(Single(p))
<1> DEFINE a == Single(p)
<1>1. ASSUME NEW i \in DOMAIN Events[a], Rose(a, i), GuardPass(a, val) PROVE FALSE
  <2>1. CASE UsesBit(a)
    BY <1>1, <2>1 DEF Quiet, SlotOK
  <2>2. CASE ~UsesBit(a)
    <3>1. prev[a][i] = val[EventCellOf(a, i)]
      BY <2>2 DEF Quiet
    <3>2. val[EventCellOf(a, i)] = sampled[EventCellOf(a, i)]
      BY <1>1, <2>2, <3>1 DEF SlotOK
    <3> QED BY <1>1, <3>2 DEF Rose, Rises
  <2> QED BY <2>1, <2>2
<1> QED BY <1>1 DEF Fires

\* Phase 1 has passed an Update it never had to dispatch.
PassedQuietly(p) == Waits(p) /\ Scanning /\ ~trace /\ p \notin act
LEMMA WaitsDone == \A p : IsUpdatePos(p) /\ PassedQuietly(p) => Done(p)
BY QuietMeansIdle DEF PassedQuietly, Waits, Done
LEMMA WaitsDoneNext == (\A p : IsUpdatePos(p) /\ PassedQuietly(p) => Done(p))'
BY WaitsDone, PTL

\* A step that writes nothing and leaves the Update's own data alone.
LEMMA Undisturbed ==
  ASSUME NEW p, IsUpdatePos(p), UpdateOK(p), UNCHANGED <<val, sampled, tm, trace>>,
         prev'[Single(p)] = prev[Single(p)], p \in ebit' <=> p \in ebit,
         Single(p) \in intents' <=> Single(p) \in intents,
         Ran(p) => Ran(p)', trace /\ Ran(p)' => Ran(p), p \in act => p \in act' \/ Ran(p),
         ~Ran(p) /\ Scanning' => Scanning \/ Single(p) \notin intents
  PROVE  UpdateOK(p)'
<1> DEFINE a == Single(p)
<1>1. /\ UsesBit(a)' <=> UsesBit(a)
      /\ GuardPass(a, val)' <=> GuardPass(a, val)
      /\ \A i \in DOMAIN Events[a] : (Rose(a, i)' <=> Rose(a, i))
  BY DEF UsesBit, GuardPass, Rose
<1>2. (Quiet(a, p)' <=> Quiet(a, p)) /\ (Fires(a)' <=> Fires(a))
      /\ \A i \in DOMAIN Events[a] : (SlotOK(a, p, i)' <=> SlotOK(a, p, i))
  BY <1>1 DEF Quiet, Fires, SlotOK
<1>3. CASE Ran(p)
  BY <1>2, <1>3 DEF UpdateOK, Done
<1>4. CASE ~Ran(p)
  <2>1. Waits(p)'
    BY <1>2, <1>4 DEF UpdateOK, Waits
  <2>2. ASSUME Ran(p)' PROVE Done(p)'
    <3>1. ~trace' /\ Scanning' /\ p \notin act'
      BY <1>4, <2>2, UpdateFacts DEF Ran, Behind, Pos
    <3> QED BY <2>1, <3>1, WaitsDoneNext DEF PassedQuietly
  <2> QED BY <2>1, <2>2, <1>4 DEF UpdateOK
<1> QED BY <1>3, <1>4

\* A write keeps the slots of a waiting Update telling the truth, if it is the first to
\* a watched cell since the last settled state, and leaves alone the guards of an Update
\* one of whose watched events has occurred.
LEMMA WriteWaits ==
  ASSUME WiresOK, ExactEvents, NEW c \in Cell, NEW v, NEW cleared, Write(c, v, cleared),
         UNCHANGED <<sampled, tm, trace>>, NEW p, IsUpdatePos(p), p \notin cleared,
         c \in EventCell => val[c] \in Bool /\ val'[c] \in Bool,
         tm /\ EdgeBitMode(Single(p)) => p \notin ebit,
         \A i \in DOMAIN Events[Single(p)] : SlotOK(Single(p), p, i),
         ~trace /\ p \notin act => Quiet(Single(p), p),
         \A i \in DOMAIN Events[Single(p)] :
           LET d == EventCellOf(Single(p), i) IN
           WatchSlot(Single(p), d) # {} =>
             /\ d = c => Same(c)
             /\ ~Same(d) => (GuardPass(Single(p), val') <=> GuardPass(Single(p), val))
  PROVE  /\ \A i \in DOMAIN Events[Single(p)] : SlotOK(Single(p), p, i)'
         /\ ~trace' /\ p \notin act' => Quiet(Single(p), p)'
         /\ tm' /\ EdgeBitMode(Single(p)) => p \notin ebit'
<1> DEFINE a == Single(p)
           Hits(i) == EventCellOf(a, i) = c /\ c \notin Mem /\ val'[c] # val[c]
<1>1. /\ UsesBit(a)' <=> UsesBit(a)
      /\ \A i \in DOMAIN Events[a] :
           EventCellOf(a, i) \in Cell \ Mem /\ EventCellOf(a, i) \in EventCell /\ Events[a][i].kind \in Edge
      /\ DOMAIN Events[a] = 1..Len(Events[a]) /\ Len(Events[a]) \in Nat \ {0}
  BY UpdateFacts DEF UsesBit
<1>2. ASSUME NEW i \in DOMAIN Events[a], ~Hits(i)
      PROVE  /\ val'[EventCellOf(a, i)] = val[EventCellOf(a, i)]
             /\ prev'[a][i] = prev[a][i]
             /\ EdgeBitMode(a) => (p \in ebit' <=> p \in ebit)
  BY <1>2, SlotElsewhere
<1>3. ASSUME NEW i \in DOMAIN Events[a], Hits(i)
      PROVE  IF WatchSlot(a, c) = {}
             THEN p \in act' /\ prev'[a][i] = prev[a][i]
             ELSE IF Events[a][i].kind = Direction(c, val') /\ GuardPass(a, val')
             THEN p \in act' /\ prev'[a][i] = prev[a][i] /\ (UsesBit(a) => p \in ebit')
             ELSE /\ UsesBit(a) => (p \in ebit' <=> p \in ebit)
                  /\ ~UsesBit(a) => prev'[a][i] = val'[c]
  BY <1>3, SlotWritten, SlotExact
<1>4. ASSUME NEW i \in DOMAIN Events[a], Hits(i), WatchSlot(a, c) # {}
      PROVE  /\ val[c] = sampled[c] /\ ~Rose(a, i)
             /\ Rose(a, i)' <=> Events[a][i].kind = Direction(c, val')
  <2>1. val[c] = sampled[c] /\ sampled' = sampled /\ val[c] \in Bool /\ val'[c] \in Bool
        /\ val'[c] # val[c]
    BY <1>1, <1>4 DEF Same
  <2> QED BY <1>1, <1>4, <2>1 DEF Rose, Rises, Direction, Edge, Bool
<1>5. ASSUME NEW i \in DOMAIN Events[a], ~Hits(i)
      PROVE  /\ Rose(a, i)' <=> Rose(a, i)
             /\ Rose(a, i) /\ WatchSlot(a, EventCellOf(a, i)) # {} =>
                  (GuardPass(a, val)' <=> GuardPass(a, val))
  <2>1. Rose(a, i)' <=> Rose(a, i)
    BY <1>2, <1>5 DEF Rose
  <2>2. Rose(a, i) => ~Same(EventCellOf(a, i))
    BY DEF Rose, Rises, Same
  <2>3. GuardPass(a, val)' <=> GuardPass(a, val')
    BY DEF GuardPass
  <2> QED BY <2>1, <2>2, <2>3
<1>6. ASSUME NEW i \in DOMAIN Events[a] PROVE SlotOK(a, p, i)'
  <2>1. CASE ~Hits(i)
    <3>1. CASE UsesBit(a)
      <4>1. EdgeBitMode(a) /\ WatchSlot(a, EventCellOf(a, i)) # {}
        BY <3>1, SlotExact DEF UsesBit
      <4> QED BY <1>1, <1>2, <1>5, <2>1, <3>1, <4>1 DEF SlotOK
    <3>2. CASE ~UsesBit(a)
      BY <1>1, <1>2, <1>5, <2>1, <3>2 DEF SlotOK
    <3> QED BY <3>1, <3>2
  <2>2. CASE Hits(i) /\ WatchSlot(a, c) = {}
    <3>1. ~UsesBit(a)
      BY <2>2, SlotExact DEF UsesBit
    <3>2. prev[a][i] = sampled[EventCellOf(a, i)]
      BY <2>2, <3>1 DEF SlotOK
    <3> QED BY <1>1, <1>3, <2>2, <3>1, <3>2 DEF SlotOK
  <2>3. CASE Hits(i) /\ WatchSlot(a, c) # {}
    <3>0. GuardPass(a, val)' <=> GuardPass(a, val')
      BY DEF GuardPass
    <3>1. CASE UsesBit(a)
      <4>1. p \notin ebit
        BY <1>4, <2>3, <3>1 DEF SlotOK
      <4> QED BY <1>1, <1>3, <1>4, <2>3, <3>0, <3>1, <4>1 DEF SlotOK
    <3>2. CASE ~UsesBit(a)
      <4>1. prev[a][i] = sampled[EventCellOf(a, i)]
        BY <1>4, <2>3, <3>2 DEF SlotOK
      <4> QED BY <1>1, <1>3, <1>4, <2>3, <3>0, <3>2, <4>1 DEF SlotOK
    <3> QED BY <3>1, <3>2
  <2> QED BY <2>1, <2>2, <2>3
<1>7. ASSUME ~trace', p \notin act' PROVE Quiet(a, p)'
  <2>1. act \ cleared \subseteq act'
    BY DEF Write
  <2>2. Quiet(a, p)
    BY <1>7, <2>1
  <2>3. ASSUME NEW i \in DOMAIN Events[a]
        PROVE  /\ UsesBit(a) => p \notin ebit'
               /\ ~UsesBit(a) => prev'[a][i] = val'[EventCellOf(a, i)]
    BY <1>2, <1>3, <1>7, <2>2, <2>3 DEF Quiet, UsesBit
  <2>4. 1 \in DOMAIN Events[a]
    BY <1>1
  <2> QED BY <1>1, <2>3, <2>4 DEF Quiet
<1>8. ASSUME tm', EdgeBitMode(a) PROVE p \notin ebit'
  BY <1>8 DEF Write, Flagged
<1> QED BY <1>6, <1>7, <1>8

\* A write of a cell the Update does not read leaves an Update that is done as it is.
LEMMA WriteDone ==
  ASSUME WiresOK, NEW c \in Cell, NEW v, NEW cleared, Write(c, v, cleared),
         UNCHANGED <<sampled, tm, trace, intents>>, NEW p, IsUpdatePos(p),
         c \notin Reads(Single(p)), tm /\ EdgeBitMode(Single(p)) => p \notin ebit, Done(p)
  PROVE  Done(p)' /\ (tm' /\ EdgeBitMode(Single(p)) => p \notin ebit')
<1> DEFINE a == Single(p)
<1>1. /\ UsesBit(a)' <=> UsesBit(a)
      /\ \A i \in DOMAIN Events[a] : EventCellOf(a, i) \in Reads(a)
      /\ DOMAIN Events[a] = 1..Len(Events[a]) /\ Len(Events[a]) \in Nat \ {0}
      /\ a \in Action /\ Reads(a) \subseteq Cell
  BY UpdateFacts, ReadsInCell DEF UsesBit
<1>2. ASSUME NEW i \in DOMAIN Events[a]
      PROVE  /\ val'[EventCellOf(a, i)] = val[EventCellOf(a, i)]
             /\ prev'[a][i] = prev[a][i]
             /\ EdgeBitMode(a) => (p \in ebit' <=> p \in ebit)
  BY <1>1, SlotElsewhere
<1>3. GuardPass(a, val') <=> GuardPass(a, val)
  BY <1>1, WriteVal, ComputeSame
<1>4. \A i \in DOMAIN Events[a] : Rose(a, i)' <=> Rose(a, i)
  BY <1>2 DEF Rose
<1>5. Fires(a)' <=> Fires(a)
  BY <1>3, <1>4 DEF Fires, GuardPass
<1>6. 1 \in DOMAIN Events[a]
  BY <1>1
<1>7. Quiet(a, p)'
  BY <1>1, <1>2, <1>6 DEF Done, Quiet, UsesBit
<1> QED BY <1>2, <1>5, <1>6, <1>7 DEF Done

-----------------------------------------------------------------------------
(***************************************************************************)
(* A step of an Assign, alone or in a group.                               *)
(***************************************************************************)
Drives(a, p) ==
  /\ p \in Pos /\ a \in Item(p) /\ a \in Action /\ ~IsUpdate(a)
  /\ Write(Target[a], Compute(a, val), IF pc = "scan" THEN Cleared(p) ELSE {})
  /\ UNCHANGED <<intents, cbits, ncommit, trace, tm, sampled, pc, round, touched, errs>>
  /\ \/ pc = "scan" /\ Picked(p) /\ p \notin Group /\ Passed
     \/ pc = "group" /\ p = grp.pos /\ p \in Group /\ grp'.pos = p /\ at' = at

LEMMA WhoDrives ==
  ASSUME TypeOK, (\E p \in Pos : RunAssign(p)) \/ GroupAction
  PROVE  \E p \in Pos : \E a \in Item(p) : Drives(a, p)
<1>1. CASE \E p \in Pos : RunAssign(p)
  <2>1. PICK p \in Pos : RunAssign(p)
    BY <1>1
  <2>2. Single(p) \in Item(p) /\ Single(p) \in Action
    BY <2>1, ItemFacts DEF RunAssign
  <2>3. Drives(Single(p), p)
    BY <2>1, <2>2 DEF Drives, RunAssign, Picked, commits, modes, ghosts
  <2> QED BY <2>2, <2>3
<1>2. CASE GroupAction
  <2> DEFINE p == grp.pos
             a == Exec[p][grp.k]
  <2>1. /\ pc = "group" /\ pc' = "group" /\ grp' = [grp EXCEPT !.k = @ + 1]
        /\ Write(Target[a], Compute(a, val), {}) /\ grp.k <= Len(Exec[p])
        /\ UNCHANGED <<intents, cbits, ncommit, trace, tm, sampled, pc, round, touched, errs, at>>
    BY <1>2 DEF GroupAction, commits, modes, ghosts
  <2>2. p \in Group /\ p \in Pos /\ grp.k \in Nat \ {0} /\ grp'.pos = p
    BY <2>1, ExecAssumption DEF TypeOK, ControlOK
  <2>3. grp.k \in 1..Len(Exec[p])
    BY <2>1, <2>2, ExecFacts
  <2>4. a \in Action /\ a \in Item(p) /\ ~IsUpdate(a)
    BY <2>2, <2>3, ExecFacts, ItemFacts
  <2>5. Drives(a, p)
    <3> HIDE DEF a
    <3> QED BY <2>1, <2>2, <2>4 DEF Drives
  <2> QED BY <2>2, <2>4, <2>5
<1> QED BY <1>1, <1>2

\* What it drives is a wire that its own position produces, from cells it reads.
LEMMA DrivenWire ==
  ASSUME WiresOK, NEW p, NEW a, Drives(a, p)
  PROVE  /\ Target[a] \in Cell \ (Input \cup Reg \cup Mem) /\ p \in Producer(Target[a])
         /\ val'[Target[a]] = Compute(a, val) /\ \A d \in Cell : d # Target[a] => val'[d] = val[d]
<1>1. Target[a] \in Cell \ (Input \cup Reg \cup Mem) /\ p \in Producer(Target[a])
  BY ActionFacts DEF Drives, IsUpdate, Producer
<1>2. val'[Target[a]] = Compute(a, val) /\ \A d \in Cell : d # Target[a] => val'[d] = val[d]
  <2>1. Write(Target[a], Compute(a, val), IF pc = "scan" THEN Cleared(p) ELSE {})
    BY DEF Drives
  <2> QED BY <1>1, <2>1, WriteVal
<1> QED BY <1>1, <1>2

\* The position stands in front of everything phase 1 has passed, and of every bit it
\* sets; once it is done, it has been passed as well.
LEMMA DriveOrder ==
  ASSUME NInv, NEW p, NEW a, Drives(a, p)
  PROVE  /\ \A q \in Pos : Behind(q) => q < p /\ Behind(q)'
         /\ pc = "scan" => Behind(p)'
         /\ \A q \in act' : q \in act \/ p < q
<1>1. p \in Pos /\ TypeOK /\ IInv /\ act \subseteq Pos /\ at \in Nat
      /\ at = (IF pc = "group" THEN IF trace THEN p ELSE Word(p) ELSE at)
  BY ExecFacts DEF Drives, NInv, IInv, TypeOK, WiresOK, ControlOK
<1>2. /\ \A q \in act' : (q \in act /\ (pc = "scan" /\ ~trace => q # p)) \/ (q \in Pos /\ p < q)
  <2>1. act' = (act \ (IF pc = "scan" THEN Cleared(p) ELSE {})) \cup Woken(Target[a], val')
    BY DEF Drives, Write
  <2>2. \A q \in Woken(Target[a], val') : p < q /\ q \in Pos
    BY <1>1, DrivenWire, WokenFollow DEF TypeOK
  <2> QED BY <2>1, <2>2 DEF Cleared
<1>3. trace => p = at
  BY <1>1 DEF Drives, Picked
<1>4. pc = "scan" /\ ~trace => p \in act /\ \A q \in act : q # p => p < q
  BY <1>1, PickedFirst DEF Drives
<1>5. /\ trace' = trace /\ pc' = pc /\ (pc = "group" => p = grp.pos /\ grp'.pos = p)
      /\ at' \in {at, at + 1} /\ (pc = "scan" /\ trace => at' = at + 1) /\ pc \in {"scan", "group"}
  BY DEF Drives, Passed
<1>6. ASSUME NEW q \in Pos, Behind(q) PROVE q < p /\ Behind(q)'
  <2>1. CASE trace
    BY <1>1, <1>3, <1>5, <1>6, <2>1 DEF Behind, Pos
  <2>2. CASE ~trace
    <3>1. (\A b \in act : q < b) /\ (pc = "group" => q < grp.pos)
      BY <1>6, <2>2 DEF Behind
    <3>2. q < p
      BY <1>4, <1>5, <2>2, <3>1
    <3>3. \A b \in act' : q < b
      <4>1. \A b \in Pos : p < b => q < b
        BY <1>1, <3>2, ExecFacts DEF Pos
      <4> QED BY <1>2, <3>1, <4>1
    <3> QED BY <1>5, <2>2, <3>2, <3>3 DEF Behind
  <2> QED BY <2>1, <2>2
<1>7. ASSUME pc = "scan" PROVE Behind(p)'
  <2>1. CASE trace
    BY <1>1, <1>3, <1>5, <1>7, <2>1 DEF Behind, Pos
  <2>2. CASE ~trace
    BY <1>2, <1>4, <1>5, <1>7, <2>2 DEF Behind
  <2> QED BY <2>1, <2>2
<1> QED BY <1>2, <1>6, <1>7

\* Where the sources agree with the last settled state, driving agrees with it too.
LEMMA DriveInCone ==
  ASSUME Ground, NEW p, NEW a, Drives(a, p), SampleGood, NEW D \in SUBSET Cell, Closed(D),
         \A c \in (Input \cup Reg \cup Mem) \ D : Same(c)
  PROVE  \A c \in Cell \ D : Same(c) /\ val'[c] = sampled[c]
<1>1. \A c \in Cell \ D : Same(c)
  BY DEF Ground, Cones
<1>2. WiresOK
  BY DEF Ground, NInv, IInv, TypeOK
<1>3. ASSUME Target[a] \notin D PROVE val'[Target[a]] = sampled[Target[a]]
  <2>1. a \in Action /\ ~IsUpdate(a) /\ p \in Pos /\ a \in Item(p)
    BY DEF Drives
  <2>2. Reads(a) \cap D = {}
    BY <1>3, <2>1 DEF Closed
  <2>3. \A c \in Reads(a) : val[c] = sampled[c]
    BY <1>1, <2>1, <2>2, ReadsInCell DEF Same
  <2>4. Compute(a, val) = Compute(a, sampled)
    BY <2>1, <2>3, ComputeSame
  <2>5. sampled[Target[a]] = Compute(a, sampled)
    BY <2>1 DEF Ground, SampledSettled, SettledItem
  <2> QED BY <1>2, <2>4, <2>5, DrivenWire
<1>4. ASSUME NEW c \in Cell \ D PROVE val'[c] = sampled[c]
  BY <1>1, <1>2, <1>3, DrivenWire DEF Same
<1> QED BY <1>1, <1>4

\* Once a watched event has occurred, no Assign writes its cell or a guard of its Update.
LEMMA DriveKeepsGuards ==
  ASSUME Ground, ExactEvents, NEW p, NEW a, Drives(a, p), NEW q, IsUpdatePos(q),
         NEW i \in DOMAIN Events[Single(q)],
         WatchSlot(Single(q), EventCellOf(Single(q), i)) # {},
         ~Same(EventCellOf(Single(q), i))
  PROVE  /\ EventCellOf(Single(q), i) # Target[a]
         /\ GuardPass(Single(q), val') <=> GuardPass(Single(q), val)
<1> DEFINE b == Single(q)
           d == EventCellOf(b, i)
           c == Target[a]
<1>1. /\ WiresOK /\ NInv /\ d \in Cell \ Mem /\ b \in Action
      /\ c \in Cell \ (Input \cup Reg \cup Mem) /\ p \in Producer(c)
      /\ \A e \in Cell : e # c => val'[e] = val[e]
      /\ pc \in {"scan", "group"} /\ p \in Pos
  BY UpdateFacts, DrivenWire DEF Ground, NInv, IInv, TypeOK, Drives
<1>2. \A g \in Guard[b] : Canon[g] \in Cell /\ GuardFirst(d, Canon[g])
  BY <1>1, SlotExact, ActionFacts, CellFacts
<1>3. Differs
  BY DEF Ground
<1> SUFFICES ASSUME TRUE
             PROVE  d # c /\ \A g \in Guard[b] : val'[Canon[g]] = val[Canon[g]]
  BY DEF GuardPass
<1>4. ASSUME NEW S \in SUBSET Cell, SampleGood, \A e \in (Input \cup Reg \cup Mem) \ S : Same(e),
             NEW g \in Guard[b], Beyond(S, Canon[g])
      PROVE  val'[Canon[g]] = val[Canon[g]]
  <2>1. PICK D \in SUBSET Cell : S \subseteq D /\ Closed(D) /\ Canon[g] \notin D
    BY <1>4 DEF Beyond
  <2>2. \A e \in (Input \cup Reg \cup Mem) \ D : Same(e)
    BY <1>4, <2>1
  <2>3. \A e \in Cell \ D : Same(e) /\ val'[e] = sampled[e]
    BY <1>4, <2>1, <2>2, DriveInCone
  <2> QED BY <1>2, <2>1, <2>3 DEF Same
<1>5. CASE d \in Input
  <2>1. d \in Clock /\ d \in touched /\ round = 0
    BY <1>1, <1>3, <1>5, SlotExact DEF Differs, InputsFrom
  <2>2. touched = {d}
    BY <2>1, <1>3 DEF Differs, Pulses
  <2>3. SampleGood
    BY <2>1 DEF SampleGood
  <2>4. \A e \in (Input \cup Reg \cup Mem) \ {d} : Same(e)
    BY <1>1, <1>3, <2>1, <2>2 DEF Differs, InputsFrom, StateFrom
  <2>5. \A g \in Guard[b] : Canon[g] = d \/ Beyond({d}, Canon[g])
    BY <1>2, <1>5 DEF GuardFirst
  <2>6. {d} \in SUBSET Cell
    BY <1>1
  <2> QED BY <1>1, <1>4, <1>5, <2>3, <2>4, <2>5, <2>6
<1>6. CASE d \in Reg
  <2>1. round > 0 /\ Scanning
    BY <1>1, <1>3, <1>6 DEF Differs, StateFrom, Scanning
  <2>2. SampleGood
    BY <2>1 DEF SampleGood
  <2>3. round \in Nat
    BY ValueAssumption DEF Ground, NInv, IInv, TypeOK, ControlOK
  <2>4. \A e \in (Input \cup Reg \cup Mem) \ (Reg \cup Mem) : Same(e)
    BY <1>1, <1>3, <2>1, <2>3 DEF Differs, InputsFrom
  <2>5. \A g \in Guard[b] : Canon[g] = d \/ Beyond(Reg \cup Mem, Canon[g])
    BY <1>2, <1>6, StructureAssumption DEF GuardFirst
  <2>6. Reg \cup Mem \in SUBSET Cell
    BY CellFacts
  <2> QED BY <1>1, <1>4, <1>6, <2>2, <2>4, <2>5, <2>6
<1>7. CASE d \notin Input \cup Reg
  <2>1. PICK r \in Producer(d) : Behind(r) \/ (pc = "group" /\ r = grp.pos)
    BY <1>1, <1>3, <1>7 DEF Differs, WiresFrom
  <2>2. r \in Pos /\ r \notin Group
    BY <2>1 DEF WatchSlot, SccDriven, Producer
  <2>3. r < p
    BY <1>1, <2>1, <2>2, DriveOrder DEF Drives
  <2>4. d # c
    BY <1>1, <2>1, <2>2, <2>3, OneProducer, ExecFacts DEF Pos
  <2>5. \A g \in Guard[b] : Canon[g] # c
    <3> SUFFICES ASSUME NEW g \in Guard[b], Canon[g] = c PROVE FALSE
      OBVIOUS
    <3>1. p < r
      BY <1>1, <1>2, <1>7, <2>1, <2>4 DEF GuardFirst
    <3> QED BY <1>1, <2>2, <2>3, <3>1, ExecFacts DEF Pos
  <2> QED BY <1>1, <1>2, <2>4, <2>5
<1> QED BY <1>5, <1>6, <1>7

\* Updates phase 1 has passed are not disturbed; the others go on waiting.
LEMMA DriveUpdates ==
  ASSUME AInv, ExactEvents, NEW p, NEW a, Drives(a, p)
  PROVE  UpdatesOK'
<1> SUFFICES ASSUME NEW q, IsUpdatePos(q) PROVE UpdateOK(q)'
  BY DEF UpdatesOK, IsUpdatePos
<1> DEFINE b == Single(q)
           c == Target[a]
           cleared == IF pc = "scan" THEN Cleared(p) ELSE {}
<1>1. /\ Ground /\ UpdateOK(q) /\ WiresOK /\ NInv /\ c \in Cell /\ p \in Producer(c)
      /\ p \in Pos /\ q \in Pos /\ q \notin Group /\ b \in Action /\ b \in Item(q) /\ q # p
  <2>1. q # p
    BY UpdateFacts, DrivenWire DEF AInv, Ground, NInv, IInv, TypeOK
  <2> QED BY <2>1, UpdateFacts, DrivenWire DEF AInv, UpdatesOK, Ground, NInv, IInv, TypeOK, Drives, IsUpdatePos
<1>2. Write(c, Compute(a, val), cleared) /\ q \notin cleared
      /\ UNCHANGED <<sampled, tm, trace, intents, pc>> /\ Scanning
  BY <1>1 DEF Drives, Cleared, Scanning
<1>3. tm /\ EdgeBitMode(b) => q \notin ebit
  BY <1>1 DEF UpdateOK
<1>4. CASE Ran(q)
  <2>1. q < p /\ Behind(q)'
    BY <1>1, <1>4, DriveOrder DEF Ran
  <2>2. c \notin Reads(b)
    <3>1. c \in Reads(b) => p < q \/ p = q
      BY <1>1, ReaderFollows
    <3> QED BY <1>1, <2>1, <3>1, ExecFacts DEF Pos
  <2>3. Done(q)' /\ (tm' /\ EdgeBitMode(b) => q \notin ebit')
    <3> HIDE DEF c, cleared
    <3> QED BY <1>1, <1>2, <1>3, <1>4, <2>2, WriteDone DEF UpdateOK
  <2>4. Ran(q)'
    BY <1>2, <2>1 DEF Ran, Scanning
  <2> QED BY <2>3, <2>4 DEF UpdateOK
<1>5. CASE ~Ran(q)
  <2>1. Waits(q)
    BY <1>1, <1>5 DEF UpdateOK
  <2>2. c \in EventCell => val[c] \in Bool /\ val'[c] \in Bool
    <3>1. val'[c] = Compute(a, val)
      BY <1>1, DrivenWire
    <3>2. c \in EventCell => Compute(a, val) \in Bool
      BY <1>1, ComputeType DEF WiresOK, Drives
    <3> QED BY <1>1, <3>1, <3>2 DEF Ground, Bools
  <2>3. \A i \in DOMAIN Events[b] :
          LET d == EventCellOf(b, i) IN
          WatchSlot(b, d) # {} =>
            /\ d = c => Same(c)
            /\ ~Same(d) => (GuardPass(b, val') <=> GuardPass(b, val))
    BY <1>1, DriveKeepsGuards
  <2>4. /\ \A i \in DOMAIN Events[b] : SlotOK(b, q, i)'
        /\ ~trace' /\ q \notin act' => Quiet(b, q)'
        /\ tm' /\ EdgeBitMode(b) => q \notin ebit'
    <3> HIDE DEF c, cleared
    <3> QED BY <1>1, <1>2, <1>3, <2>1, <2>2, <2>3, WriteWaits DEF Waits
  <2>5. Waits(q)'
    BY <1>2, <2>1, <2>4 DEF Waits, Scanning
  <2>6. ASSUME Ran(q)' PROVE Done(q)'
    <3>1. ASSUME trace PROVE FALSE
      <4>1. (p = at /\ at' = at + 1) \/ at' = at
        BY <3>1 DEF Drives, Picked, Passed
      <4>2. q < at' /\ ~(q < at)
        BY <1>2, <1>5, <2>6, <3>1 DEF Ran, Behind
      <4>3. at \in Nat
        BY <1>1, ExecFacts DEF NInv, IInv, TypeOK, ControlOK
      <4> QED BY <1>1, <4>1, <4>2, <4>3, ExecFacts DEF Pos
    <3>2. ~trace' /\ Scanning' /\ q \notin act'
      BY <1>1, <1>2, <2>6, <3>1, ExecFacts DEF Ran, Behind, Pos
    <3> QED BY <2>5, <3>2, WaitsDoneNext DEF PassedQuietly
  <2> QED BY <2>4, <2>5, <2>6 DEF UpdateOK
<1> QED BY <1>4, <1>5

\* What has changed since the last settled state is still accounted for.
LEMMA DriveGround ==
  ASSUME Ground, NEW p, NEW a, Drives(a, p)
  PROVE  Differs' /\ SampledSettled' /\ Cones' /\ GroupAhead' /\ Bools'
<1> DEFINE c == Target[a]
<1>1. /\ WiresOK /\ NInv /\ c \in Cell \ (Input \cup Reg \cup Mem) /\ p \in Producer(c)
      /\ val'[c] = Compute(a, val) /\ \A e \in Cell : e # c => val'[e] = val[e]
      /\ UNCHANGED <<cbits, ncommit, trace, sampled, pc, round, touched>> /\ Scanning /\ p \in Pos
  BY DrivenWire DEF Ground, NInv, IInv, TypeOK, Drives, Scanning
<1>2. \A e \in Cell : e # c => (Same(e)' <=> Same(e))
  BY <1>1 DEF Same
<1>3. SampleGood' <=> SampleGood
  BY <1>1 DEF SampleGood, Scanning
<1>4. \A e \in Input \cup Reg \cup Mem : e \in Cell /\ e # c
  BY <1>1, CellFacts
<1>5. (pc = "group" => p = grp.pos /\ grp'.pos = p) /\ (pc = "scan" \/ pc = "group")
  BY DEF Drives
<1>6. WiresFrom'
  <2> SUFFICES ASSUME NEW e \in Cell \ (Input \cup Reg \cup Mem), ~Same(e)'
               PROVE  \E r \in Producer(e) : (Behind(r) \/ (pc = "group" /\ r = grp.pos))'
    BY <1>1 DEF WiresFrom, Scanning
  <2>1. CASE e = c
    BY <1>1, <1>5, <2>1, DriveOrder
  <2>2. CASE e # c
    <3>1. PICK r \in Producer(e) : Behind(r) \/ (pc = "group" /\ r = grp.pos)
      BY <1>2, <2>2 DEF Ground, Differs, WiresFrom
    <3>2. Behind(r) => Behind(r)'
      BY <1>1, DriveOrder DEF Producer
    <3> QED BY <1>1, <1>5, <3>1, <3>2
  <2> QED BY <2>1, <2>2
<1>7. StateFrom' /\ InputsFrom' /\ Pulses'
  BY <1>1, <1>2, <1>4 DEF Ground, Differs, StateFrom, InputsFrom, Pulses, Scanning
<1>8. SampledSettled'
  BY <1>1, <1>3 DEF Ground, SampledSettled, SettledItem
<1>9. Cones'
  <2> SUFFICES ASSUME NEW D \in SUBSET Cell, Closed(D), SampleGood,
                      \A e \in (Input \cup Reg \cup Mem) \ D : Same(e)'
               PROVE  \A e \in Cell \ D : Same(e)'
    BY <1>3 DEF Cones
  <2>1. \A e \in (Input \cup Reg \cup Mem) \ D : Same(e)
    BY <1>2, <1>4
  <2> QED BY <1>1, <2>1, DriveInCone DEF Same
<1>10. GroupAhead'
  <2> SUFFICES ASSUME pc = "group", ~trace, NEW q \in act' PROVE p < q
    BY <1>1, <1>5 DEF GroupAhead
  <2> QED BY <1>1, <1>5, DriveOrder DEF Ground, GroupAhead
<1>11. Bools'
  <2>1. c \in EventCell => Compute(a, val) \in Bool
    BY <1>1, ComputeType DEF WiresOK, Drives
  <2> QED BY <1>1, <2>1, EventCellFacts DEF Ground, Bools
<1> QED BY <1>6, <1>7, <1>8, <1>9, <1>10, <1>11 DEF Differs

-----------------------------------------------------------------------------
(***************************************************************************)
(* The steps that write no signal.                                         *)
(***************************************************************************)

\* Phase 1 moving on.
LEMMA ScanGround ==
  ASSUME Ground, UNCHANGED <<val, sampled, touched, round>>, Scanning, Scanning',
         \A r \in Pos : Behind(r) \/ (pc = "group" /\ r = grp.pos)
                          => (Behind(r) \/ (pc = "group" /\ r = grp.pos))'
  PROVE  Differs' /\ SampledSettled' /\ Cones' /\ Bools'
<1>1. \A c : Same(c)' <=> Same(c)
  BY DEF Same
<1>2. SampleGood' <=> SampleGood
  BY DEF SampleGood, Scanning
<1>3. WiresFrom'
  <2> SUFFICES ASSUME NEW c \in Cell \ (Input \cup Reg \cup Mem), ~Same(c)
               PROVE  \E r \in Producer(c) : (Behind(r) \/ (pc = "group" /\ r = grp.pos))'
    BY <1>1 DEF WiresFrom
  <2>1. PICK r \in Producer(c) : Behind(r) \/ (pc = "group" /\ r = grp.pos)
    BY DEF Ground, Differs, WiresFrom
  <2> QED BY <2>1 DEF Producer
<1>4. StateFrom' /\ InputsFrom' /\ Pulses'
  BY <1>1 DEF Ground, Differs, StateFrom, InputsFrom, Pulses, Scanning
<1>5. SampledSettled' /\ Cones' /\ Bools'
  BY <1>1, <1>2 DEF Ground, SampledSettled, Cones, Bools, SettledItem
<1> QED BY <1>3, <1>4, <1>5 DEF Differs

\* Outside phase 1 no wire differs from the last settled state, so a step that touches
\* sources only has to account for those.
LEMMA SettledGround ==
  ASSUME Ground, ~Scanning, sampled' = sampled,
         \A c \in Cell \ (Input \cup Reg \cup Mem) : val'[c] = val[c],
         \A c \in EventCell : val'[c] \in Bool,
         pc' # "group", SampleGood' => SampleGood, StateFrom', InputsFrom', Pulses'
  PROVE  Differs' /\ SampledSettled' /\ Cones' /\ GroupAhead' /\ Bools'
<1>1. \A c \in Cell \ (Input \cup Reg \cup Mem) : Same(c)'
  BY DEF Ground, Differs, WiresFrom, Same
<1>2. WiresFrom' /\ Cones' /\ GroupAhead'
  BY <1>1 DEF WiresFrom, Cones, GroupAhead
<1>3. SampledSettled' /\ Bools'
  BY DEF Ground, SampledSettled, SettledItem, Bools
<1> QED BY <1>2, <1>3 DEF Differs

\* Dispatching an Update: its intent goes up exactly if it fires.
LEMMA ActiveExact ==
  ASSUME NEW p, IsUpdatePos(p), \A i \in DOMAIN Events[Single(p)] : SlotOK(Single(p), p, i)
  PROVE  Active(Single(p), p) <=> Fires(Single(p))
<1> DEFINE a == Single(p)
<1>1. DOMAIN Events[a] = 1..Len(Events[a]) /\ Len(Events[a]) \in Nat \ {0}
  BY UpdateFacts
<1>2. 1 \in DOMAIN Events[a]
  BY <1>1
<1>3. CASE UsesBit(a)
  <2>1. \A i \in DOMAIN Events[a] : GuardPass(a, val) => (p \in ebit <=> Rose(a, i))
    BY <1>3 DEF SlotOK
  <2>2. Active(a, p) <=> p \in ebit /\ GuardPass(a, val)
    BY <1>2, <1>3 DEF Active, Hit
  <2> QED BY <1>2, <2>1, <2>2 DEF Fires
<1>4. CASE ~UsesBit(a)
  <2>1. ASSUME NEW i \in DOMAIN Events[a], GuardPass(a, val)
        PROVE  Hit(a, i, p) <=> Rose(a, i)
    <3>1. CASE prev[a][i] = sampled[EventCellOf(a, i)]
      BY <1>4, <3>1 DEF Hit, Rose, EventCellOf
    <3>2. CASE prev[a][i] # sampled[EventCellOf(a, i)]
      <4>1. prev[a][i] = val[EventCellOf(a, i)] /\ ~Rose(a, i)
        BY <1>4, <2>1, <3>2 DEF SlotOK
      <4> QED BY <1>4, <4>1 DEF Hit, Rises, EventCellOf
    <3> QED BY <3>1, <3>2
  <2> QED BY <2>1 DEF Active, Fires
<1> QED BY <1>3, <1>4

LEMMA UpdateExact ==
  ASSUME AInv, NEW p \in Pos, RunUpdate(p), errs' = {}
  PROVE  UpdatesOK' /\ Differs' /\ SampledSettled' /\ Cones' /\ GroupAhead' /\ Bools'
<1> DEFINE a == Single(p)
<1>1. /\ pc = "scan" /\ pc' = "scan" /\ Picked(p) /\ IsUpdatePos(p) /\ Passed
      /\ act' = act \ Cleared(p) /\ UNCHANGED <<val, trace, tm, sampled, touched, round>>
      /\ ebit' = ConsumeEdge(a, p)
      /\ prev' = (IF UsesBit(a) THEN prev
                  ELSE [prev EXCEPT ![a] = [i \in DOMAIN Events[a] |-> val[EventCellOf(a, i)]]])
      /\ intents' = IF Active(a, p) THEN intents \cup {a} ELSE intents \ {a}
  BY DEF RunUpdate, Picked, Throw, modes, IsUpdatePos, EventCellOf
<1>2. /\ a \in Action /\ TypeOK /\ IInv /\ act \subseteq Pos /\ at \in Nat /\ Ground
      /\ DOMAIN prev = Action /\ a \in Item(p)
  BY <1>1, UpdateFacts, ExecFacts DEF AInv, Ground, NInv, IInv, TypeOK, WiresOK, ControlOK
<1>3. ~trace => p \in act /\ \A q \in act : q # p => p < q
  BY <1>1, <1>2, PickedFirst
<1>4. trace => p = at /\ at' = at + 1
  BY <1>1 DEF Picked, Passed
<1>5. ~Behind(p) /\ Behind(p)'
  BY <1>1, <1>2, <1>3, <1>4, ExecFacts DEF Behind, Cleared, Pos
<1>6. \A q \in Pos : Behind(q) => Behind(q)'
  BY <1>1, <1>2, <1>4, ExecFacts DEF Behind, Pos
<1>7. UpdateOK(p)'
  <2>1. Waits(p) /\ (tm /\ EdgeBitMode(a) => p \notin ebit)
    BY <1>1, <1>5 DEF AInv, UpdatesOK, UpdateOK, Ran
  <2>2. Active(a, p) <=> Fires(a)
    BY <1>1, <2>1, ActiveExact DEF Waits
  <2>3. a \in intents' <=> Fires(a)
    BY <1>1, <2>2
  <2>4. Fires(a)' <=> Fires(a)
    BY <1>1 DEF Fires, Rose, GuardPass
  <2>5. Quiet(a, p)'
    <3>1. UsesBit(a)' <=> UsesBit(a)
      BY <1>1 DEF UsesBit
    <3>2. CASE UsesBit(a)
      BY <1>1, <3>1, <3>2 DEF Quiet, ConsumeEdge
    <3>3. CASE ~UsesBit(a)
      <4> DEFINE fresh == [i \in DOMAIN Events[a] |-> val[EventCellOf(a, i)]]
      <4>1. prev'[a] = fresh
        <5> HIDE DEF fresh
        <5> QED BY <1>1, <1>2, <3>3 DEF fresh
      <4> QED BY <1>1, <3>1, <3>3, <4>1 DEF Quiet
    <3> QED BY <3>2, <3>3
  <2>6. tm' /\ EdgeBitMode(a) => p \notin ebit'
    BY <1>1, <2>1 DEF ConsumeEdge
  <2> QED BY <1>1, <1>5, <2>3, <2>4, <2>5, <2>6 DEF UpdateOK, Done, Ran, Scanning
<1>8. ASSUME NEW q, IsUpdatePos(q), q # p PROVE UpdateOK(q)'
  <2>1. q \in Pos /\ Single(q) \in Item(q) /\ Single(q) \in Action
    BY <1>8, UpdateFacts
  <2>2. Single(q) # a
    BY <1>2, <1>8, <2>1, ScheduledAt
  <2>3. prev'[Single(q)] = prev[Single(q)]
    BY <1>1, <1>2, <2>1, <2>2
  <2>4. (q \in ebit' <=> q \in ebit) /\ (Single(q) \in intents' <=> Single(q) \in intents)
        /\ (q \in act => q \in act')
    BY <1>1, <1>8, <2>2 DEF ConsumeEdge, Cleared
  <2>5. trace /\ Ran(q)' => Ran(q)
    BY <1>1, <1>2, <1>4, <1>8, <2>1, ExecFacts DEF Ran, Behind, Scanning, Pos
  <2>6. Ran(q) => Ran(q)'
    BY <1>1, <1>6, <2>1 DEF Ran, Scanning
  <2>7. UpdateOK(q) /\ Scanning
    BY <1>1, <1>8 DEF AInv, UpdatesOK, Scanning
  <2> QED BY <1>1, <1>8, <2>3, <2>4, <2>5, <2>6, <2>7, Undisturbed
<1>9. UpdatesOK'
  BY <1>7, <1>8 DEF UpdatesOK, IsUpdatePos
<1>10. Scanning /\ Scanning' /\ GroupAhead'
  BY <1>1 DEF Scanning, GroupAhead
<1>11. Differs' /\ SampledSettled' /\ Cones' /\ Bools'
  BY <1>1, <1>2, <1>6, <1>10, ScanGround
<1> QED BY <1>9, <1>10, <1>11

\* Entering and leaving a group, and going on to the next word.
LEMMA MoveExact ==
  ASSUME AInv, (\E p \in Pos : EnterGroup(p)) \/ GroupPass \/ NextWord, errs' = {}
  PROVE  UpdatesOK' /\ Differs' /\ SampledSettled' /\ Cones' /\ GroupAhead' /\ Bools'
<1>1. /\ UNCHANGED <<val, prev, ebit, intents, sampled, tm, trace, touched, round>>
      /\ Scanning /\ Scanning' /\ act' \subseteq act
  BY DEF EnterGroup, Picked, GroupPass, NextWord, Throw, wires, commits, modes, ghosts, Scanning
<1>2. Ground /\ NInv /\ IInv /\ TypeOK /\ act \subseteq Pos /\ at \in Nat
  BY ExecFacts DEF AInv, Ground, NInv, IInv, TypeOK, WiresOK, ControlOK
<1>3. /\ \A r \in Pos : (Behind(r) => Behind(r)') /\ (pc = "group" /\ r = grp.pos =>
                            (Behind(r) \/ (pc = "group" /\ r = grp.pos))')
      /\ \A r \in Pos \ Group : (trace /\ Behind(r)' => Behind(r)) /\ (r \in act => r \in act')
      /\ GroupAhead'
  <2>1. CASE \E p \in Pos : EnterGroup(p)
    <3>1. PICK p \in Pos : EnterGroup(p)
      BY <2>1
    <3>2. /\ pc = "scan" /\ Picked(p) /\ p \in Group /\ grp' = [pos |-> p, k |-> 1, iter |-> 0]
          /\ at' = at /\ act' = act \ Cleared(p) /\ pc' = "group"
      BY <3>1 DEF EnterGroup, Picked
    <3>3. ~trace => p \in act /\ \A q \in act : q # p => p < q
      BY <1>2, <3>2, PickedFirst
    <3> QED BY <1>1, <3>2, <3>3 DEF Behind, Cleared, GroupAhead
  <2>2. CASE GroupPass
    <3>1. /\ pc = "group" /\ act' = act /\ grp.pos \in Group /\ grp.pos \in Pos
          /\ grp = [pos |-> grp.pos, k |-> grp.k, iter |-> grp.iter]
          /\ trace => grp.pos = at
      BY <1>2, <2>2, ExecAssumption DEF GroupPass, wires, TypeOK, ControlOK
    <3>2. \/ pc' = "scan" /\ at' = IF trace THEN at + 1 ELSE at
          \/ pc' = "group" /\ at' = at /\ grp' = [grp EXCEPT !.k = 1, !.iter = @ + 1]
      BY <2>2 DEF GroupPass, Throw, Passed
    <3>3. ~trace => \A q \in act : grp.pos < q
      BY <1>2, <3>1 DEF Ground, GroupAhead
    <3>4. CASE pc' = "scan" /\ at' = IF trace THEN at + 1 ELSE at
      BY <1>1, <1>2, <3>1, <3>3, <3>4, ExecFacts DEF Behind, GroupAhead, Pos
    <3>5. CASE pc' = "group" /\ at' = at /\ grp' = [grp EXCEPT !.k = 1, !.iter = @ + 1]
      <4>1. grp'.pos = grp.pos
        BY <3>1, <3>5
      <4> QED BY <1>1, <3>1, <3>3, <3>5, <4>1 DEF Behind, GroupAhead
    <3> QED BY <3>2, <3>4, <3>5
  <2>3. CASE NextWord
    <3>1. pc = "scan" /\ pc' = "scan" /\ ~trace /\ act' = act
      BY <2>3 DEF NextWord, wires
    <3> QED BY <1>1, <3>1 DEF Behind, GroupAhead
  <2> QED BY <2>1, <2>2, <2>3
<1>4. ASSUME NEW q, IsUpdatePos(q) PROVE UpdateOK(q)'
  <2>1. q \in Pos /\ q \notin Group /\ UpdateOK(q)
    BY <1>4 DEF AInv, UpdatesOK, IsUpdatePos
  <2>2. (Ran(q) => Ran(q)') /\ (trace /\ Ran(q)' => Ran(q)) /\ (q \in act => q \in act')
    BY <1>1, <1>3, <2>1 DEF Ran
  <2> QED BY <1>1, <1>4, <2>1, <2>2, Undisturbed
<1>5. UpdatesOK'
  BY <1>4 DEF UpdatesOK, IsUpdatePos
<1>6. Differs' /\ SampledSettled' /\ Cones' /\ Bools'
  BY <1>1, <1>2, <1>3, ScanGround
<1> QED BY <1>3, <1>5, <1>6

\* At the end of phase 1 it has passed every position.
LEMMA AllRan ==
  ASSUME NInv, EndScan, NEW p \in Pos
  PROVE  Ran(p) /\ (~trace => act = {})
<1>1. pc = "scan" /\ IInv /\ act \subseteq Pos /\ at \in Nat
  BY ExecFacts DEF EndScan, ScanDone, NInv, IInv, TypeOK, WiresOK, ControlOK
<1>2. CASE trace
  BY <1>1, <1>2, ExecFacts DEF EndScan, ScanDone, Ran, Scanning, Behind, Pos
<1>3. CASE ~trace
  <2>1. \A q \in act : Word(q) \in Nat /\ Word(q) <= LastWord /\ Word(q) >= at
    BY <1>1, <1>3, WordFacts DEF EndScan, ScanDone, IInv, NothingLeftBehind
  <2>2. at > LastWord /\ LastWord \in Nat
    BY <1>3, WordFacts DEF EndScan, ScanDone
  <2>3. act = {}
    BY <1>1, <2>1, <2>2
  <2> QED BY <1>1, <1>3, <2>3 DEF Ran, Scanning, Behind
<1> QED BY <1>2, <1>3

\* What is pending then is what fires.
LEMMA FiredExact ==
  ASSUME AInv, EndScan
  PROVE  intents = {a \in Action : Occurred(a, sampled, val) /\ GuardPass(a, val)}
<1>1. NInv /\ intents \subseteq {a \in Action : IsUpdate(a)}
  BY DEF AInv, Ground, NInv, IInv, TypeOK, CommitsOK
<1>2. \A a \in Action : Fires(a) <=> Occurred(a, sampled, val) /\ GuardPass(a, val)
  BY DEF Fires, Rose, EventCellOf, Occurred
<1>3. ASSUME NEW a \in Action, IsUpdate(a) PROVE a \in intents <=> Fires(a)
  <2>1. PICK p \in Pos : a \in Item(p)
    BY ExecAssumption
  <2>2. p \notin Group /\ a = Single(p)
    BY <1>3, <2>1, ItemFacts
  <2>3. Ran(p) /\ IsUpdatePos(p)
    BY <1>1, <1>3, <2>1, <2>2, AllRan DEF IsUpdatePos
  <2> QED BY <2>2, <2>3 DEF AInv, UpdatesOK, UpdateOK, Done
<1>4. ASSUME NEW a \in Action, ~IsUpdate(a) PROVE a \notin intents /\ ~Fires(a)
  BY <1>1, <1>4, EventFacts DEF Fires
<1> QED BY <1>1, <1>2, <1>3, <1>4

\* From there the Updates wait again, against the state just settled.
LEMMA SettleExact ==
  ASSUME AInv, NInv', EndScan, errs' = {}
  PROVE  UpdatesOK' /\ Differs' /\ SampledSettled' /\ Cones' /\ GroupAhead' /\ Bools'
<1>1. /\ pc = "scan" /\ pc' = "commit" /\ sampled' = val /\ Ground /\ NInv
      /\ UNCHANGED <<val, prev, act, ebit, intents, tm, trace, touched>>
  BY DEF EndScan, ScanDone, wires, modes, AInv, Ground
<1>2. \A c : Same(c)'
  BY <1>1 DEF Same
<1>3. Differs' /\ Cones' /\ GroupAhead'
  <2>1. Pulses'
    BY <1>1 DEF Ground, Differs, Pulses
  <2> QED BY <1>1, <1>2, <2>1 DEF Differs, WiresFrom, StateFrom, InputsFrom, Cones, GroupAhead
<1>4. SampledSettled'
  <2>1. SampleSettled'
    BY DEF NInv, IInv
  <2> QED BY <1>1, <2>1 DEF SampleSettled, Sound, SampledSettled, SettledItem
<1>5. Bools'
  BY <1>1 DEF Ground, Bools
<1>6. ASSUME NEW q, IsUpdatePos(q) PROVE UpdateOK(q)'
  <2> DEFINE a == Single(q)
  <2>1. Ran(q) /\ UpdateOK(q)
    BY <1>1, <1>6, AllRan DEF AInv, UpdatesOK, IsUpdatePos
  <2>2. Quiet(a, q) /\ (tm /\ EdgeBitMode(a) => q \notin ebit)
    BY <2>1 DEF UpdateOK, Done
  <2>3. (UsesBit(a)' <=> UsesBit(a)) /\ (Quiet(a, q)' <=> Quiet(a, q))
    BY <1>1 DEF UsesBit, Quiet
  <2>4. ASSUME NEW i \in DOMAIN Events[a] PROVE SlotOK(a, q, i)'
    <3>1. ~Rose(a, i)'
      BY <1>1 DEF Rose, Rises
    <3> QED BY <1>1, <2>2, <2>3, <2>4, <3>1 DEF SlotOK, Quiet
  <2> QED BY <1>1, <2>2, <2>3, <2>4 DEF UpdateOK, Waits, Ran, Scanning
<1>7. UpdatesOK'
  BY <1>6 DEF UpdatesOK, IsUpdatePos
<1> QED BY <1>3, <1>4, <1>5, <1>7

\* The end of a round.
LEMMA RoundExact ==
  ASSUME AInv, EndRound, errs' = {}
  PROVE  UpdatesOK' /\ Differs' /\ SampledSettled' /\ Cones' /\ GroupAhead' /\ Bools'
<1>1. /\ pc = "commit" /\ cbits = {} /\ Ground /\ ~Scanning
      /\ UNCHANGED <<val, prev, act, ebit, intents, tm, trace, sampled>>
      /\ \/ ncommit = 0 /\ pc' = "idle" /\ touched' = {}
         \/ ncommit > 0 /\ pc' = "scan" /\ round' = round + 1 /\ touched' = touched
            /\ at' = IF trace THEN 1 ELSE 0
  BY DEF EndRound, Throw, ScanStart, wires, commits, modes, AInv, Ground, Scanning
<1>2. round \in Nat /\ intents = {} /\ ncommit \in Nat
  BY <1>1, ValueAssumption DEF Ground, NInv, IInv, TypeOK, ControlOK, CommitsOK,
                               StrandedOnlyByMutex, NoIntentStranded
<1>3. \A c : Same(c)' <=> Same(c)
  BY <1>1 DEF Same
<1>4. StateFrom' /\ InputsFrom' /\ Pulses'
  <2>1. ASSUME NEW c \in Reg \cup Mem, ~Same(c) PROVE Scanning' /\ round' > 0
    <3>1. ncommit > 0
      BY <1>1, <2>1 DEF Ground, Differs, StateFrom
    <3> QED BY <1>1, <1>2, <3>1 DEF Scanning
  <2>2. \A c \in Input : Same(c)
    BY <1>1 DEF Ground, Differs, InputsFrom, Scanning
  <2>3. Pulses'
    BY <1>1 DEF Ground, Differs, Pulses
  <2> QED BY <1>3, <2>1, <2>2, <2>3 DEF StateFrom, InputsFrom
<1>5. SampleGood
  BY <1>1 DEF SampleGood
<1>6. Differs' /\ SampledSettled' /\ Cones' /\ GroupAhead' /\ Bools'
  <2>1. \A c \in EventCell : val'[c] \in Bool
    BY <1>1 DEF Ground, Bools
  <2> QED BY <1>1, <1>4, <1>5, <2>1, SettledGround
<1>7. ASSUME NEW q, IsUpdatePos(q) PROVE UpdateOK(q)'
  <2>1. UpdateOK(q) /\ q \in Pos /\ ~Ran(q)
    BY <1>1, <1>7 DEF AInv, UpdatesOK, IsUpdatePos, Ran
  <2>2. trace => ~Ran(q)'
    BY <1>1, <2>1, ExecFacts DEF Ran, Behind, Scanning, Pos
  <2> QED BY <1>1, <1>2, <1>7, <2>1, <2>2, Undisturbed
<1> QED BY <1>6, <1>7 DEF UpdatesOK, IsUpdatePos

\* Between evals and in phase 2, a write of a source on which no watched event has
\* occurred, and no guard of an Update with a watched event that has.
LEMMA SourceUpdates ==
  ASSUME AInv, ExactEvents, ~Scanning, ~Scanning', UNCHANGED <<sampled, tm, trace>>,
         NEW c \in Cell, NEW v, Write(c, v, {}), c \in EventCell => v \in Bool,
         \A q : IsUpdatePos(q) => \A i \in DOMAIN Events[Single(q)] :
           LET d == EventCellOf(Single(q), i) IN
           WatchSlot(Single(q), d) # {} =>
             /\ d = c => Same(c)
             /\ ~Same(d) => \A g \in Guard[Single(q)] : Canon[g] # c
  PROVE  UpdatesOK'
<1> SUFFICES ASSUME NEW q, IsUpdatePos(q) PROVE UpdateOK(q)'
  BY DEF UpdatesOK, IsUpdatePos
<1> DEFINE b == Single(q)
<1>1. /\ Ground /\ UpdateOK(q) /\ WiresOK /\ ~Ran(q) /\ ~Ran(q)' /\ b \in Action
      /\ val'[c] = v /\ \A e \in Cell : e # c => val'[e] = val[e]
  BY UpdateFacts, WriteVal DEF AInv, UpdatesOK, Ground, NInv, IInv, TypeOK, Ran
<1>2. Waits(q) /\ (tm /\ EdgeBitMode(b) => q \notin ebit)
  BY <1>1 DEF UpdateOK
<1>3. c \in EventCell => val[c] \in Bool /\ val'[c] \in Bool
  BY <1>1 DEF Ground, Bools
<1>4. ASSUME \A g \in Guard[b] : Canon[g] # c
      PROVE  GuardPass(b, val') <=> GuardPass(b, val)
  <2>1. \A g \in Guard[b] : Canon[g] \in Cell
    BY <1>1, ActionFacts, CellFacts
  <2> QED BY <1>1, <1>4, <2>1 DEF GuardPass
<1>5. \A i \in DOMAIN Events[b] :
        LET d == EventCellOf(b, i) IN
        WatchSlot(b, d) # {} =>
          /\ d = c => Same(c)
          /\ ~Same(d) => (GuardPass(b, val') <=> GuardPass(b, val))
  BY <1>4
<1>6. /\ \A i \in DOMAIN Events[b] : SlotOK(b, q, i)'
      /\ ~trace' /\ q \notin act' => Quiet(b, q)'
      /\ tm' /\ EdgeBitMode(b) => q \notin ebit'
  BY <1>1, <1>2, <1>3, <1>5, WriteWaits DEF Waits
<1> QED BY <1>1, <1>6 DEF UpdateOK, Waits

\* A chain commits once a round, and what a commit may trigger reads guards that no
\* commit reaches.
LEMMA CommitExact ==
  ASSUME AInv, ExactEvents, NEW r \in Chain, CommitChain(r), errs' = {}
  PROVE  UpdatesOK' /\ Differs' /\ SampledSettled' /\ Cones' /\ GroupAhead' /\ Bools'
<1>1. /\ pc = "commit" /\ pc' = "commit" /\ r \in cbits /\ cbits' = cbits \ {r} /\ Ground /\ ~Scanning
      /\ UNCHANGED <<tm, trace, sampled, touched, round>> /\ ~Scanning' /\ r \in Cell
      /\ r \in Reg \cup Mem
      /\ \/ UNCHANGED <<wires, intents, ncommit>>
         \/ Raised(r) # {} /\ Write(r, Landing(r), {}) /\ ncommit' = ncommit + 1
  BY ChainFacts DEF CommitChain, Throw, modes, AInv, Ground, Scanning, Chain, IsUpdate
<1>2. ncommit \in Nat /\ WiresOK /\ intents \subseteq Action
  BY <1>1 DEF Ground, NInv, IInv, TypeOK, CommitsOK
<1>3. SampleGood /\ Pulses' /\ \A c \in Input : Same(c) /\ c \in Cell
  BY <1>1, CellFacts DEF Ground, Differs, InputsFrom, Pulses, SampleGood, Scanning
<1>4. CASE UNCHANGED <<wires, intents, ncommit>>
  <2>1. UNCHANGED <<val, prev, act, ebit, intents, ncommit>>
    BY <1>4 DEF wires
  <2>2. StateFrom' /\ InputsFrom'
    BY <1>1, <1>3, <2>1 DEF Ground, Differs, StateFrom, InputsFrom, Same
  <2>3. Differs' /\ SampledSettled' /\ Cones' /\ GroupAhead' /\ Bools'
    <3>1. \A c \in EventCell : val'[c] \in Bool
      BY <1>1, <2>1 DEF Ground, Bools
    <3> QED BY <1>1, <1>3, <2>1, <2>2, <3>1, SettledGround
  <2>4. ASSUME NEW q, IsUpdatePos(q) PROVE UpdateOK(q)'
    <3>1. UpdateOK(q) /\ ~Ran(q) /\ ~Ran(q)'
      BY <1>1, <2>4 DEF AInv, UpdatesOK, IsUpdatePos, Ran
    <3> QED BY <1>1, <2>1, <2>4, <3>1, Undisturbed
  <2> QED BY <2>3, <2>4 DEF UpdatesOK, IsUpdatePos
<1>5. CASE Raised(r) # {} /\ Write(r, Landing(r), {}) /\ ncommit' = ncommit + 1
  <2>1. val'[r] = Landing(r) /\ \A e \in Cell : e # r => val'[e] = val[e]
    BY <1>1, <1>2, <1>5, WriteVal
  <2>2. Same(r)
    BY <1>1 DEF Ground, Differs, StateFrom
  <2>3. r \in EventCell => Landing(r) \in Bool
    <3> SUFFICES ASSUME r \in EventCell PROVE Landing(r) \in Bool
      OBVIOUS
    <3>1. r \notin Mem
      BY EventCellFacts
    <3> DEFINE a == Earliest(Raised(r))
    <3>2. Raised(r) \in SUBSET Nat /\ Raised(r) \subseteq Action
      BY <1>1, ChainFacts, StructureAssumption DEF Raised
    <3>3. a \in Raised(r)
      BY <1>5, <3>2, EarliestIn
    <3>4. a \in intents /\ a \in Action /\ Target[a] = r
      BY <3>2, <3>3 DEF Raised, Updates
    <3>5. intent[a].data = Compute(a, sampled)
      BY <1>1, <3>4 DEF Ground, NInv, NonBlocking
    <3>6. Compute(a, sampled) \in Bool
      BY <1>1, <3>4, ComputeType DEF Ground, NInv, IInv, TypeOK, HistoryOK
    <3> QED BY <3>1, <3>5, <3>6 DEF Landing
  <2>4. StateFrom' /\ InputsFrom'
    <3>1. ASSUME NEW c \in Reg \cup Mem, ~Same(c)' PROVE c \notin cbits' /\ ncommit' > 0
      <4>1. c \in Cell
        BY CellFacts
      <4>2. CASE c = r
        BY <1>1, <1>2, <1>5, <4>2
      <4>3. CASE c # r
        BY <1>1, <1>2, <1>5, <2>1, <3>1, <4>1, <4>3 DEF Ground, Differs, StateFrom, Same
      <4> QED BY <4>2, <4>3
    <3>2. \A c \in Input : Same(c)'
      BY <1>1, <1>3, <2>1, StructureAssumption DEF Same
    <3> QED BY <1>1, <3>1, <3>2 DEF StateFrom, InputsFrom
  <2>5. Differs' /\ SampledSettled' /\ Cones' /\ GroupAhead' /\ Bools'
    <3>1. \A c \in EventCell : val'[c] \in Bool
      BY <1>1, <2>1, <2>3, EventCellFacts DEF Ground, Bools
    <3> QED BY <1>1, <1>3, <2>1, <2>4, <3>1, SettledGround
  <2>6. ASSUME NEW q, IsUpdatePos(q), NEW i \in DOMAIN Events[Single(q)],
               WatchSlot(Single(q), EventCellOf(Single(q), i)) # {},
               ~Same(EventCellOf(Single(q), i)), NEW g \in Guard[Single(q)]
        PROVE  Canon[g] # r
    <3> DEFINE d == EventCellOf(Single(q), i)
    <3>1. d \in Cell \ Mem /\ GuardFirst(d, Canon[g])
      BY <2>6, UpdateFacts, SlotExact
    <3>2. d \in Reg /\ d \notin Input
      BY <1>1, <1>3, <2>6, <3>1 DEF Ground, Differs, WiresFrom
    <3>3. Canon[g] = d \/ Beyond(Reg \cup Mem, Canon[g])
      BY <3>1, <3>2 DEF GuardFirst
    <3> QED BY <1>1, <2>2, <2>6, <3>3 DEF Beyond
  <2>7. UpdatesOK'
    BY <1>1, <1>5, <2>2, <2>3, <2>6, SourceUpdates
  <2> QED BY <2>5, <2>7
<1> QED BY <1>1, <1>4, <1>5

-----------------------------------------------------------------------------
(***************************************************************************)
(* The harness.                                                            *)
(***************************************************************************)

\* With nothing poked since the last completed eval(), nothing has changed.
LEMMA NothingPoked ==
  ASSUME Ground, pc = "idle", touched = {}
  PROVE  \A c \in Cell : Same(c)
BY DEF Ground, Differs, WiresFrom, StateFrom, InputsFrom, Scanning

\* A poke.  By the convention a pulse comes first after an eval(), and alone.
LEMMA PokeExact ==
  ASSUME AInv, Disciplined, NEW i \in Input, Set(i)
  PROVE  UpdatesOK' /\ Differs' /\ SampledSettled' /\ Cones' /\ GroupAhead' /\ Bools'
<1>1. PICK v \in Drive[i] : Write(i, v, {})
  BY DEF Set
<1>2. /\ pc = "idle" /\ pc' = "idle" /\ touched' = touched \cup {i} /\ Ground /\ ~Scanning /\ ~Scanning'
      /\ UNCHANGED <<tm, trace, sampled>> /\ i \in Cell /\ i \notin Reg \cup Mem
      /\ IF i \in Clock THEN touched = {} ELSE touched \cap Clock = {}
  BY CellFacts, StructureAssumption DEF Set, MayDrive, Disciplined, modes, AInv, Ground, Scanning
<1>3. val'[i] = v /\ (i \in EventCell => v \in Bool) /\ \A e \in Cell : e # i => val'[e] = val[e]
  BY <1>1, <1>2, WriteVal, DriveAssumption DEF Ground, NInv, IInv, TypeOK
<1>4. StateFrom' /\ InputsFrom' /\ Pulses'
  <2>1. \A c \in Reg \cup Mem : Same(c)'
    BY <1>2, <1>3, CellFacts DEF Ground, Differs, StateFrom, Same
  <2>2. \A c \in Input : ~Same(c)' => c \in touched'
    BY <1>2, <1>3, CellFacts DEF Ground, Differs, InputsFrom, Same
  <2>3. Pulses'
    BY <1>2 DEF Pulses
  <2> QED BY <1>2, <2>1, <2>2, <2>3 DEF StateFrom, InputsFrom
<1>5. SampleGood' => SampleGood
  BY <1>2 DEF SampleGood, Scanning
<1>6. Differs' /\ SampledSettled' /\ Cones' /\ GroupAhead' /\ Bools'
  <2>1. \A c \in EventCell : val'[c] \in Bool
    BY <1>2, <1>3, EventCellFacts DEF Ground, Bools
  <2>2. \A c \in Cell \ (Input \cup Reg \cup Mem) : val'[c] = val[c]
    BY <1>3
  <2> QED BY <1>2, <1>4, <1>5, <2>1, <2>2, SettledGround
<1>7. ASSUME NEW q, IsUpdatePos(q), NEW k \in DOMAIN Events[Single(q)],
             WatchSlot(Single(q), EventCellOf(Single(q), k)) # {}
      PROVE  LET d == EventCellOf(Single(q), k) IN (d = i => Same(i)) /\ Same(d)
  <2> DEFINE d == EventCellOf(Single(q), k)
  <2>1. d \in Cell /\ (d \in Input => d \in Clock)
    BY <1>7, UpdateFacts, SlotExact DEF Disciplined
  <2>2. Same(d)
    <3>1. CASE touched = {}
      BY <1>2, <2>1, <3>1, NothingPoked
    <3>2. CASE touched # {}
      BY <1>2, <2>1, <3>2 DEF Ground, Differs, WiresFrom, StateFrom, InputsFrom
    <3> QED BY <3>1, <3>2
  <2> QED BY <2>2
<1>8. UpdatesOK'
  BY <1>1, <1>2, <1>3, <1>7, SourceUpdates DEF Disciplined
<1> QED BY <1>6, <1>8

\* The tracer is attached or detached while every history is up to date.
LEMMA TraceExact ==
  ASSUME AInv, Disciplined, TraceOn \/ TraceOff
  PROVE  UpdatesOK' /\ Differs' /\ SampledSettled' /\ Cones' /\ GroupAhead' /\ Bools'
<1>1. /\ pc = "idle" /\ pc' = "idle" /\ touched = {} /\ Ground /\ ~Scanning /\ ~Scanning'
      /\ UNCHANGED <<val, act, ebit, intents, touched, sampled>> /\ tm = trace /\ tm' = trace'
      /\ \/ /\ trace'
            /\ prev' = [a \in Action |-> [i \in DOMAIN Events[a] |-> val[EventCellOf(a, i)]]]
         \/ ~trace' /\ prev' = prev
  BY DEF TraceOn, TraceOff, MaySwitch, Disciplined, wires, commits, ghosts, AInv, Ground,
         Scanning, EventCellOf
<1>2. \A c \in Cell : Same(c) /\ val'[c] = val[c]
  BY <1>1, NothingPoked
<1>3. Differs' /\ SampledSettled' /\ Cones' /\ GroupAhead' /\ Bools'
  <2>1. StateFrom' /\ InputsFrom' /\ Pulses'
    BY <1>1, <1>2, CellFacts DEF StateFrom, InputsFrom, Pulses, Same
  <2>2. \A c \in EventCell : val'[c] \in Bool
    BY <1>1 DEF Ground, Bools
  <2>3. SampleGood
    BY <1>1 DEF SampleGood
  <2> QED BY <1>1, <2>1, <2>2, <2>3, SettledGround
<1>4. ASSUME NEW q, IsUpdatePos(q) PROVE UpdateOK(q)'
  <2> DEFINE a == Single(q)
  <2>1. Waits(q) /\ (tm /\ EdgeBitMode(a) => q \notin ebit) /\ ~Ran(q)'
    BY <1>1, <1>4 DEF AInv, UpdatesOK, UpdateOK, Ran
  <2>2. a \in Action /\ DOMAIN Events[a] = 1..Len(Events[a]) /\ Len(Events[a]) \in Nat \ {0}
        /\ \A i \in DOMAIN Events[a] : EventCellOf(a, i) \in Cell
    BY <1>4, UpdateFacts
  <2>3. \A i \in DOMAIN Events[a] : ~Rose(a, i) /\ ~Rose(a, i)'
    BY <1>1, <1>2, <2>2 DEF Rose, Rises, Same
  <2>4. 1 \in DOMAIN Events[a]
    BY <2>2
  <2>5. EdgeBitMode(a) => q \notin ebit
    BY <2>1, <2>3, <2>4 DEF Waits, SlotOK, UsesBit
  <2>6. ASSUME NEW i \in DOMAIN Events[a], ~UsesBit(a)'
        PROVE  prev'[a][i] = val[EventCellOf(a, i)]
    <3>1. CASE trace'
      <4>1. prev' = [b \in Action |-> [j \in DOMAIN Events[b] |-> val[EventCellOf(b, j)]]]
        BY <1>1, <3>1
      <4> QED BY <2>2, <4>1
    <3>2. CASE ~trace'
      <4>1. ~UsesBit(a) /\ prev' = prev
        BY <1>1, <2>6, <3>2 DEF UsesBit
      <4> QED BY <1>2, <2>1, <2>2, <4>1 DEF Waits, SlotOK, Same
    <3> QED BY <3>1, <3>2
  <2>7. Quiet(a, q)' /\ \A i \in DOMAIN Events[a] : SlotOK(a, q, i)'
    <3>1. CASE UsesBit(a)'
      <4>1. q \notin ebit'
        BY <1>1, <2>5, <3>1 DEF UsesBit
      <4> QED BY <2>3, <3>1, <4>1 DEF Quiet, SlotOK
    <3>2. CASE ~UsesBit(a)'
      <4>1. \A i \in DOMAIN Events[a] :
              prev'[a][i] = val'[EventCellOf(a, i)] /\ prev'[a][i] = sampled'[EventCellOf(a, i)]
        BY <1>1, <1>2, <2>2, <2>6, <3>2 DEF Same
      <4> QED BY <3>2, <4>1 DEF Quiet, SlotOK
    <3> QED BY <3>1, <3>2
  <2> QED BY <1>1, <2>1, <2>5, <2>7 DEF UpdateOK, Waits
<1> QED BY <1>3, <1>4 DEF UpdatesOK, IsUpdatePos

\* Calling eval(), and switching the mutex assertion.
LEMMA CallExact ==
  ASSUME AInv, BeginEval \/ MutexSwitch
  PROVE  UpdatesOK' /\ Differs' /\ SampledSettled' /\ Cones' /\ GroupAhead' /\ Bools'
<1>1. /\ pc = "idle" /\ Ground /\ ~Scanning
      /\ UNCHANGED <<val, prev, act, ebit, intents, tm, trace, touched, sampled>>
      /\ \/ pc' = "idle"
         \/ pc' = "scan" /\ round' = 0 /\ at' = IF trace THEN 1 ELSE 0
  BY DEF BeginEval, MutexSwitch, MaySwitch, ScanStart, wires, commits, modes, ghosts,
         AInv, Ground, Scanning
<1>2. intents = {}
  BY <1>1 DEF Ground, NInv, PendingCurrent
<1>3. StateFrom' /\ InputsFrom' /\ Pulses' /\ (SampleGood' => SampleGood)
  BY <1>1 DEF Ground, Differs, StateFrom, InputsFrom, Pulses, Same, SampleGood, Scanning
<1>4. Differs' /\ SampledSettled' /\ Cones' /\ GroupAhead' /\ Bools'
  <2>1. \A c \in EventCell : val'[c] \in Bool
    BY <1>1 DEF Ground, Bools
  <2>2. pc' # "group"
    BY <1>1
  <2> QED BY <1>1, <1>3, <2>1, <2>2, SettledGround
<1>5. ASSUME NEW q, IsUpdatePos(q) PROVE UpdateOK(q)'
  <2>1. UpdateOK(q) /\ q \in Pos /\ ~Ran(q)
    BY <1>1, <1>5 DEF AInv, UpdatesOK, IsUpdatePos, Ran
  <2>2. trace => ~Ran(q)'
    BY <1>1, <2>1, ExecFacts DEF Ran, Behind, Scanning, Pos
  <2> QED BY <1>1, <1>2, <1>5, <2>1, <2>2, Undisturbed
<1> QED BY <1>4, <1>5 DEF UpdatesOK, IsUpdatePos

-----------------------------------------------------------------------------
(***************************************************************************)
(* The theorems.                                                           *)
(***************************************************************************)

\* Elaboration leaves every history at the initial value, and the harness owes the
\* netlist its first eval() before it pulses anything.
LEMMA ActivationInit ==
  ASSUME Disciplined, Init, NInv
  PROVE  AInv
<1>1. /\ val = sampled /\ pc = "idle" /\ act = Pos /\ ebit = {} /\ touched = Input \ Clock
      /\ errs = {} /\ ~tm /\ ~trace /\ touched # {} /\ touched \cap Clock = {}
      /\ \A c \in Cell \ Mem : val[c] = 0
  BY DEF Init, Initial, Disciplined
<1>2. \A c : Same(c)
  BY <1>1 DEF Same
<1>3. Differs /\ SampledSettled /\ Cones /\ GroupAhead
  BY <1>1, <1>2 DEF Differs, WiresFrom, StateFrom, InputsFrom, Pulses, SampledSettled,
                    SampleGood, Scanning, Cones, GroupAhead
<1>4. Bools
  BY <1>1, EventCellFacts DEF Bools, Bool
<1>5. ASSUME NEW p, IsUpdatePos(p) PROVE UpdateOK(p)
  <2> DEFINE a == Single(p)
  <2>1. \A i \in DOMAIN Events[a] : prev[a][i] = 0 /\ sampled[EventCellOf(a, i)] = 0
    BY <1>1, <1>5, UpdateFacts DEF Init
  <2>2. \A i \in DOMAIN Events[a] : ~Rose(a, i)
    BY <1>1 DEF Rose, Rises
  <2>3. \A i \in DOMAIN Events[a] : SlotOK(a, p, i)
    BY <1>1, <2>1, <2>2 DEF SlotOK
  <2> QED BY <1>1, <1>5, <2>3, UpdateFacts DEF UpdateOK, Waits, Ran, Scanning
<1>6. UpdatesOK
  BY <1>5 DEF UpdatesOK, IsUpdatePos
<1>7. tm = trace
  BY Zenon DEF Init
<1> QED BY <1>1, <1>3, <1>4, <1>6, <1>7 DEF AInv, Ground

\* Every step but one that throws keeps the invariant.
LEMMA ActivationStep ==
  ASSUME Disciplined, AInv, [Next]_vars, NInv', errs' = {}
  PROVE  AInv'
<1> USE DEF AInv, Ground
<1>0. ExactEvents /\ "other" \notin Switches /\ TypeOK
  BY DEF Disciplined, NInv, IInv
<1>1. UpdatesOK' /\ Differs' /\ SampledSettled' /\ Cones' /\ GroupAhead' /\ Bools'
  <2>1. CASE UNCHANGED vars
    <3>1. UNCHANGED <<val, prev, act, ebit, intents, cbits, ncommit, pc, at, grp, round, trace, tm,
                      touched, sampled>>
      BY <2>1 DEF vars, wires, commits, locals, modes, ghosts
    <3>2. UpdatesOK'
      BY <3>1 DEF UpdatesOK, UpdateOK, Done, Waits, Ran, Behind, Scanning, Quiet, SlotOK, Fires,
                  Rose, UsesBit, GuardPass
    <3>3. Differs' /\ SampledSettled' /\ Cones' /\ GroupAhead' /\ Bools'
      BY <3>1 DEF Differs, WiresFrom, StateFrom, InputsFrom, Pulses, SampledSettled, SampleGood,
                  Cones, GroupAhead, Bools, Same, Scanning, Behind, SettledItem
    <3> QED BY <3>2, <3>3
  <2>2. CASE Harness
    BY <1>0, <2>2, PokeExact, TraceExact, CallExact DEF Harness, OtherRootTrace
  <2>3. CASE Eval
    <3>1. CASE (\E p \in Pos : RunAssign(p)) \/ GroupAction
      <4>1. PICK p \in Pos : \E a \in Item(p) : Drives(a, p)
        BY <1>0, <3>1, WhoDrives
      <4> QED BY <1>0, <4>1, DriveUpdates, DriveGround
    <3>2. CASE \E p \in Pos : RunUpdate(p)
      BY <3>2, UpdateExact
    <3>3. CASE (\E p \in Pos : EnterGroup(p)) \/ GroupPass \/ NextWord
      BY <3>3, MoveExact
    <3>4. CASE EndScan
      BY <3>4, SettleExact
    <3>5. CASE EndRound
      BY <3>5, RoundExact
    <3>6. CASE \E r \in Chain : CommitChain(r)
      BY <1>0, <3>6, CommitExact
    <3> QED BY <2>3, <3>1, <3>2, <3>3, <3>4, <3>5, <3>6 DEF Eval
  <2> QED BY <2>1, <2>2, <2>3 DEF Next
<1>2. tm' = trace'
  <2>1. CASE UNCHANGED <<trace, tm>>
    BY <2>1
  <2>2. CASE TraceOn \/ TraceOff
    <3>1. CASE TraceOn
      <4>1. trace' = TRUE /\ tm' = TRUE
        BY <3>1 DEF TraceOn
      <4> QED BY <4>1
    <3>2. CASE TraceOff
      <4>1. trace' = FALSE /\ tm' = FALSE
        BY <3>2 DEF TraceOff
      <4> QED BY <4>1
    <3> QED BY <2>2, <3>1, <3>2
  <2>3. CASE UNCHANGED vars
    BY <2>1, <2>3 DEF vars, modes
  <2>4. CASE Harness
    BY <1>0, <2>1, <2>2, <2>4 DEF Harness, Set, OtherRootTrace, MutexSwitch, BeginEval, modes
  <2>5. CASE Eval
    BY <2>1, <2>5 DEF Eval, RunAssign, RunUpdate, EnterGroup, GroupAction, GroupPass, NextWord,
                      EndScan, CommitChain, EndRound, modes
  <2> QED BY <2>3, <2>4, <2>5 DEF Next
<1> QED BY <1>1, <1>2

LEMMA ActivationInductive ==
  ASSUME Disciplined
  PROVE  Spec /\ [](errs = {}) => []AInv
<1>1. Init /\ NInv => AInv
  BY ActivationInit
<1>2. AInv /\ [Next]_vars /\ NInv' /\ (errs = {})' => AInv'
  BY ActivationStep
<1> QED BY <1>1, <1>2, PendingInductive, PTL DEF Spec

\* Activation is exact on every netlist (README.md 3.6, action.h:612-700): as long
\* as no Error is thrown, the intents pending when phase 2 starts are exactly those of
\* the Updates one of whose events occurred since the previous settled state and whose
\* guard holds in this one - whichever positions were dispatched, by whichever of the
\* three ways the edge was found, and whenever the tracer came or went.  The hypothesis
\* is the harness's side (pokes and pulses apart) and the netlist's (ExactEvents).
THEOREM UpdatesActivateExactly ==
  ASSUME Disciplined
  PROVE  Spec /\ [](errs = {}) => ActivationExact
<1>1. AInv /\ [Next]_vars =>
        [EndScan => intents' = {a \in Action : Occurred(a, sampled, val) /\ GuardPass(a, val)}]_vars
  <2> SUFFICES ASSUME AInv, EndScan
               PROVE  intents' = {a \in Action : Occurred(a, sampled, val) /\ GuardPass(a, val)}
    OBVIOUS
  <2>1. intents' = intents
    BY DEF EndScan
  <2> QED BY <2>1, FiredExact
<1> QED BY <1>1, ActivationInductive, PTL DEF Spec, ActivationExact

-----------------------------------------------------------------------------
(***************************************************************************)
(* Engine implements EvalSpec: what each step is there.                    *)
(***************************************************************************)
SrcOf == [c \in Input \cup Reg \cup Mem |-> val[c]]
FiredOf == IF pc = "commit" THEN intents ELSE {}
PhaseOf == IF pc \in {"scan", "group"} THEN "eval" ELSE pc
AgainOf == pc = "commit" /\ ncommit > 0

\* EvalSpec's netlist is this one: what it computes, settles and activates is the same.
LEMMA SameNetlist ==
  /\ Promise!Cell = Cell /\ Promise!Pos = Pos /\ Promise!Chain = Chain
  /\ Promise!Source = Input \cup Reg \cup Mem
  /\ \A r : Promise!Updates(r) = Updates(r)
  /\ \A c : Promise!Zero(c) = IF c \in Mem THEN [x \in Row |-> 0] ELSE 0
<1>1. Promise!Cell = Cell
  BY DEF Promise!Cell, Cell
<1>2. Promise!Pos = Pos
  BY DEF Promise!Pos, Pos
<1>3. Promise!Chain = Chain
  BY DEF Promise!Chain, Chain, Promise!IsUpdate, IsUpdate
<1>4. Promise!Source = Input \cup Reg \cup Mem
  BY DEF Promise!Source
<1>5. \A r : Promise!Updates(r) = Updates(r)
  BY DEF Promise!Updates, Updates
<1>6. \A c : Promise!Zero(c) = IF c \in Mem THEN [x \in Row |-> 0] ELSE 0
  BY DEF Promise!Zero
<1> QED BY <1>1, <1>2, <1>3, <1>4, <1>5, <1>6

LEMMA SameValues ==
  /\ \A a, w : Promise!Compute(a, w) = Compute(a, w)
  /\ \A S : Promise!Earliest(S) = Earliest(S)
  /\ \A p, w : Promise!SettledItem(p, w) <=> SettledItem(p, w)
  /\ \A a, u, w : Promise!Fires(a, u, w) <=> Occurred(a, u, w) /\ GuardPass(a, w)
<1>1. \A a, w : Promise!Compute(a, w) = Compute(a, w)
  BY DEF Promise!Compute, Compute, Promise!View, View
<1>2. \A S : Promise!Earliest(S) = Earliest(S)
  BY DEF Promise!Earliest, Earliest
<1>3. \A p : Promise!Item(p) = Item(p)
  BY DEF Promise!Item, Item
<1>4. \A a : Promise!IsUpdate(a) <=> IsUpdate(a)
  BY DEF Promise!IsUpdate, IsUpdate
<1>5. \A p, w : Promise!SettledItem(p, w) <=> SettledItem(p, w)
  BY <1>1, <1>3, <1>4 DEF Promise!SettledItem, SettledItem
<1>6. \A k, x, y : Promise!Rises(k, x, y) <=> Rises(k, x, y)
  BY DEF Promise!Rises, Rises
<1>7. \A a, w : Promise!GuardPass(a, w) <=> GuardPass(a, w)
  BY DEF Promise!GuardPass, GuardPass
<1>8. \A a, u, w : Promise!Fires(a, u, w) <=> Occurred(a, u, w) /\ GuardPass(a, w)
  BY <1>6, <1>7 DEF Promise!Fires, Occurred
<1> QED BY <1>1, <1>2, <1>5, <1>8

\* A step that changes no source, no settled state, no activation and no phase is none.
LEMMA StutterMaps ==
  ASSUME \A c \in Input \cup Reg \cup Mem : val'[c] = val[c],
         sampled' = sampled, pc = "commit" <=> pc' = "commit", Scanning <=> Scanning',
         ~Scanning => pc' = pc, pc = "commit" => intents' = intents /\ ncommit' = ncommit
  PROVE  UNCHANGED Promise!specVars
<1>1. SrcOf' = SrcOf
  BY DEF SrcOf
<1>2. FiredOf' = FiredOf /\ PhaseOf' = PhaseOf /\ AgainOf' = AgainOf
  BY DEF FiredOf, PhaseOf, AgainOf, Scanning
<1> QED BY <1>1, <1>2 DEF Promise!specVars, SrcOf, FiredOf, PhaseOf, AgainOf

\* set() is a poke.
LEMMA PokeMaps ==
  ASSUME WiresOK, NEW i \in Input, Set(i)
  PROVE  Promise!Poke(i)
<1>1. PICK v \in Drive[i] : Write(i, v, {})
  BY DEF Set
<1>2. pc = "idle" /\ pc' = "idle" /\ UNCHANGED <<intents, ncommit, sampled>>
  BY DEF Set, commits
<1>3. val'[i] = v /\ \A e \in Cell : e # i => val'[e] = val[e]
  BY <1>1, CellFacts, WriteVal
<1>4. SrcOf' = [SrcOf EXCEPT ![i] = v]
  BY <1>3, CellFacts DEF SrcOf
<1> QED BY <1>2, <1>4 DEF Promise!Poke, SrcOf

\* The end of phase 1 settles: it leaves every source alone, makes every assignment
\* hold, and has activated what it should.
LEMMA SettleMaps ==
  ASSUME AInv, NInv', EndScan, errs' = {}
  PROVE  Promise!Settle
<1>1. /\ pc = "scan" /\ pc' = "commit" /\ sampled' = val /\ ncommit' = 0
      /\ intents' = intents /\ val' = val
  BY DEF EndScan, ScanDone, wires
<1>2. DOMAIN val = Cell
  BY DEF AInv, Ground, NInv, IInv, TypeOK, WiresOK, IsValuation
<1>3. \A p \in Pos : SettledItem(p, val)
  <2>1. SampleSettled'
    BY DEF NInv, IInv
  <2> QED BY <1>1, <2>1 DEF SampleSettled, Sound, SettledItem
<1>4. intents = {a \in Action : Promise!Fires(a, sampled, val)}
  <2>1. intents = {a \in Action : Occurred(a, sampled, val) /\ GuardPass(a, val)}
    BY FiredExact
  <2> QED BY <2>1, SameValues
<1>5. DOMAIN sampled' = Promise!Cell
  BY <1>1, <1>2, SameNetlist
<1>6. \A c \in Promise!Source : sampled'[c] = SrcOf[c]
  BY <1>1, SameNetlist DEF SrcOf
<1>7. \A p \in Promise!Pos : Promise!SettledItem(p, sampled')
  BY <1>1, <1>3, SameNetlist, SameValues
<1>8. FiredOf' = {a \in Action : Promise!Fires(a, sampled, sampled')}
  BY <1>1, <1>4 DEF FiredOf
<1>9. PhaseOf = "eval" /\ PhaseOf' = "commit"
  BY <1>1 DEF PhaseOf
<1>10. SrcOf' = SrcOf
  BY <1>1 DEF SrcOf
<1>11. AgainOf = FALSE /\ AgainOf' = FALSE
  <2>1. pc # "commit" /\ ~(ncommit' > 0)
    BY <1>1
  <2> QED BY <2>1 DEF AgainOf
<1>12. SrcOf' = SrcOf /\ AgainOf' = AgainOf
  BY <1>10, <1>11
<1> QED BY <1>5, <1>6, <1>7, <1>8, <1>9, <1>12
        DEF Promise!Settle, SrcOf, FiredOf, PhaseOf, AgainOf

\* A chain with an intent up commits the value EvalSpec names; one without commits nothing.
LEMMA CommitMaps ==
  ASSUME AInv, NEW r \in Chain, CommitChain(r), errs' = {}
  PROVE  Promise!Commit(r) \/ UNCHANGED Promise!specVars
<1>1. /\ pc = "commit" /\ pc' = "commit" /\ sampled' = sampled /\ r \in Cell /\ r \in Reg \cup Mem
      /\ WiresOK /\ ncommit \in Nat /\ intents \subseteq Action
      /\ \/ UNCHANGED <<wires, intents, ncommit>>
         \/ Raised(r) # {} /\ Write(r, Landing(r), {}) /\ ncommit' = ncommit + 1
            /\ intents' = intents \ Raised(r)
  BY ChainFacts DEF CommitChain, Throw, Chain, IsUpdate, AInv, Ground, NInv, IInv, TypeOK, CommitsOK
<1>2. CASE UNCHANGED <<wires, intents, ncommit>>
  <2>1. val' = val
    BY <1>2 DEF wires
  <2> QED BY <1>1, <1>2, <2>1, StutterMaps DEF Scanning
<1>3. CASE /\ Raised(r) # {} /\ Write(r, Landing(r), {}) /\ ncommit' = ncommit + 1
           /\ intents' = intents \ Raised(r)
  <2>1. val'[r] = Landing(r) /\ \A e \in Cell : e # r => val'[e] = val[e]
    BY <1>1, <1>3, WriteVal
  <2>2. SrcOf' = [SrcOf EXCEPT ![r] = Landing(r)]
    BY <1>1, <2>1, CellFacts DEF SrcOf
  <2>3. \A a \in intents : /\ intent[a].data = Compute(a, sampled)
                           /\ Target[a] \in Mem => intent[a].row = sampled[Canon[Addr[a]]]
    BY <1>1 DEF AInv, Ground, NInv, NonBlocking
  <2>4. Raised(r) = intents \cap Updates(r) /\ \A a \in Raised(r) : a \in intents /\ Target[a] = r
    BY DEF Raised, Updates
  <2>5. ASSUME r \notin Mem PROVE Promise!Stored(r) = Landing(r)
    <3>1. Raised(r) \in SUBSET Nat
      BY <1>1, <2>4, StructureAssumption
    <3>2. Earliest(Raised(r)) \in Raised(r)
      BY <1>3, <3>1, EarliestIn
    <3>3. Landing(r) = Compute(Earliest(Raised(r)), sampled)
      BY <2>3, <2>4, <2>5, <3>2 DEF Landing
    <3>4. FiredOf \cap Promise!Updates(r) = Raised(r)
      BY <1>1, <2>4, SameNetlist DEF FiredOf
    <3>5. Promise!Stored(r) = Promise!Compute(Promise!Earliest(Raised(r)), sampled)
      BY <2>5, <3>4 DEF Promise!Stored, FiredOf
    <3> QED BY <3>3, <3>5, SameValues
  <2>6. ASSUME r \in Mem PROVE Promise!Stored(r) = Landing(r)
    <3>1. ASSUME NEW x
          PROVE  /\ {a \in Raised(r) : intent[a].row = x}
                      = {a \in Raised(r) : sampled[Canon[Addr[a]]] = x}
                 /\ {a \in Raised(r) : intent[a].row = x} # {} =>
                      intent[Earliest({a \in Raised(r) : intent[a].row = x})].data
                        = Compute(Earliest({a \in Raised(r) : intent[a].row = x}), sampled)
      <4> DEFINE here == {a \in Raised(r) : intent[a].row = x}
      <4>1. here = {a \in Raised(r) : sampled[Canon[Addr[a]]] = x}
        BY <2>3, <2>4, <2>6
      <4>2. here \in SUBSET Nat
        BY <1>1, <2>4, StructureAssumption
      <4>3. here # {} => Earliest(here) \in here
        BY <4>2, EarliestIn
      <4> QED BY <2>3, <2>4, <4>1, <4>3
    <3>2. Landing(r) = [x \in Row |->
              LET row == {a \in Raised(r) : sampled[Canon[Addr[a]]] = x} IN
              IF row = {} THEN val[r][x] ELSE Compute(Earliest(row), sampled)]
      BY <2>6, <3>1 DEF Landing
    <3>3. SrcOf[r] = val[r]
      BY <1>1 DEF SrcOf
    <3>4. FiredOf \cap Promise!Updates(r) = Raised(r)
      BY <1>1, <2>4, SameNetlist DEF FiredOf
    <3>5. Promise!Stored(r) = [x \in Row |->
              LET row == {a \in Raised(r) : sampled[Canon[Addr[a]]] = x} IN
              IF row = {} THEN SrcOf[r][x] ELSE Promise!Compute(Promise!Earliest(row), sampled)]
      BY <2>6, <3>4 DEF Promise!Stored, FiredOf, SrcOf
    <3> QED BY <3>2, <3>3, <3>5, SameValues
  <2>7. Promise!Stored(r) = Landing(r)
    BY <2>5, <2>6
  <2>8. FiredOf \cap Promise!Updates(r) # {} /\ FiredOf' = FiredOf \ Promise!Updates(r)
    BY <1>1, <1>3, <2>4, SameNetlist DEF FiredOf
  <2>9. PhaseOf = "commit" /\ PhaseOf' = "commit"
    BY <1>1 DEF PhaseOf
  <2>10. AgainOf' = TRUE
    <3>1. ncommit' > 0 /\ pc' = "commit"
      BY <1>1, <1>3
    <3> QED BY <3>1 DEF AgainOf
  <2>11. SrcOf' = [SrcOf EXCEPT ![r] = Promise!Stored(r)]
    BY <2>2, <2>7
  <2>12. Promise!Commit(r)
    BY <1>1, <2>8, <2>9, <2>10, <2>11 DEF Promise!Commit, SrcOf, FiredOf, PhaseOf, AgainOf
  <2> QED BY <2>12
<1> QED BY <1>1, <1>2, <1>3

\* The end of a round.
LEMMA FinishMaps ==
  ASSUME AInv, EndRound, errs' = {}
  PROVE  Promise!Finish
<1>1. /\ pc = "commit" /\ cbits = {} /\ UNCHANGED <<sampled, val>> /\ ncommit \in Nat
      /\ \/ ncommit = 0 /\ pc' = "idle"
         \/ ncommit > 0 /\ pc' = "scan"
  BY DEF EndRound, Throw, wires, AInv, Ground, NInv, IInv, TypeOK, CommitsOK
<1>2. intents = {}
  BY <1>1 DEF AInv, Ground, NInv, StrandedOnlyByMutex, NoIntentStranded
<1> QED BY <1>1, <1>2 DEF Promise!Finish

\* Every step that does not throw is a step of EvalSpec or none.
LEMMA StepMaps ==
  ASSUME AInv, NInv', [Next]_vars, errs' = {}
  PROVE  [Promise!SpecNext]_(Promise!specVars)
<1>1. /\ WiresOK /\ \A c \in Input \cup Reg \cup Mem : c \in Cell
  BY CellFacts DEF AInv, Ground, NInv, IInv, TypeOK
<1>2. CASE UNCHANGED vars
  BY <1>2, StutterMaps DEF vars, wires, commits, ghosts, Scanning
<1>3. CASE Harness
  <2>1. CASE \E i \in Input : Set(i)
    BY <1>1, <2>1, PokeMaps DEF Promise!SpecNext
  <2>2. CASE BeginEval
    <3>1. pc = "idle" /\ pc' = "scan" /\ UNCHANGED <<val, sampled>>
      BY <2>2 DEF BeginEval, wires, ghosts
    <3>2. Promise!Call
      BY <3>1 DEF Promise!Call
    <3> QED BY <3>2 DEF Promise!SpecNext
  <2>3. CASE TraceOn \/ TraceOff \/ OtherRootTrace \/ MutexSwitch
    <3>1. UNCHANGED <<val, sampled, pc, intents, ncommit>> /\ pc = "idle"
      BY <2>3 DEF TraceOn, TraceOff, OtherRootTrace, MutexSwitch, MaySwitch, wires, commits, ghosts
    <3> QED BY <3>1, StutterMaps DEF Scanning
  <2> QED BY <1>3, <2>1, <2>2, <2>3 DEF Harness
<1>4. CASE Eval
  <2>1. CASE (\E p \in Pos : RunAssign(p)) \/ GroupAction
    <3>1. PICK p \in Pos : \E a \in Item(p) : Drives(a, p)
      BY <2>1, WhoDrives DEF AInv, Ground, NInv, IInv
    <3>2. PICK a \in Item(p) : Drives(a, p)
      BY <3>1
    <3>3. \A c \in Input \cup Reg \cup Mem : val'[c] = val[c]
      BY <1>1, <3>2, DrivenWire
    <3>4. sampled' = sampled /\ pc' = pc /\ pc \in {"scan", "group"}
      BY <3>2 DEF Drives
    <3> QED BY <3>3, <3>4, StutterMaps DEF Scanning
  <2>2. CASE (\E p \in Pos : RunUpdate(p) \/ EnterGroup(p)) \/ GroupPass \/ NextWord
    <3>1. val' = val /\ sampled' = sampled /\ pc \in {"scan", "group"} /\ pc' \in {"scan", "group"}
      BY <2>2 DEF RunUpdate, EnterGroup, Picked, GroupPass, NextWord, Throw, wires, ghosts
    <3> QED BY <3>1, StutterMaps DEF Scanning
  <2>3. CASE EndScan
    BY <2>3, SettleMaps DEF Promise!SpecNext
  <2>4. CASE \E r \in Chain : CommitChain(r)
    BY <2>4, CommitMaps, SameNetlist DEF Promise!SpecNext
  <2>5. CASE EndRound
    BY <2>5, FinishMaps DEF Promise!SpecNext
  <2> QED BY <1>4, <2>1, <2>2, <2>3, <2>4, <2>5 DEF Eval
<1> QED BY <1>2, <1>3, <1>4 DEF Next

\* The whole engine - bitmaps, edge bits, watches, histories, groups, chains, tracer -
\* is invisible (README.md 3.6): under the same hypotheses, set() and eval() behave
\* as rounds that settle, activate on what changed between two settled states, and
\* commit every activated Update from the settled state, the earliest registered winning.
THEOREM EngineRefinesEvalSpec ==
  ASSUME Disciplined
  PROVE  Spec /\ [](errs = {}) => ImplementsEvalSpec
<1>1. Init => Promise!Start
  <2> SUFFICES ASSUME Init PROVE Promise!Start
    OBVIOUS
  <2>1. val = Initial /\ sampled = Initial /\ pc = "idle" /\ ncommit = 0
    BY DEF Init
  <2>2. [c \in Input \cup Reg \cup Mem |-> val[c]]
          = [c \in Promise!Source |-> Promise!Zero(c)]
    BY <2>1, CellFacts, SameNetlist DEF Initial
  <2>3. sampled = [c \in Promise!Cell |-> Promise!Zero(c)]
    BY <2>1, SameNetlist DEF Initial
  <2> QED BY <2>1, <2>2, <2>3 DEF Promise!Start
<1>2. AInv /\ NInv' /\ [Next]_vars /\ (errs = {})' => [Promise!SpecNext]_(Promise!specVars)
  BY StepMaps
<1> QED BY <1>1, <1>2, ActivationInductive, PendingInductive, PTL
        DEF Spec, ImplementsEvalSpec, Promise!Spec

-----------------------------------------------------------------------------
(***************************************************************************)
(* A second eval() has nothing to do.  Without a tracer an edge bit never  *)
(* outlives the activity bit set with it, so the scan that empties one     *)
(* bitmap empties the other; and nothing is set again until a chain        *)
(* commits or an input is poked.  This needs no discipline at all.         *)
(***************************************************************************)
Undebugged == ~tm /\ ~trace /\ ~mutex /\ "mutex" \notin errs
FlaggedAwake == \A p \in ebit : p \in act /\ p \notin Group /\ EdgeBitMode(Single(p))
DryCommit == pc = "commit" /\ ncommit = 0 => act = {}
Calm ==
  touched = {} =>
    /\ act = {} /\ intents = {} /\ cbits = {}
    /\ pc # "group" /\ (pc = "commit" => ncommit = 0)
QInv == Undebugged /\ FlaggedAwake /\ DryCommit /\ Calm

LEMMA WriteFlags ==
  ASSUME FlaggedAwake, NEW c \in Cell, NEW v, NEW cleared, Write(c, v, cleared),
         \A p \in cleared : p \notin ebit
  PROVE  FlaggedAwake'
<1> DEFINE w == [val EXCEPT ![c] = v]
<1>1. act' = (act \ cleared) \cup Woken(c, w) /\ ebit' = ebit \cup Flagged(c, w)
  BY DEF Write
<1> HIDE DEF w
<1>2. ASSUME NEW p \in Flagged(c, w)
      PROVE  p \in Woken(c, w) /\ p \notin Group /\ EdgeBitMode(Single(p))
  <2>1. PICK s \in Passing(c, Direction(c, w), w) : p = s[1] /\ EdgeBitMode(Single(s[1]))
    BY <1>2 DEF Flagged
  <2>2. c \notin Mem /\ w[c] # val[c]
    BY <1>2 DEF Flagged
  <2>3. p \in Woken(c, w)
    BY <2>1, <2>2 DEF Woken
  <2>4. Direction(c, w) \in Edge /\ s \in Watch[c][Direction(c, w)]
    BY <2>1 DEF Direction, Edge, Passing
  <2>5. s[1] \in Pos \ Group
    BY <2>4, WatchFacts
  <2> QED BY <2>1, <2>3, <2>5
<1> QED BY <1>1, <1>2 DEF FlaggedAwake

\* Only a scheduled Update that relies on its edge bit has one.
LEMMA FlaggedUpdate ==
  ASSUME FlaggedAwake, ebit \subseteq Pos, NEW p \in ebit
  PROVE  p \notin Group /\ IsUpdate(Single(p))
<1>1. p \in Pos /\ p \notin Group /\ Len(Events[Single(p)]) = 1
  BY DEF FlaggedAwake, EdgeBitMode
<1>2. Single(p) \in Action
  BY <1>1, ItemFacts
<1>3. Events[Single(p)] # <<>>
  BY <1>1
<1> QED BY <1>1, <1>2, <1>3, StructureAssumption

LEMMA QuiescentInit ==
  ASSUME Input \ Clock # {}, Init
  PROVE  QInv
<1>1. touched # {} /\ pc = "idle" /\ ebit = {}
  BY DEF Init
<1> QED BY <1>1 DEF Init, QInv, Undebugged, FlaggedAwake, DryCommit, Calm

LEMMA QuiescentStep ==
  ASSUME Switches = {}, QInv, NInv, [Next]_vars
  PROVE  QInv'
<1>1. /\ WiresOK /\ CommitsOK /\ ebit \subseteq Pos /\ touched \subseteq Input
      /\ \A c \in Input \cup Reg \cup Mem : c \in Cell
  BY CellFacts DEF NInv, IInv, TypeOK, WiresOK, HistoryOK
<1>2. Undebugged /\ FlaggedAwake /\ DryCommit /\ Calm
  BY DEF QInv
<1>3. CASE UNCHANGED vars
  BY <1>2, <1>3 DEF vars, wires, commits, modes, ghosts, QInv, Undebugged, FlaggedAwake, DryCommit, Calm
<1>4. CASE \E i \in Input : Set(i)
  <2>1. PICK i \in Input : Set(i)
    BY <1>4
  <2>2. PICK v \in Drive[i] : Write(i, v, {})
    BY <2>1 DEF Set
  <2>3. pc' = "idle" /\ touched' # {} /\ UNCHANGED <<tm, trace, mutex, errs>>
    BY <2>1 DEF Set, modes
  <2>4. FlaggedAwake'
    BY <1>1, <1>2, <2>2, WriteFlags
  <2> QED BY <1>2, <2>3, <2>4 DEF QInv, Undebugged, DryCommit, Calm
<1>5. CASE BeginEval
  <2>1. pc' = "scan" /\ UNCHANGED <<act, ebit, intents, cbits, touched, tm, trace, mutex, errs>>
    BY <1>5 DEF BeginEval, wires, commits, modes, ghosts
  <2> QED BY <1>2, <2>1 DEF QInv, Undebugged, FlaggedAwake, DryCommit, Calm
<1>6. CASE \E p \in Pos : RunAssign(p)
  <2>1. PICK p \in Pos : RunAssign(p)
    BY <1>6
  <2>2. /\ pc = "scan" /\ pc' = "scan" /\ p \in act /\ p \notin Group /\ ~IsUpdate(Single(p))
        /\ UNCHANGED <<touched, tm, trace, mutex, errs>>
        /\ Write(Target[Single(p)], Compute(Single(p), val), Cleared(p))
    BY <1>2, <2>1 DEF RunAssign, Picked, Undebugged, modes, ghosts
  <2>3. Target[Single(p)] \in Cell
    BY <2>2, ItemFacts, ActionFacts
  <2>4. p \notin ebit
    BY <1>1, <1>2, <2>2, FlaggedUpdate
  <2>5. FlaggedAwake'
    BY <1>2, <2>2, <2>3, <2>4, WriteFlags DEF Cleared
  <2> QED BY <1>2, <2>2, <2>5 DEF QInv, Undebugged, DryCommit, Calm
<1>7. CASE \E p \in Pos : RunUpdate(p)
  <2>1. PICK p \in Pos : RunUpdate(p)
    BY <1>7
  <2>2. /\ pc = "scan" /\ pc' \in {"scan", "idle"} /\ p \in act /\ act' = act \ {p}
        /\ ebit' = ConsumeEdge(Single(p), p)
        /\ errs' = errs \/ errs' = errs \cup {"addr"}
        /\ UNCHANGED <<touched, tm, trace, mutex>>
    BY <1>2, <2>1 DEF RunUpdate, Picked, Cleared, Throw, Undebugged, modes
  <2>3. p \in ebit => ebit' = ebit \ {p}
    BY <1>2, <2>2 DEF ConsumeEdge, UsesBit, FlaggedAwake, Undebugged
  <2>4. ebit' \subseteq ebit \ {p}
    BY <2>2, <2>3 DEF ConsumeEdge
  <2>5. FlaggedAwake'
    BY <1>2, <2>2, <2>4 DEF FlaggedAwake
  <2> QED BY <1>2, <2>2, <2>5 DEF QInv, Undebugged, DryCommit, Calm
<1>8. CASE \E p \in Pos : EnterGroup(p)
  <2>1. PICK p \in Pos : EnterGroup(p)
    BY <1>8
  <2>2. /\ pc' = "group" /\ p \in Group /\ p \in act /\ act' = act \ {p}
        /\ UNCHANGED <<ebit, touched, tm, trace, mutex, errs>>
    BY <1>2, <2>1 DEF EnterGroup, Picked, Cleared, Undebugged, modes, ghosts
  <2>3. FlaggedAwake'
    BY <1>2, <2>2 DEF FlaggedAwake
  <2> QED BY <1>2, <2>2, <2>3 DEF QInv, Undebugged, DryCommit, Calm
<1>9. CASE GroupAction
  <2>1. /\ pc = "group" /\ pc' = "group" /\ UNCHANGED <<touched, tm, trace, mutex, errs>>
        /\ grp.k <= Len(Exec[grp.pos])
        /\ Write(Target[Nth(grp.k)], Compute(Nth(grp.k), val), {})
    BY <1>9 DEF GroupAction, Nth, modes, ghosts
  <2>2. grp \in [pos : Group, k : Nat \ {0}, iter : 0..(SccIterCap - 1)]
    BY <2>1 DEF NInv, IInv, TypeOK, ControlOK
  <2>3. Target[Nth(grp.k)] \in Cell
    BY <2>1, <2>2, ItemFacts, ActionFacts, ExecAssumption DEF Nth, Item
  <2>4. FlaggedAwake'
    BY <1>2, <2>1, <2>3, WriteFlags
  <2> QED BY <1>2, <2>1, <2>4 DEF QInv, Undebugged, DryCommit, Calm
<1>10. CASE GroupPass
  <2>1. /\ pc = "group" /\ pc' # "commit"
        /\ errs' = errs \/ errs' = errs \cup {"scc"}
        /\ UNCHANGED <<act, ebit, touched, tm, trace, mutex>>
    BY <1>10 DEF GroupPass, Throw, wires, modes
  <2> QED BY <1>2, <2>1 DEF QInv, Undebugged, FlaggedAwake, DryCommit, Calm
<1>11. CASE NextWord
  <2>1. pc' = "scan" /\ UNCHANGED <<act, ebit, intents, cbits, touched, tm, trace, mutex, errs>>
    BY <1>11 DEF NextWord, wires, commits, modes, ghosts
  <2> QED BY <1>2, <2>1 DEF QInv, Undebugged, FlaggedAwake, DryCommit, Calm
<1>12. CASE EndScan
  <2>1. /\ pc' = "commit" /\ ncommit' = 0
        /\ UNCHANGED <<act, ebit, intents, cbits, touched, tm, trace, mutex, errs>>
    BY <1>12 DEF EndScan, wires, modes
  <2>2. act = {}
    <3>1. \E p : p \in Pos
      BY ExecFacts DEF Pos
    <3> QED BY <1>2, <1>12, <3>1, AllRan DEF Undebugged
  <2> QED BY <1>2, <2>1, <2>2 DEF QInv, Undebugged, FlaggedAwake, DryCommit, Calm
<1>13. CASE \E r \in Chain : CommitChain(r)
  <2>1. PICK r \in Chain : CommitChain(r)
    BY <1>13
  <2>2. /\ pc = "commit" /\ pc' = "commit" /\ touched # {} /\ ncommit \in Nat
        /\ UNCHANGED <<touched, tm, trace, mutex, errs>>
        /\ \/ UNCHANGED <<wires, ncommit>>
           \/ Write(r, Landing(r), {}) /\ ncommit' = ncommit + 1
    BY <1>1, <1>2, <2>1 DEF CommitChain, Undebugged, Calm, modes, CommitsOK
  <2>3. CASE UNCHANGED <<wires, ncommit>>
    BY <1>2, <2>2, <2>3 DEF wires, QInv, Undebugged, FlaggedAwake, DryCommit, Calm
  <2>4. CASE Write(r, Landing(r), {}) /\ ncommit' = ncommit + 1
    <3>1. r \in Cell
      BY <1>1, ChainFacts DEF Chain, IsUpdate
    <3>2. FlaggedAwake'
      BY <1>2, <2>4, <3>1, WriteFlags
    <3> QED BY <1>2, <2>2, <2>4, <3>2 DEF QInv, Undebugged, DryCommit, Calm
  <2> QED BY <2>2, <2>3, <2>4
<1>14. CASE EndRound
  <2>1. /\ pc = "commit" /\ cbits = {} /\ pc' # "commit" /\ pc' # "group"
        /\ errs' = errs \/ errs' = errs \cup {"rounds"}
        /\ UNCHANGED <<act, ebit, intents, cbits, tm, trace, mutex>>
        /\ touched' = touched \/ (ncommit = 0 /\ touched' = {})
    BY <1>14 DEF EndRound, Throw, wires, commits, modes
  <2>2. intents = {}
    BY <1>2, <2>1 DEF NInv, StrandedOnlyByMutex, NoIntentStranded, Undebugged
  <2> QED BY <1>2, <2>1, <2>2 DEF QInv, Undebugged, FlaggedAwake, DryCommit, Calm
<1>15. CASE TraceOn \/ TraceOff \/ OtherRootTrace \/ MutexSwitch
  BY <1>15 DEF TraceOn, TraceOff, OtherRootTrace, MutexSwitch
<1> QED BY <1>3, <1>4, <1>5, <1>6, <1>7, <1>8, <1>9, <1>10, <1>11, <1>12, <1>13, <1>14, <1>15
        DEF Next, Harness, Eval

\* eval() is idempotent (engine.h:64-74): on any netlist, whatever was poked and in
\* whatever order, whatever threw and was caught, once an eval() has returned normally a
\* second one finds no activity bit, no edge bit, no intent and no chain to visit.
\* The root must have an input that is not a clock, which its first poke-and-eval
\* settles, and the tracer and the mutex assertion must not be switched.
THEOREM SecondEvalIdle ==
  ASSUME Switches = {}, Input \ Clock # {}
  PROVE  Spec => []Quiescent
<1>1. Init => QInv
  BY QuiescentInit
<1>2. QInv /\ NInv /\ [Next]_vars => QInv'
  BY QuiescentStep
<1>3. QInv => Quiescent
  BY DEF QInv, FlaggedAwake, Calm, Quiescent
<1> QED BY <1>1, <1>2, <1>3, PendingInductive, PTL DEF Spec
=============================================================================
