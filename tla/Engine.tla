------------------------------- MODULE Engine -------------------------------
(***************************************************************************)
(* In::set() and Module::eval() (include/wolvicmod/sim/engine.h) on a      *)
(* netlist: rounds of a combinational phase, driven by the activity        *)
(* bitmap, and a state-update phase, driven by the chain bitmap.  One      *)
(* action per dispatched item, chain commit and phase change; a thrown     *)
(* Error unwinds to the caller and leaves the bitmaps as they were.        *)
(***************************************************************************)
EXTENDS Chains

CONSTANTS
  Drive,       \* Input -> the values the harness pokes into it
  Clock,       \* the inputs the harness pulses
  Convention,  \* "settle_then_pulse" or "free": the order of pokes and evals
  Switches     \* which debug switches the harness uses: "trace", "other", "mutex"

ASSUME DriveAssumption ==
  \A i \in Input : Drive[i] \subseteq Value /\ (i \in EventCell => Drive[i] \subseteq Bool)

VARIABLES
  val,      \* Cell -> stored value
  prev,     \* action -> slot -> EventSlot::prev
  act,      \* SimState::actBits, as a set of positions
  ebit,     \* SimState::edgeBits
  intents,  \* Updates whose intent is active (Chain::memberBits, intentActive_)
  intent,   \* action -> [row, data]: intentRow_, intent_
  cbits,    \* SimState::chainBits, as a set of chain targets
  pc,       \* where eval() is
  at,       \* word (bitmap scan) or position (full sweep) phase 1 has reached
  grp,      \* runSccGroup's locals: position, next action, iteration
  snap,     \* and the snapshot of its signals; both <<>> outside
  round, ncommit,  \* eval()'s round, SimState::committedN
  trace,    \* SimState::trace # nullptr: full sweeps
  tm,       \* watchTraceMode(), one flag for the whole process
  mutex,    \* SimState::assertUpdateMutex
  errs,     \* kinds of Error thrown so far (history)
  touched,  \* inputs poked since the last completed eval (history)
  sampled   \* val when phase 1 last finished (history)

wires == <<val, prev, act, ebit>>
commits == <<intents, intent, cbits, ncommit, chainVars>>
modes == <<trace, tm, mutex>>
locals == <<grp, snap>>
ghosts == <<errs, touched, sampled>>
vars == <<wires, commits, pc, at, locals, round, modes, ghosts>>

Initial == [c \in Cell |-> IF c \in Mem THEN [r \in Row |-> 0] ELSE 0]

\* elaborate(): histories read the initial values, every position is active.
Init ==
  /\ val = Initial
  /\ prev = [a \in Action |-> [i \in DOMAIN Events[a] |-> 0]]
  /\ act = Pos /\ ebit = {}
  /\ intents = {} /\ intent = [a \in Action |-> [row |-> 0, data |-> 0]]
  /\ cbits = {} /\ ncommit = 0 /\ ChainInit
  /\ pc = "idle" /\ at = 0 /\ grp = <<>> /\ snap = <<>> /\ round = 0
  /\ trace = FALSE /\ tm = FALSE /\ mutex = FALSE
  /\ errs = {} /\ touched = Input \ Clock /\ sampled = Initial

-----------------------------------------------------------------------------
(***************************************************************************)
(* A write site: cell c goes from val[c] to w[c] (markDirty,               *)
(* markDirtyBool).  A word has no watchers, so one rule serves both.       *)
(***************************************************************************)
Direction(c, w) == IF w[c] # 0 THEN "posedge" ELSE "negedge"
Passing(c, k, w) == {s \in Watch[c][k] : GuardPass(Single(s[1]), w)}

\* Positions whose activity bit is set.  A row write marks the whole Mem,
\* whatever it stores; elsewhere an unchanged value wakes nobody.
\* (WokenOnRise, and every operator named like the one it precedes, is that
\* operator with a slip in it.  Nothing uses these: they are the alternatives
\* the properties below have to tell from the code.)
WokenOnRise(c, w) ==
  IF c \in Mem THEN Deps[c]
  ELSE IF w[c] = val[c] THEN {}
  ELSE (IF w[c] # 0 THEN Deps[c] ELSE {})
       \cup {s[1] : s \in Passing(c, Direction(c, w), w)}
WokenWatchers(c, w) ==
  IF c \in Mem THEN Deps[c]
  ELSE IF w[c] = val[c] THEN {}
  ELSE IF Watch[c]["posedge"] \cup Watch[c]["negedge"] = {} THEN Deps[c]
  ELSE {s[1] : s \in Passing(c, Direction(c, w), w)}
Woken(c, w) ==
  IF c \in Mem THEN Deps[c]
  ELSE IF w[c] = val[c] THEN {}
  ELSE Deps[c] \cup {s[1] : s \in Passing(c, Direction(c, w), w)}

\* Positions whose edge bit is set: the fact an edge-bit Update tests.
Flagged(c, w) ==
  IF c \in Mem \/ w[c] = val[c] \/ tm THEN {}
  ELSE {s[1] : s \in {u \in Passing(c, Direction(c, w), w) : EdgeBitMode(Single(u[1]))}}

\* Histories the write site advances: skipped by the guard, or the other edge.
SkippedNever(c, w) == {}
Skipped(c, w) ==
  IF c \in Mem \/ w[c] = val[c] THEN {}
  ELSE {s \in Watch[c]["posedge"] \cup Watch[c]["negedge"] :
          /\ s \notin Passing(c, Direction(c, w), w)
          /\ tm \/ ~EdgeBitMode(Single(s[1]))}
Advance(c, w) ==
  [a \in Action |-> [i \in DOMAIN Events[a] |->
     IF \E s \in Skipped(c, w) : Single(s[1]) = a /\ s[2] = i THEN w[c] ELSE prev[a][i]]]

\* Cell c takes value v; `cleared` is the activity bit consumed in this step.
Write(c, v, cleared) ==
  LET w == [val EXCEPT ![c] = v] IN
  /\ val' = w
  /\ act' = (act \ cleared) \cup Woken(c, w)
  /\ ebit' = ebit \cup Flagged(c, w)
  /\ prev' = Advance(c, w)

-----------------------------------------------------------------------------
(***************************************************************************)
(* The harness, between evals.                                             *)
(***************************************************************************)

\* "poke inputs + eval, then poke clock + eval" (entity.h:149-152).
MayDrive(i) ==
  \/ Convention = "free"
  \/ IF i \in Clock THEN touched = {} ELSE touched \cap Clock = {}

\* In::set(); driving the value already there returns early.
Set(i) ==
  /\ pc = "idle" /\ MayDrive(i)
  /\ \E v \in Drive[i] \ {val[i]} : Write(i, v, {})
  /\ touched' = touched \cup {i}
  /\ UNCHANGED <<commits, pc, at, locals, round, modes, errs, sampled>>

\* A settled harness flips its switches right after an eval().
MaySwitch == pc = "idle" /\ (Convention = "free" \/ touched = {})

\* Module::traceOn(): histories of scheduled Updates are read afresh.
TraceOn ==
  /\ "trace" \in Switches /\ MaySwitch
  /\ trace' = TRUE /\ tm' = TRUE
  /\ prev' = [a \in Action |-> [i \in DOMAIN Events[a] |-> val[Canon[Events[a][i].sig]]]]
  /\ UNCHANGED <<val, act, ebit, commits, pc, at, locals, round, mutex, ghosts>>

TraceOff ==
  /\ "trace" \in Switches /\ MaySwitch
  /\ trace' = FALSE /\ tm' = FALSE
  /\ UNCHANGED <<wires, commits, pc, at, locals, round, mutex, ghosts>>

\* Another root in the process switches its own trace: the flag is shared.
OtherRootTrace ==
  /\ "other" \in Switches /\ MaySwitch
  /\ tm' = ~tm
  /\ UNCHANGED <<wires, commits, pc, at, locals, round, trace, mutex, ghosts>>

\* assertUpdateMutexOn() / Off().
MutexSwitch ==
  /\ "mutex" \in Switches /\ MaySwitch
  /\ mutex' = ~mutex
  /\ UNCHANGED <<wires, commits, pc, at, locals, round, trace, tm, ghosts>>

-----------------------------------------------------------------------------
(***************************************************************************)
(* Phase 1: the bitmap scan takes the lowest bit of the word it is at and  *)
(* never returns to a lower word; with a tracer it sweeps every position.  *)
(***************************************************************************)
ScanStartAtOne == 1
ScanStart == IF trace THEN 1 ELSE 0

Picked(p) ==
  /\ pc = "scan" /\ p \in Pos
  /\ IF trace THEN p = at
     ELSE p \in act /\ Word(p) = at /\ \A q \in act : Word(q) = at => p <= q
Cleared(p) == IF trace THEN {} ELSE {p}
Passed == at' = IF trace THEN at + 1 ELSE at

BeginEval ==
  /\ pc = "idle"
  /\ pc' = "scan" /\ at' = ScanStart /\ round' = 0
  /\ UNCHANGED <<wires, commits, locals, modes, ghosts>>

\* AssignAction::run(): a value that did not change wakes nobody.
RunAssign(p) ==
  /\ Picked(p) /\ p \notin Group /\ ~IsUpdate(Single(p))
  /\ Write(Target[Single(p)], Compute(Single(p), val), Cleared(p))
  /\ Passed
  /\ UNCHANGED <<commits, pc, locals, round, modes, ghosts>>

Throw(kind) == errs' = errs \cup {kind} /\ pc' = "idle"

\* UpdateAction::run(): edge detection, guard, then the intent.
UsesBit(a) == EdgeBitMode(a) /\ ~tm
HitOnLevel(a, i, p) ==
  IF UsesBit(a) THEN p \in ebit
  ELSE (Events[a][i].kind = "posedge") = (val[Canon[Events[a][i].sig]] # 0)
Hit(a, i, p) ==
  IF UsesBit(a) THEN p \in ebit
  ELSE Rises(Events[a][i].kind, prev[a][i], val[Canon[Events[a][i].sig]])
Active(a, p) == (\E i \in DOMAIN Events[a] : Hit(a, i, p)) /\ GuardPass(a, val)
Address(a) == IF Target[a] \in Mem THEN val[Canon[Addr[a]]] ELSE 0

ConsumeEdge(a, p) == IF UsesBit(a) THEN ebit \ {p} ELSE ebit

RunUpdateBlocking(p) ==
  LET a == Single(p) IN
  /\ Picked(p) /\ p \notin Group /\ IsUpdate(a)
  /\ IF Active(a, p)
     THEN /\ Write(Target[a], Compute(a, val), Cleared(p))
          /\ intents' = intents \cup {a} /\ cbits' = cbits \cup {Target[a]}
          /\ intent' = [intent EXCEPT ![a].data = Compute(a, val)]
     ELSE act' = act \ Cleared(p) /\ UNCHANGED <<val, prev, ebit, intents, cbits, intent>>
  /\ SetIntent(a, Active(a, p))
  /\ Passed
  /\ UNCHANGED <<ncommit, pc, locals, round, modes, ghosts>>
RunUpdate(p) ==
  LET a == Single(p) IN
  /\ Picked(p) /\ p \notin Group /\ IsUpdate(a)
  /\ act' = act \ Cleared(p)
  /\ ebit' = ConsumeEdge(a, p)
  /\ prev' = IF UsesBit(a) THEN prev
             ELSE [prev EXCEPT ![a] =
                     [i \in DOMAIN Events[a] |-> val[Canon[Events[a][i].sig]]]]
  /\ intents' = IF Active(a, p) THEN intents \cup {a} ELSE intents \ {a}
  /\ cbits' = IF Active(a, p) /\ a \notin intents THEN cbits \cup {Target[a]} ELSE cbits
  /\ SetIntent(a, Active(a, p))
  /\ IF Active(a, p) /\ Target[a] \in Mem /\ Address(a) \notin Row
     THEN Throw("addr") /\ UNCHANGED <<intent, at>>
     ELSE /\ intent' = IF Active(a, p)
                       THEN [intent EXCEPT ![a] = [row |-> Address(a), data |-> Compute(a, val)]]
                       ELSE intent
          /\ Passed /\ UNCHANGED <<pc, errs>>
  /\ UNCHANGED <<val, ncommit, locals, round, modes, touched, sampled>>

\* runSccGroup(): iterate the group's actions until a pass changes nothing.
EnterGroup(p) ==
  /\ Picked(p) /\ p \in Group
  /\ pc' = "group" /\ grp' = [pos |-> p, k |-> 1, iter |-> 0] /\ snap' = val
  /\ act' = act \ Cleared(p)
  /\ UNCHANGED <<val, prev, ebit, commits, at, round, modes, ghosts>>

GroupAction ==
  /\ pc = "group" /\ grp.k <= Len(Exec[grp.pos])
  /\ LET a == Exec[grp.pos][grp.k] IN Write(Target[a], Compute(a, val), {})
  /\ grp' = [grp EXCEPT !.k = @ + 1]
  /\ UNCHANGED <<snap, commits, pc, at, round, modes, ghosts>>

ChangedFirst == LET a == Exec[grp.pos][1] IN val[Target[a]] # snap[Target[a]]
Changed == \E a \in Item(grp.pos) : val[Target[a]] # snap[Target[a]]

ItersExhausted == grp.iter + 1 >= SccIterCap

GroupPass ==
  /\ pc = "group" /\ grp.k > Len(Exec[grp.pos])
  /\ \/ /\ ~Changed
        /\ pc' = "scan" /\ grp' = <<>> /\ snap' = <<>> /\ Passed /\ UNCHANGED errs
     \/ /\ Changed /\ ItersExhausted
        /\ Throw("scc") /\ grp' = <<>> /\ snap' = <<>> /\ UNCHANGED at
     \/ /\ Changed /\ ~ItersExhausted
        /\ grp' = [grp EXCEPT !.k = 1, !.iter = @ + 1] /\ snap' = val
        /\ UNCHANGED <<pc, at, errs>>
  /\ UNCHANGED <<wires, commits, round, modes, touched, sampled>>

ScanDoneEarly ==
  /\ pc = "scan"
  /\ IF trace THEN at > Len(Exec) ELSE at >= LastWord
ScanDone ==
  /\ pc = "scan"
  /\ IF trace THEN at > Len(Exec) ELSE at > LastWord

NextWordEager ==
  /\ pc = "scan" /\ ~trace /\ at <= LastWord
  /\ at' = at + 1
  /\ UNCHANGED <<wires, commits, pc, locals, round, modes, ghosts>>
NextWordUnbounded ==
  /\ pc = "scan" /\ ~trace /\ \A q \in act : Word(q) # at
  /\ at' = at + 1
  /\ UNCHANGED <<wires, commits, pc, locals, round, modes, ghosts>>
NextWord ==
  /\ pc = "scan" /\ ~trace /\ at <= LastWord /\ \A q \in act : Word(q) # at
  /\ at' = at + 1
  /\ UNCHANGED <<wires, commits, pc, locals, round, modes, ghosts>>

EndScan ==
  /\ ScanDone
  /\ pc' = "commit" /\ ncommit' = 0 /\ sampled' = val
  /\ UNCHANGED <<wires, intents, intent, cbits, chainVars, at, locals, round, modes, errs, touched>>

-----------------------------------------------------------------------------
(***************************************************************************)
(* Phase 2: chains with a bit set, in chain order.                         *)
(***************************************************************************)
RaisedWinner(r) == {a \in Updates(r) \cap intents : \A b \in Updates(r) \cap intents : a <= b}
Raised(r) == Updates(r) \cap intents

Latest(S) == CHOOSE a \in S : \A b \in S : b <= a
LandingLatest(r) ==
  IF r \in Mem
  THEN [x \in Row |-> LET here == {a \in Raised(r) : intent[a].row = x} IN
          IF here = {} THEN val[r][x] ELSE intent[Latest(here)].data]
  ELSE intent[Latest(Raised(r))].data

\* Intents are applied latest-registered first: the earliest lands last, on
\* a Reg as a whole and on a Mem row by row.
Landing(r) ==
  IF r \in Mem
  THEN [x \in Row |-> LET here == {a \in Raised(r) : intent[a].row = x} IN
          IF here = {} THEN val[r][x] ELSE intent[Earliest(here)].data]
  ELSE intent[Earliest(Raised(r))].data

CommitChain(r) ==
  /\ pc = "commit" /\ r \in cbits
  /\ \A s \in cbits \ {r} : ChainBefore(r, s)
  /\ cbits' = cbits \ {r}
  /\ CommitReg(r, intent, mutex)
  /\ \/ /\ Raised(r) = {}
        /\ UNCHANGED <<wires, intents, ncommit, pc, errs>>
     \/ /\ mutex /\ Cardinality(Raised(r)) > 1
        /\ Throw("mutex")
        /\ UNCHANGED <<wires, intents, ncommit>>
     \/ /\ Raised(r) # {} /\ (mutex => Cardinality(Raised(r)) = 1)
        /\ Write(r, Landing(r), {})
        /\ intents' = intents \ Raised(r) /\ ncommit' = ncommit + 1
        /\ UNCHANGED <<pc, errs>>
  /\ UNCHANGED <<intent, at, locals, round, modes, touched, sampled>>

RoundsExhaustedLate == round + 1 > RoundCap
RoundsExhausted == round + 1 >= RoundCap

\* A round that committed nothing ends eval(); otherwise another round, to a cap.
EndRoundUncounted ==
  /\ pc = "commit" /\ cbits = {}
  /\ pc' = (IF ncommit = 0 THEN "idle" ELSE "scan") /\ at' = ScanStart
  /\ UNCHANGED <<wires, commits, locals, round, modes, ghosts>>
EndRoundOnce ==
  /\ pc = "commit" /\ cbits = {}
  /\ pc' = "idle" /\ touched' = {}
  /\ UNCHANGED <<wires, commits, at, locals, round, modes, errs, sampled>>
EndRound ==
  /\ pc = "commit" /\ cbits = {}
  /\ \/ /\ ncommit = 0
        /\ pc' = "idle" /\ touched' = {} /\ UNCHANGED <<at, round, errs>>
     \/ /\ ncommit > 0 /\ RoundsExhausted
        /\ Throw("rounds") /\ UNCHANGED <<at, round, touched>>
     \/ /\ ncommit > 0 /\ ~RoundsExhausted
        /\ pc' = "scan" /\ at' = ScanStart /\ round' = round + 1
        /\ UNCHANGED <<errs, touched>>
  /\ UNCHANGED <<wires, commits, locals, modes, sampled>>

-----------------------------------------------------------------------------
Harness ==
  \/ \E i \in Input : Set(i)
  \/ TraceOn \/ TraceOff \/ OtherRootTrace \/ MutexSwitch
  \/ BeginEval

Eval ==
  \/ \E p \in Pos : RunAssign(p) \/ RunUpdate(p) \/ EnterGroup(p)
  \/ GroupAction \/ GroupPass \/ NextWord \/ EndScan
  \/ \E r \in Chain : CommitChain(r)
  \/ EndRound

Next == Harness \/ Eval
Spec == Init /\ [][Next]_vars

\* eval() is a sequential loop: once called it keeps running.
FairSpec == Spec /\ WF_vars(Eval)

-----------------------------------------------------------------------------
(***************************************************************************)
(* Properties.                                                             *)
(***************************************************************************)
WiresOK ==
  /\ IsValuation(val)
  /\ DOMAIN prev = Action /\ \A a \in Action : prev[a] \in [DOMAIN Events[a] -> Value]
  /\ act \subseteq Pos /\ ebit \subseteq Pos
CommitsOK ==
  /\ intents \subseteq {a \in Action : IsUpdate(a)}
  /\ intent \in [Action -> [row : Value, data : Value]]
  /\ \A a \in Action : Target[a] \in Mem => intent[a].row \in Row
  /\ cbits \subseteq Chain /\ ncommit \in Nat
ControlOK ==
  /\ pc \in {"idle", "scan", "group", "commit"}
  /\ at \in 0..(Len(Exec) + 1)
  /\ IF pc = "group"
     THEN /\ grp \in [pos : Group, k : Nat \ {0}, iter : 0..(SccIterCap - 1)]
          /\ grp.k <= Len(Exec[grp.pos]) + 1
          /\ at = IF trace THEN grp.pos ELSE Word(grp.pos)
          /\ IsValuation(snap)
     ELSE grp = <<>> /\ snap = <<>>
  /\ round \in 0..(RoundCap - 1)
HistoryOK ==
  /\ trace \in BOOLEAN /\ tm \in BOOLEAN /\ mutex \in BOOLEAN
  /\ errs \subseteq {"addr", "scc", "mutex", "rounds"}
  /\ touched \subseteq Input /\ IsValuation(sampled)

\* Every variable stays in its type; the counters stay under their caps, and
\* no intent on a Mem ever carries a row outside it.
TypeOK == WiresOK /\ CommitsOK /\ ControlOK /\ HistoryOK

\* An SCC group that was never left unsettled by an iteration-cap error.
Sound(p) == p \in Group => "scc" \notin errs
InGroup(p) == pc = "group" /\ grp.pos = p

\* The dirty-driven invariant (engine.h:69-74): a position whose activity bit
\* is clear needs no evaluation - all its assignments already hold.
CleanIsSettled ==
  \A p \in Pos \ act : Sound(p) /\ ~InGroup(p) => SettledItem(p, val)

\* The bitmap scan never returns to a word it has left, and never has to: no
\* activity bit is set behind it, whatever phase 1 writes (graph.h:403-411).
NothingLeftBehind ==
  pc \in {"scan", "group"} /\ ~trace => \A p \in act : Word(p) >= at

\* Phase 2 works on a settled combinational state (engine.h:64-67).
SampleSettled ==
  pc = "commit" => \A p \in Pos : Sound(p) => SettledItem(p, sampled)

\* Non-blocking assignment: whatever has committed already, the intents still
\* pending are the values computed from the state before phase 2.
NonBlocking ==
  pc = "commit" /\ errs = {} =>
    \A a \in intents :
      /\ intent[a].data = Compute(a, sampled)
      /\ Target[a] \in Mem => intent[a].row = sampled[Canon[Addr[a]]]

\* Phase 2 visits only chains whose bit is set; an intent never waits on a
\* chain whose bit is clear, which would stay uncommitted for good.
NoIntentStranded == \A a \in intents : Target[a] \in cbits

\* Only the mutex assertion, which throws between clearing a chain's bit and
\* clearing its intents, can break that; every other caught Error keeps it.
StrandedOnlyByMutex == "mutex" \notin errs => NoIntentStranded

\* Whichever way a Reg's chain keeps them, and whatever was poked, traced, thrown
\* and caught before: the intents that are up are those activated, the chain's bit is
\* set when Engine says so, and after a commit next_ is the value of the earliest
\* intent (graph.h:475-480).
WaysAgree ==
  \A r \in RegChain :
    /\ UpIn(r) = Raised(r)
    /\ r \in notified <=> r \in cbits
    /\ next[r] = val[r]

\* With the assertion off, phase 2 applies every activated Update: when it has
\* visited the chains whose bit is set, no intent is left (README.md 3.8).
CommitsAllActivated == pc = "commit" /\ cbits = {} /\ ~mutex => intents = {}

\* eval() is idempotent: once it has returned and no input was poked, nothing
\* is left for a second call to run, to detect or to commit.
Quiescent ==
  pc = "idle" /\ touched = {} /\ ~trace =>
    act = {} /\ ebit = {} /\ intents = {} /\ cbits = {}

\* An Update activates exactly when one of its events occurred between the
\* previous round's settled state and this one, and its guard holds in this one.
Occurred(a, old, new) ==
  \E i \in DOMAIN Events[a] :
    LET c == Canon[Events[a][i].sig] IN Rises(Events[a][i].kind, old[c], new[c])
ActivationExact ==
  [][EndScan => intents' = {a \in Action : Occurred(a, sampled, val) /\ GuardPass(a, val)}]_vars

\* When that is so.  The edge filter sees a guard at the moment of the write, a watch
\* stands for one event, and a signal driven by a group has none: an Update is exact
\* if no more than one of its events is on a watched cell, if it does not rely on an edge
\* bit nobody sets, and if its guards cannot change once a watched event has occurred.
Closed(D) == \A a \in Action : ~IsUpdate(a) /\ Reads(a) \cap D # {} => Target[a] \in D
Beyond(S, g) == \E D \in SUBSET Cell : S \subseteq D /\ Closed(D) /\ g \notin D
GuardFirst(c, g) ==
  \/ g = c
  \/ IF c \in Input THEN Beyond({c}, g)
     ELSE IF c \in Reg THEN Beyond(Reg \cup Mem, g)
     ELSE \A p \in Producer(c), q \in Producer(g) : q < p
ExactEvents ==
  \A a \in Action : \A i \in DOMAIN Events[a] :
    LET c == Canon[Events[a][i].sig] IN
    /\ WatchSlot(a, c) \in {{}, {i}}
    /\ EdgeBitMode(a) => WatchSlot(a, c) # {}
    /\ WatchSlot(a, c) # {} =>
         (c \in Input => c \in Clock) /\ \A g \in Guard[a] : GuardFirst(c, Canon[g])

\* A harness that keeps to the convention of entity.h:149-152, runs its first eval()
\* before its first pulse, and shares its process with no root that traces.
Disciplined ==
  /\ ExactEvents
  /\ Convention = "settle_then_pulse" /\ Input \ Clock # {} /\ "other" \notin Switches

\* The dispatch machinery is invisible: the engine implements EvalSpec, seen
\* through its stored state, the last settled state and the pending intents.
Promise == INSTANCE EvalSpec WITH
  src <- [c \in Input \cup Reg \cup Mem |-> val[c]],
  vis <- sampled,
  fired <- IF pc = "commit" THEN intents ELSE {},
  phase <- IF pc \in {"scan", "group"} THEN "eval" ELSE pc,
  again <- pc = "commit" /\ ncommit > 0
ImplementsEvalSpec == Promise!Spec

\* eval() returns to its caller, normally or with an Error.
Returns == pc # "idle" ~> pc = "idle"
=============================================================================
