# wolvicmod, modelled in TLA+

wolvicmod is a header-only C++ library for cycle-level hardware models. A user
derives `Module` classes, declares ports, wires, registers and memories, attaches
*actions* (an `Assign` computes a signal, an `Update` computes the next value of a
`Reg` or of one `Mem` row on a clock edge), elaborates the root module and then
drives it: `in.set(v)`, `root.eval()`, read the outputs.

The heart of the library is `Module::eval()`. It promises the semantics of
evaluating everything, and does as little as it can: it dispatches only positions
whose activity bit is set, learns of clock edges from bits left at the write site,
never looks back in the bitmap, and commits only priority chains whose bit is set.
This project models that machinery, from the construction of modules over elaboration
to evaluation, states the promises apart from it, checks the one against the other,
and proves the invariants the machinery rests on.

Paths below are relative to `include/wolvicmod/` unless they say otherwise.
`README.md:n` is a line of the repository's README.

## 1. Inventory

| Component | State | Operations | Correct when |
|---|---|---|---|
| **eval engine** `sim/engine.h`, `sim/errors.h` | activity, edge and chain bitmaps; intents; round and commit counts | `eval()`: bitmap scan or full sweep, `runSccGroup`, `commitChain`, round loop; throws `Error` | a settled state before every commit; each Update activates exactly on its events; non-blocking commits; earliest registration wins; returns; idempotent |
| **write sites** `core/entity.h` | values; process-wide `watchTraceMode()` | `markDirty`, `markDirtyBool`, `watchOf` | every consumer of a changed value is woken; a filtered Update loses no edge |
| **actions** `core/action.h`, `core/edge.h` | `EventSlot::prev`, `edgeBit_`, `intent_`, `intentRow_`, member bit | `run()`, `notifyIntent`, `registerEdgeWatch`, builders | one intent per activation; histories agree with the last state seen |
| **signals, Reg, Mem** `core/signal.h`, `core/reg.h`, `core/mem.h` | storage cells, pending commits | `set`, `commit`, `commitRow` | change detection feeds the bitmaps |
| **elaborated structures** `elab/graph.h` | `execOrder`, dependency pool, watch lists, chains | `buildExecOrder`, Tarjan, scheduler, chain building | producers before consumers; no dependent missing; groups made of Assigns only |
| **flattening** `elab/flatten.h` | canonical source of each entity | one-driver check, alias elimination | aliases fully compressed, cycles keep one closing copy |
| **elaborate()** `elab/elaborate.h` | `SimState` of the root | flatten, build, initialise histories | everything dirty, histories equal to initial values |
| **modules** `core/module.h` | module tree, context stack, `In` | constructors, `create*`, destructors, `set()`, `eval()` | actions belong to the module being constructed, whatever constructors throw; an elaborated module's stay what they are |
| **trace** `dbg/trace.h` | `SimState::trace`, trace flag | `traceOn`, `traceOff` | tracing does not change results |
| **mutex assertion, read audit** `dbg/audit.h` | switch, frame of declared reads | on/off, `auditRun`, `auditCheck` | reports, and changes nothing else |
| **waveforms** `wave/*.h` | last values, time | open, sample, close | monotonic time |
| **prefab modules** `prefab/*.h` | Regs and Mems of a Queue, arbiters, pipe | ordinary wolvicmod actions | FIFO order, fairness, no loss |
| expressions, collect, probes, statistics | none that feeds back | | |
| tests, co-simulation generators, third-party code | | | |

**How they interact.** Everything is one thread. Registration fills vectors of
actions; `elaborate()` turns them into the structures of `SimState`; from there on
control is always `harness -> set()/eval() -> action -> write site -> bitmaps ->
eval()`. The interleaving that matters is therefore not of threads but of *calls*:
which pokes happen between two evals, in which order actions are dispatched and
chains committed, and what an `Error` thrown in the middle leaves behind for the
next call. The one thing shared between roots is the flag behind `watchTraceMode()`.

**What is hard to test.** `PROJECT.json` lists the hazards with their lines. In
short: (a) an activity bit missing for one consumer leaves a stale value for good;
(b) a bit set behind the scan is not seen; (c) edges are recorded at the write site
and tested later, under a guard, a history or a trace flag that may have changed
since; (d) commits change values other pending intents were computed from; (e)
Errors unwind between two related updates of the bitmaps; (f) caps and loops.

## 2. Modules

| Module | Models |
|---|---|
| `Registration`, `MCRegistration` | `core/module.h`: constructors, the context stack, creation of entities and children, Errors and destruction, the wiring rules of `core/action.h`, what `elaborate()` asks and clears |
| `Aliases` | `elab/flatten.h`: one-driver check, union-find over identity copies, binding of storage; ends in what `Netlist` assumes of `Canon` |
| `Tarjan` | the strongly connected components of the evaluation graph, `elab/graph.h:117-161` |
| `Scheduler` | the type-greedy topological scheduler, `elab/graph.h:222-306` |
| `LinearExtension` | the promise of the scheduler: some linear extension of the condensation |
| `ExecOrder` | `buildExecOrder()` as a whole: graph, Tarjan, condensation, Scheduler, items; ends in what `Netlist` assumes of `Exec` and `Group` |
| `Elaboration`, `MCElaboration` | `elaborate()` on a flat model: `Aliases`, then `ExecOrder` over the cells it leaves |
| `Netlist` | `SimState`'s fixed structures as CONSTANTS with assumptions; reads, dependency map, watch lists, eligibility, chains, the settled predicate |
| `Engine` | `In::set()`, every step of `eval()`, the debug switches; the properties |
| `Chains` | the three ways in which a Reg's chain keeps and commits its intents (`elab/graph.h:461-512`) |
| `EvalSpec` | the promise: settle, activate, commit, repeat - no bitmaps, no order of dispatch, no edge facts |
| `MCCounter`, `MCCascade`, `MCModes`, `MCFaults`, `MCSccClock`, `MCAliasEdges` | netlists to run the engine on |
| `Channel` | `prefab/valid.h`: the bundle on a channel, and the clock the prefab modules share |
| `Queue` | `prefab/queue.h`: ring, announced ports, fire conditions, gated Update |
| `Fifo` | the promise of a Queue: a bounded FIFO at its ports, once per clock cycle |
| `ValidPipe`, `DelayLine` | `prefab/pipe.h`, and the N-cycle delay it promises |
| `Drain`, `MCDrain` | a Queue whose output, when it fires, feeds a ValidPipe on the same clock |
| `Arbiters`, `MCArbiters` | `prefab/arb.h`: both arbiters on the same requesters |
| `EngineProofs`, `ActivationProofs`, `GraphProofs`, `ExecOrderProofs`, `ElaborationProofs`, `RegistrationProofs`, `DrainProofs`, `ArbitersProofs` | the theorems |

`ExecOrder` extends `Tarjan` and `Scheduler`; `Elaboration` extends `ExecOrder` and
instantiates `Aliases`; `Engine` extends `Chains`, which
extends `Netlist`; `Drain` extends `Queue` and `ValidPipe`. Elaboration is over before
the first `eval()`, so `Elaboration` and `Engine` share no step: what `Netlist` assumes of
`Canon`, `Target`, `Exec` and `Group` is stated of the end of elaboration as
`EngineReady`, checked by the run `elaboration` and proved for every flat model
(`ElaborationFeedsEngine`). The prefab modules stand on the promise of the engine
(an Update runs on its edge when its guard holds, reading one settled state) and not on
its bitmaps, so that they can be modelled, and used by others, without it.

### Correspondence

* A bool is 0 or 1, a word is a number of `Value`, a `Mem` a function from `Row`. A
  user's lambda is the constant `Fn(action, view)`, a function of exactly the values
  of the declared reads: an action of the library gets nothing else.
* An action is its registration index, so "registered earlier" is `<`. `Canon` maps
  an entity to the storage it is aliased to. Names before aliasing stay visible
  because the eligibility check of `core/action.h` compares them before aliasing.
* `act`, `ebit`, `cbits` are the bitmaps as sets of positions or chain targets. The
  words of the activity bitmap are kept (`Word(p)`, `WordBits`), because the scan
  never goes back to a word it has left.
* `pc`, `at`, `round`, `ncommit`, `grp`, `snap` are `eval()`'s and `runSccGroup()`'s
  locals. One action of the model is one dispatched item, one member of a
  group pass, one chain commit or one change of phase:
  `BeginEval`, `RunAssign`, `RunUpdate`, `EnterGroup`, `GroupAction`, `GroupPass`,
  `NextWord`, `EndScan`, `CommitChain`, `EndRound`.
* `Write` is `markDirty`/`markDirtyBool`: activity bits (`Woken`), edge bits
  (`Flagged`) and the histories a filtered watcher advances (`Skipped`). It is part
  of every action that stores a value, `set()` and commits included.
* `Engine` knows pending intents as one set. `RunUpdate` and `CommitChain` also take the
  step of `Chains` (`SetIntent`, `CommitReg`), the code's own data for a Reg: a word of member bits in the chain when it has at most 64 members
  of a type copied as bytes, the members' `intentActive_` flags polled when it has more,
  virtual calls for other types. Both run from the same events and guards;
  nothing of `Engine`'s set decides what the three do.
* A thrown `Error` is `Throw(kind)`: control goes back to the harness, the
  bitmaps stay as they are. The harness catches it and may go on, as
  `tests/test_audit.cpp:204-208` does.
* `Set`, `TraceOn`, `TraceOff`, `OtherRootTrace`, `MutexSwitch`, `BeginEval` are the
  calls of the harness. `OtherRootTrace` is another root flipping the flag both share.
* `errs`, `touched`, `sampled` are history variables; no guard of the engine
  reads them (`touched` restricts the harness, see below).

Names ending in a slip - `WokenOnRise`, `ScanDoneEarly`, `EndRoundOnce`,
`RoundsExhaustedLate`, `LeadsToState`, `IsStaleStale`, `FreshTwice` and the like - are alternatives to the operator they stand
next to, each with one plausible mistake. No action uses them. They are there to
show that each property tells the code from the mistake.

Elaboration:

* In `Aliases`, one action is one turn of a loop; `canon` is the union-find forest,
  `store` says whose inline cell an entity reads and writes after `aliasStorageTo()`.
* Entities are numbers 1..E and actions the numbers after them, in registration order,
  as the nodes of the evaluation graph are in the code. `act[a]` keeps what elaboration
  looks at: target, reads, `aliasSource()`, kind, and the type the scheduler groups by.
* `Tarjan` runs `strongConnect()` one edge and one return at a time; the C++ call stack
  is the variable `calls`, whose top knows the edges left to follow. A component's
  number is its place in `comps`.
* `Scheduler` has one action per turn of `buildExecOrder()`'s loops: `Push` is
  `pushComp`, `Emit` and `Unblock` are `emit`. A ready component waits in `seq` and in
  `byTag` at once, so the entry in one goes stale when it is taken from the other:
  `SkipSameType` and `SkipOldest` are the lazy removal of stale entries.
* `phase` follows `elaborate()`: "aliases", "graph", "scc", "schedule", then "done",
  "rejected" (a driver too few or too many) or "failed" (a cycle through a type without
  `operator==`). `topoAt` is the loop over `topo` that builds the items.

Registration:

* `ctxStack` is the `thread_local` stack; `running` is the C++ stack of constructors,
  which the code does not have as data. `life` and `maker` are the lifetime of objects:
  who is unwound with whom. `maker` is the owner, the module `createChildModule()` is
  called on or the constructor a nested root is local to.
* `createChildModule()` is public and tests for nothing but a fresh name: `BeginChild` may
  be called on any live module, be it elaborated, from outside or from another module's
  constructor. The same holds of `Create`, and `Register` needs a context only. `Late`
  says whether a program does such things.
* `Throw` is an Error leaving a constructor at any moment; the object and all it owns
  are destroyed, which purges the stack, and whoever ran the constructor may catch it
  and go on. An operation that only reports an Error changes nothing and is no step.

Prefab modules:

* `Queue`, `ValidPipe` and `Arbiters` have one operator per combinational action
  under its C++ name (`deq`, `enq_rdy`, `fire`, `w_chg`, `w_live`, `w_out_fire`, ...), one action per
  input and `Posedge` for the one Update with its guard. `Flow` and `Pipe` are the fields
  of `mode`. The clock level is a variable of the Queue and the pipe although only its
  rising edge matters: a clock that the gate suppresses is then still a visible
  step, and the refinement has to show that it had nothing to do.
* In `Drain` both Updates run in one step and read the state before it, as
  phase 2 of the engine commits them; the pipe has no backpressure, so it is fed
  `valid` only when the queue's channel fires.
* Arbiter operators take the set of valid requesters, so that a property can ask
  what they would say of another one. `passed` is a history: grants RRArb gave to
  others while a requester kept asking. Payloads follow `chosen` and are left out.

### Harness conventions

`Convention = "settle_then_pulse"` is the one in the comment at
`core/entity.h:149-152`: poke data, eval, poke a clock, eval.
`Convention = "free"` pokes anything at any time. A Clock is poked at most once
between evals in the first (README.md:386).

## 3. Runs

| Run | What it asks | Outcome |
|---|---|---|
| `counter` | On a guarded counter with an asynchronous reset, an aliased enable and an Update on two events, does `eval()` implement `EvalSpec`, and does an Update activate exactly on its events? Tracing switched between settled evals. | holds |
| `cascade` | The same with a divided clock, a gated clock, a Mem two Updates compete for and a combinational cycle: several rounds per eval. Plus: nothing is left behind the scan, phase 2 starts settled, a returned eval leaves no work. | holds |
| `modes` | Pokes in any order, this root's and another root's trace and the mutex assertion switched at any time between evals: edges may be lost - but does phase 2 still commit only values computed from one settled state, is every intent on a visited chain, and do the three ways of keeping a chain agree? | holds |
| `faults` | Every Error of `eval()` provoked, caught and followed by more calls: are the bitmaps still consistent, and does every eval return? | holds |
| `elaboration` | For every way four wires can copy each other, a root input and a Reg, or be computed from each other and the Reg, and for models that have to be refused: does elaboration end, with a compressed map that merges nothing but copies, one driver per cell, and an order in which the scan meets producers before consumers and iterates exactly the cycles? And is the scheduler right on every condensation of four components? | holds |
| `registration` | Constructors that throw, are caught and retried, with children, stray calls on built and elaborated modules, and destruction: does the stack of contexts always name the constructor that runs, and do elaborated modules keep exactly their actions? | holds |
| `drain` | Does the ring, in its four instances, behave as a bounded FIFO at its ports, cycle for cycle, and does the gated pipe behind it delay what it hands over by exactly its length, gaps included? | holds |
| `arbiters` | Do `chosen` and `in_rdy` name one winner, and is round robin fair to requesters that come and go? | holds |
| `scc_clock`, `alias_edges`, `poke_order`, `mutex` | see Findings | violated |

A property is checked in the run where it is hardest to keep, and proved for the others
where a theorem states it (section 5).

The engine (`counter`, `cascade`, `modes`, `faults`):

* `ImplementsEvalSpec` (`counter`, `cascade`) - refinement: stored state, last settled
  state, pending activations and phase of the engine are a behaviour of `EvalSpec`. This
  is the sense in which dirty-driven evaluation has "the same semantics as full
  evaluation" (README.md:258). It includes non-blocking commits, registration-order
  priority, rows, rounds, and that nothing else ever changes.
* `ActivationExact` (`counter`) - intents at the end of phase 1 are exactly the Updates
  with an event between two settled states and a true guard.
* `CleanIsSettled` (`faults`), `NothingLeftBehind` (`cascade`), `SampleSettled`
  (`modes`) - why skipping is sound.
* `NonBlocking` (`modes`) - pending intents keep their pre-commit values while chains
  commit.
* `StrandedOnlyByMutex` (`modes`) - an intent always waits on a chain whose bit is set.
* `WaysAgree` (`modes`) - member bits, polled flags and virtual calls hold the same
  intents, set the chain's bit at the same moments and land the same value, also after
  a caught mutex assertion has left intents behind.
* `Quiescent` (`cascade`) - idempotence (README.md:213): after a return nothing is
  pending, bit or history.
* `Returns` (`faults`) - every eval returns, normally or with an Error.
* `TypeOK` (`faults`) - with the caps on rounds and iterations, and: no intent on a Mem
  ever carries a row outside it, even after the address Error.

Elaboration:

* `Compressed`, `StillDriven`, `FollowsSources`, `OnlyCyclesKept` - what the graph
  builder relies on: it looks `canon` up once, and gives each cell one producer.
* `ComponentsExact` - the components share out the nodes and are strongly connected;
  with `SinksClosedFirst`, a component is closed after those it leads to, they are the
  strongly connected components and the condensation is acyclic.
* `TopologicalOrder`, `ImplementsLinearExtension` - whatever its preference, and with
  stale entries in two queues, the scheduler places each component once and after all
  that feed it.
* `NeverRunsOut` - the internal error at `elab/graph.h:295-296` is never raised.
* `TypeGreedy` - a run of one type is never broken while it can go on, which is what the
  scheduler is for.
* `NoBackwardEdge`, and `ScheduledOnce` within `EngineReady` - what the engine's scan
  rests on: every action left has one position, behind its producers or in a group with
  them.
* `GroupsAreCycles`, `RefusedOnlyForCycles` - against a definition of a
  combinational cycle made of reads and drivers only: exactly the actions on one are
  iterated, with all of its signals watched for steadiness; a Reg breaks it; and
  elaboration is refused exactly for one through a type that cannot be compared.
* `EngineReady` - all of that as the engine needs it: the structural assumptions of
  `Netlist`, conjunct by conjunct, of the canon map, the actions left and the items.
* `Completes` - every elaboration ends.

Registration:

* `TopIsRunning` - the claim of the comment at `core/module.h:26-28`.
* `NoDangling` - a throwing constructor never reaches the pop in `createChildModule()`;
  the stack is clean nevertheless.
* `NoStrayAction` - an elaborated hierarchy loses no module, and none of its modules gains
  or loses an action: what is registered afterwards is of other modules. The one way in is a
  child that `createChildModule()` links late.

`ActionsFrozen` and `EntitiesFrozen` state what the documents say, that the structure is
frozen. The code does not keep that (Findings), so no run checks them; section 5 proves
them of programs that make no late call.

Prefab modules:

* `ImplementsFifo` - ports, contents and clock of the Queue are a behaviour of `Fifo`:
  order, capacity, simultaneous enqueue and dequeue at empty and full, flow-through
  without a copy, `count`, and a gate that never suppresses a clock that matters.
* `ImplementsDelay` - the same for `ValidPipe` and `DelayLine`, with the pipe fed by a
  queue that changes on the same clock.
* `FixedOneWinner`, `RROneWinner` - the requests that see ready are the one whose
  payload is forwarded, computed by two formulas in the code.
* `BoundedWait` - who keeps asking sees at most N - 1 grants to others;
  `ReadyIgnoresOwnValid` - no combinational cycle through ready and valid.

Tracing is invisible under `counter`: switching it on or off right after an
eval never changes what the engine does, although `traceOn()` rewrites all
histories. At other moments it is not (see the hazards).

### Bounds

| Bound | Value | Why it is enough |
|---|---|---|
| `WordBits` | 2, 3 (64 in the code) | every netlist has items in several words, so words are left, revisited in later rounds and skipped when empty |
| `RoundCap` | 3 to 5 (10000) | above the rounds the cascade needs, so that it settles; reached by the oscillator of `faults` |
| `SccIterCap` | 2 to 4 (100) | the cycle of `cascade` needs more than one pass; reached by `faults` |
| `Chains`: `WordSizes`, `ByteRegs` | 1, 2 (64 in the code); both layouts | in `modes` the chain of two Updates just fits its word, does not fit, or is of a type not copied as bytes; the other runs take one layout, the ways being equal |
| `Value` | {0,1} or {0,1,2} | levels, both edges, a register that does not just toggle, a row outside the Mem (`faults`: one row, addresses 0 and 1) |
| inputs, actions | 1-3 inputs, 1-9 actions | every kind of dependence: guard, read, event, address, alias, group, chain of two |
| `MCElaboration`: netlists | 4 wires, one root input, one Reg, its Update, up to 6 registrations | copy chains of every depth up to 4, cycles of every length of copies or lambdas, two cycles, several trees, a cycle through the type without `operator==`, a loop only the Reg breaks, cells read through an alias |
| `MCElaboration`: `N` | 4 components, two types and groups, all edge sets | an entry goes stale in either queue, several stale ones in a row, runs that end and start again |
| `MCRegistration` | 3 modules, 2 names, `In` and `Wire`, 2 actions | a chain of three constructors, siblings and two roots; a failed child retried under another name while its old one stays taken; modules and names are interchangeable (symmetry) |
| `MCRegistration`: `Late`, `Nesting` | TRUE, FALSE | the public methods are called from anywhere: `createChildModule()` and `createIn()` on built and elaborated modules, from outside and from other constructors; roots inside constructors are left to the note under Findings |
| `Queue`: `N`, `T` | 3, two elements | pointers wrap at a number that is no power of two; every occupancy, every mode, and two elements tell any misplaced slot apart |
| `ValidPipe`: `Stages` | 3 | an element, a gap and a stale word at once |
| `Arbiters`: `N` | 4 (as in the Chisel references of `verify/`) | last grant in the middle, candidates on both sides |

The state space is finite without further bounds: the engine's counters are capped by
the code, and `MaxActs` is the only bound that is not the program's own.
`MCFaults` runs under a `VIEW` that drops the two histories `touched` and
`sampled`; none of its properties reads them and its harness is free, so
`touched` restricts nothing.

### Fairness

`FairSpec` adds `WF_vars(Eval)` only. `eval()` is an ordinary sequential loop: once
called it keeps executing. Nothing is assumed of the harness: it need never call. In
`MCElaboration`, `WF_vars(Next)` says the same of `elaborate()`, one call that does
nothing else. The prefab modules and Registration have no liveness property:
their progress is their environment's. `BoundedWait` states the arbiter's fairness as a
bound on grants instead.

## 4. Findings

Each is a run whose only property the code violates; texts with their lines are
in `PROJECT.json`.

* `scc_clock` - a single-event Update decides at registration to read its edge
  from an edge bit (`core/action.h:378`); elaboration may refuse its clock a watch
  list because a combinational cycle drives it. No write site then ever sets the
  bit and the Update never fires. An Update with two events is not affected.
* `alias_edges` - `posedge(a)` and `negedge(b)` with `b` an alias of `a`: both look
  eligible by name, one watch is found for both by cell, the other edge is dropped.
* `poke_order` - poking a guard's input and the clock before one eval filters the
  edge by the stale guard. Only a comment in `core/entity.h` asks for another order.
* `mutex` - after a caught mutex assertion the chain's bit is clear and its intents
  are raised; with the assertion off again an activation does not set the bit.

Also met, and not runs:

* README.md:249-260 describes `dirtyEvalOff()` and `WOLVICMOD_DIRTY_EVAL`; no such
  switch exists in the code. The full sweep that exists is the one of the tracer, which
  is modelled.
* `elaborate()` clears the whole stack of contexts. A constructor that builds and
  elaborates a root module of its own is then left without its context, and
  `createChildModule()` may pop an empty vector: `MCRegistration` with `Nesting = TRUE`
  violates `TopIsRunning`, which the comment at `core/module.h:26-28` states. With
  `Late = TRUE` it violates `NoStrayAction` as well: a late child that builds a root in its
  constructor has that root's context popped and keeps its own when it is linked. No
  document says that roots may nest, so the checked run leaves it out.
* The documents call the structure frozen after elaboration (README.md:211, :387,
  `elab/elaborate.h:21-23`), and the code lets two things in. `createChildModule()` on an
  elaborated module succeeds (`core/module.h:103-114`): `Module()` gives the child a context
  to register against, and the hierarchy ends up with actions the engine never learns of
  (elaborate a root, create a child in it, register in its constructor, return: eight steps
  that violate `ActionsFrozen`). `createIn()` and friends do not ask either
  (`core/module.h:189`): an entity without bitmap, alias or chain (`EntitiesFrozen`, four
  steps). TLC finds both with either property in `MCRegistration.cfg`; both hold there with
  `Late = FALSE`.

## 5. Proofs

`tlapm` checks all eight proof modules to the last leaf.

| Module | Theorems |
|---|---|
| `EngineProofs` | `TypeCorrect`, `CleanSettled`, `ScanMissesNothing`, `CommitsFromSettled`, `NonBlockingCommit`, `OnlyMutexStrands`, `WaysCommitAlike` |
| `ActivationProofs` | `UpdatesActivateExactly`, `EngineRefinesEvalSpec`, `SecondEvalIdle` |
| `GraphProofs` (Tarjan and the scheduler) | `SinksCloseFirst`, `ComponentsAreExact`, `OrderIsTopological`, `SchedulerNeverRunsOut`, `RunsAreGreedy`, `SchedulerRefinesExtension` |
| `ExecOrderProofs` | `OrderIsBuiltOnComponents`, `OrderSchedulesOnce`, `OrderHasNoBackwardEdge`, `OrderGroupsCycles`, `OrderRefusesCycles` |
| `ElaborationProofs` | `ElaborationTyped`, `LookUpsAreShort`, `CellsStayDriven`, `MergesFollowCopies`, `OnlyCyclesSurvive`, `ElaboratedOrder`, `ElaborationFeedsEngine` |
| `RegistrationProofs` | `RegistrationTyped`, `ContextsLive`, `ConfinedIsFrozen`, `TopOfContexts`, `StrayActionsStayOut` |
| `DrainProofs` | `QueueTypeCorrect`, `QueueIsFifo`, `PipeIsDelayLine`, `DrainDelivers` |
| `ArbitersProofs` | `ArbTypeCorrect`, `FixedServesOne`, `RRServesOne`, `ReadyFeedbackFree`, `NobodyStarves` |

### The engine

`EngineProofs` and `ActivationProofs` hold for every netlist, value set, word width and
cap that satisfy the named assumptions:

* `StructureAssumption`, `DriverAssumption`, `ExecAssumption` - what flattening and
  `buildExecOrder()` check or build: types, one driver per signal, compressed
  aliases, every action scheduled once, groups of Assigns only, and a producer never
  after a consumer (asserted by the code too, `elab/graph.h:408-411`).
  `ElaborationFeedsEngine` is the theorem that elaboration ends in such structures.
* `ValueAssumption`, `FnAssumption`, `DriveAssumption` - values are naturals with 0,
  rows are values, lambdas and pokes stay inside the values, and inside 0 and 1 for a
  signal an event is taken on, which the API types as `bool`.

| Theorem | States, for every netlist |
|---|---|
| `TypeCorrect` | `[]TypeOK`: caps respected, a pending row is inside its Mem |
| `CleanSettled` | `[]CleanIsSettled`: a clear activity bit means nothing to do |
| `ScanMissesNothing` | `[]NothingLeftBehind`: the scan need not go back |
| `CommitsFromSettled` | `[]SampleSettled` |
| `NonBlockingCommit` | `[]NonBlocking` |
| `OnlyMutexStrands` | `[]StrandedOnlyByMutex` |
| `WaysCommitAlike` | `[]WaysAgree`: three layouts of a Reg's intents, one behaviour |
| `UpdatesActivateExactly` | `ActivationExact`, if `Disciplined` and until an Error is thrown |
| `EngineRefinesEvalSpec` | `ImplementsEvalSpec`, under the same hypotheses |
| `SecondEvalIdle` | `[]Quiescent`, if nothing is switched and some input is no clock |

**The argument.** For the first six, two inductive invariants. `IInv` joins `TypeOK`,
`CleanIsSettled`, `NothingLeftBehind` and `SampleSettled`, none of which is
inductive alone, with
* `GroupSound`: while a group iterates, signals not yet computed in this pass equal
  the snapshot, and if those already computed equal it too, their assignments hold -
  needed because the group's activity bit is cleared on entry and its members are
  only known settled when a pass has changed nothing;
* `SweepSettled`: under a tracer, positions behind the sweep are settled although
  their activity bits mean nothing for them.

A step writes one cell; `Woken` covers every position that reads it, except an Update
that only has it as an event, and those carry no assignment to unsettle. Positions
woken lie at or after the producer by the order assumption, so they are in
the word being scanned or a later one: that keeps `NothingLeftBehind`, which at the
end of a scan leaves no bit in any word, so `CleanIsSettled` gives a settled state.
`NInv` adds `StrandedOnlyByMutex`, `PendingCurrent` (intents raised in this scan were
computed from values that no later position of the scan can still change) and
`NonBlocking`; the order assumption is used again, for values an Update read early in
the scan. Both invariants were run as TLC invariants on the small netlists first.

A group is exempt from `CleanIsSettled` and `SampleSettled` once an Error "scc" was
thrown: the code leaves it unsettled with its bit clear until an input changes.

*Three ways.* `WInv` is `WaysAgree` with the types of the three layouts. `Ranks` -
the members of a chain are numbered from 0 without a gap - makes their bits distinct, so
that clearing one clears no other. `AppliedFirst` says what the commit loop leaves in
`next_`: the loop goes from the last member to the first and overwrites, which is a list
filled from its end, so that the earliest intent is the one that stays. Two lists filled
by one rule agree (`SameFromTheEnd`); the least place where they do not would have none
after it to differ from.

**Activation and refinement.** `Disciplined` says what the two theorems need, and each
part of it is needed:
* `Convention = "settle_then_pulse"`, without which `poke_order` is a counterexample;
* `ExactEvents`, a condition on the netlist that excludes `scc_clock` and `alias_edges`:
  a watch stands for one event of its Update, an edge bit is used only where there is a
  watch, a watched input is a Clock, and a guard that filters a watch has its settled
  value when the watched signal is written;
* an input that is no clock, so that the first eval settles the netlist before the first
  pulse; and no other root that flips the shared trace flag in between.

`[](errs = {})` is a hypothesis, not an invariant: an Error leaves a round half done,
and what the next `eval()` detects is then measured from no settled state. The runs `counter` and `cascade`
satisfy all of it, with traces switched, several events, groups, Mems and rounds.

`AInv` has one part per Update and one for the netlist. Per Update (`UpdateOK`): before
its turn, each event slot tells the truth about the last settled state (`SlotOK`: the
edge bit is set for the event, or the history holds the settled value, or it was advanced
past a change that cannot make the Update fire); after it, the intent is up
exactly if an event occurred and the guard holds (`Done`). For the netlist: `Differs`
bounds who may differ from the last settled state at each moment of a round, and `Cones`
that a difference spreads only where reads lead it. The hard case is a filtered watch: at the write of the
clock its guard must already have the value it will have when all is settled, which is
`GuardFirst` by order inside a scan, and by `Cones` when a poke or a commit writes the clock.

The refinement maps `sampled` to the visible state, and each action to a step of
`EvalSpec` or a stutter: `PokeMaps`, `SettleMaps` (the end of phase 1, by
`UpdatesActivateExactly`), `CommitMaps` (one chain lands the earliest pending intent,
computed from the settled state by `NonBlocking`), `FinishMaps`.

*Quiescence* needs none of this and holds for any order of pokes and after any Error.
`QInv`: an edge bit never outlives the activity bit that was set with it
(`FlaggedAwake`), a round that commits nothing wakes nobody (`DryCommit`), and while no
input is poked nothing is set (`Calm`). A tracer breaks the first - it dispatches without
consuming activity bits - and a mutex assertion the last, by stranding intents: hence
`Switches = {}`.

### The execution order

For every flat model (`IsModel`), every number of entities, every set of types
(`TagAssumption`, `EntityAssumption`):

| Theorem | States |
|---|---|
| `SinksCloseFirst` | `TarjanSpec => []SinksClosedFirst`, for every graph |
| `ComponentsAreExact` | `TarjanSpec => []SccsExact`: at the end of `run()`, the components are those of the graph |
| `OrderIsTopological`, `SchedulerNeverRunsOut`, `RunsAreGreedy` | `SchedSpec` keeps `TopologicalOrder`, `NeverRunsOut`, `TypeGreedy`, for every condensation |
| `SchedulerRefinesExtension` | `SchedSpec => ImplementsLinearExtension` |
| `OrderIsBuiltOnComponents` | the whole pipeline keeps `ComponentsExact`, `SinksClosedFirst`, `TopologicalOrder`, `NeverRunsOut` |
| `OrderSchedulesOnce` | `OrderSpec => []ScheduledOnce` |
| `OrderHasNoBackwardEdge` | `OrderSpec => []NoBackwardEdge`: the assertion at `elab/graph.h:408-411` never fires |
| `OrderGroupsCycles` | `OrderSpec => []GroupsAreCycles`: who is iterated is who waits for itself |
| `OrderRefusesCycles` | `OrderSpec => []RefusedOnlyForCycles`: the Error is thrown exactly for a cycle that cannot be compared |

*Tarjan.* `TarjanInv` describes the run by order of visit: the stack is what `onStack`
says, in that order; running calls are a subsequence of it; and the `low` of a call is a
visit still on the stack, no later than any that an edge already followed from the nodes
it governs leads to (`LowInv`). When a call ends with `low = index`, no followed edge
leads from the nodes above it to one below, and all their edges are followed
(`EdgeInv`): hence `SinksClosedFirst`. That these nodes are not too many is `PathInv`. A
path is stated without one - `Leads(u, v)`: no set that edges do not leave has u and not
v - which makes it transitive by definition and spares induction. A call leads to
all that came on the stack after it, and every node of the stack leads to every call
up to the last one before it, because that call's `low`, if it has ended below its
index, leads on to an earlier one.

*Scheduler.* `SchedInv` relates `indeg` to the feeders not yet counted down (`CountInv`,
by cardinality, with the component whose consumers are being visited in between), says
that what is in a queue is ready (`QueueInv`), and that what is ready and not emitted
waits in each queue it belongs to (`WaitInv`): stale entries are extra, never missing.
If components are left, the one of the largest number among them has no feeder left,
since edges go down in number; so it waits, and `seq` is not exhausted.

*ExecOrder.* `BuildInv` joins both with what each phase hands on. `CondensedIsOne` is
the joint: by `SinksClosedFirst` the condensation's edges go down in number, which is
what the scheduler assumes of its input. `ItemsInv` keeps a strictly increasing placing
of items in `topo`, so that an item's actions are its component's. A producer's component
feeds its consumer's or is the same, and `TopologicalOrder` does the rest.
`AscendingLists` - registration order inside a group lists each member once - is
proved by counting, with no induction.

*Cycles.* `Waits(a)`, the reference of `GroupsAreCycles`, adds producers as often as there
are actions. `WaitsFacts` shows, by counting, that this is the least set closed under
producers (`IsWaits`). The evaluation graph leads from a signal's cell to an action and back through the
drivers, so an action is in its own `Waits` if and only if its component has
another node that leads to it and that it leads to: with `ComponentsExact`, if and only
if the component is a loop. A loop is what `buildExecOrder()` makes a group of, or refuses
if one of its cells cannot be compared.

### Elaboration

For every flat model (`IsNetlist`), every number of entities, every pattern of copies:

| Theorem | States |
|---|---|
| `ElaborationTyped` | `ElabSpec => []TypeOK` |
| `LookUpsAreShort` | `ElabSpec => []Compressed` |
| `CellsStayDriven` | `ElabSpec => []StillDriven` |
| `MergesFollowCopies` | `ElabSpec => []FollowsSources` |
| `OnlyCyclesSurvive` | `ElabSpec => []OnlyCyclesKept` |
| `ElaboratedOrder` | what `OrderSpec` keeps on a model as given, `ElabSpec` keeps on the cells aliasing leaves: `ComponentsExact`, `SinksClosedFirst`, `TopologicalOrder`, `NeverRunsOut`, `ScheduledOnce`, `NoBackwardEdge`, `GroupsAreCycles`, `RefusedOnlyForCycles` |
| `ElaborationFeedsEngine` | `ElabSpec => []EngineReady`: an accepted model ends in what the theorems of the engine assume |

*Aliases.* The walk to the root of a union-find forest is a recursive function of the
forest. The invariant has witnesses in its place: a rank that falls along every link, so that the walk
ends (`Forest`), and the map r from each entity to its root (`Roots`); `Merged(r)` then
says that each eliminated copy links its target to the root of its source, that an entity
left a root by a copy that was kept is on a cycle, and that the root is among what the
entity copies. That last set, too, is characterised as the least one closed under copies.
One driver per entity makes the links a forest: a second driver would link an entity that
is no root, which is what `checkSignalDrivers()` is for.

*Hand-over.* After binding, the cells of the live copies are a model that
`buildExecOrder()` may start from (`OrderAfresh`), so that `BuildInv` of `ExecOrderProofs` holds
from there on. `ElabInv` joins the two, and keeps with them that the graph is built with
the final canon map and that an action is gone exactly if its number is that of an
eliminated copy (`Handed`).

*The engine's assumptions.* A kept Assign has a number that was not eliminated
(`KeptAssign`); a target that is no root would have an eliminated copy too, which one
driver per entity excludes, so a kept action drives a cell of its own (`KeptDrives`). An
item is one action or has members that wait for themselves, and only Assigns are waited
for (`WaitedAssign`, `ItemsReady`): hence no Update in a group. `EngineReady` is a formula
about the variables of `Elaboration`; that it reads like the assumptions on the constants
of `Netlist`, with `Action` for `Kept` and `Exec` for the items' actions, is for the reader
to compare. What those assume beyond it are types the API fixes: where events, guards and
addresses come from, that an alias of a Mem is a Mem; and that there is an action at all.

### Registration

For any number of module objects, names and actions (`RegistrationAssumption`):

| Theorem | States |
|---|---|
| `RegistrationTyped` | `Spec => []TypeOK`: with one entity per name |
| `ContextsLive` | `Spec => []NoDangling` |
| `ConfinedIsFrozen` | `Spec => ActionsFrozen /\ EntitiesFrozen`, if `~Late` |
| `TopOfContexts` | `Spec => []TopIsRunning`, if `~Nesting` |
| `StrayActionsStayOut` | `Spec => NoStrayAction`, if `~Nesting` |

What a module owns, and its part of the hierarchy, are least sets closed under `maker`
and `parent` (`BelowFacts`), so that a claim about all of a tree is a claim that some set
is closed. `RInv` says that a module is linked to its owner when its constructor has
returned (`Linked`), that only finished modules are elaborated (`Settled`), and of each
running constructor that what was born before its module is owned by nothing born later
(`Runs`, with `Senior`). A late call may be made on any module, so that the constructors
running need not own each other; that they are still unwound one by one follows from their
seniority: what a throw or a destruction takes (`GoneFacts`) includes no other running
constructor, and of an elaborated tree nothing unless its root goes. So a tree keeps its
modules, and stays the same but for a child linked late (`Moves`, `TreesStay`).

For actions, one more invariant says where the contexts are. With `~Late`, none is in an
elaborated tree (`Frozen`), whatever nests: elaboration clears the stack, and no call
reaches the tree again. With late calls a tree
grows by children that are still being built, and what keeps contexts out is that a
returning child pops its own before it is linked: with `~Nesting` every context is of a
module neither linked nor elaborated (`Clear`), an induction that needs the top of the
stack (`Nested`, below). A purge keeps the order of the survivors
(`OnlyPicks`, `OrderLists`), hence each module's list of actions
(`DisposeKeepsActions`).

`TopIsRunning` is not inductive: `Nested` adds that above the context of a running
constructor there are only contexts of constructors called after it, and `Distinct` that
no module has two. The hypothesis `~Nesting` is what Findings tells of nested roots; where
they are allowed, `pop_back()` of an empty stack, which is undefined, is taken as doing
nothing. `~Late` is what the late calls under Findings show to be needed.

### The prefab modules

For any number of slots, stages or requesters (at least one: `QueueAssumption`,
`PipeAssumption`, `ArbAssumption`) and any set of elements that has T{}
(`ChannelAssumption`):

| Theorem | States |
|---|---|
| `QueueTypeCorrect` | `[]TypeOK`: pointers inside the ring |
| `QueueIsFifo` | `Spec => ImplementsFifo` |
| `PipeIsDelayLine` | `PipeSpec => ImplementsDelay` (from `PipeTypeCorrect`), whatever feeds the pipe |
| `DrainDelivers` | `DrainSpec => ImplementsFifo /\ ImplementsDelay`: composed, each keeps its promise |
| `ArbTypeCorrect` | `[]TypeOK` |
| `FixedServesOne`, `RRServesOne` | one winner, named twice |
| `ReadyFeedbackFree` | `[]ReadyIgnoresOwnValid` |
| `NobodyStarves` | `[]BoundedWait` |

*Queue.* The refinement maps the ring to the sequence of its `count` oldest slots.
Lemma `Window`: distinct places of that window are distinct slots, and the slot after
the last one is `enq_ptr` - so a write there disturbs nothing inside. From it follow
what the four combinations of `do_enq` and `do_deq` do to the sequence (`Moved`), that
the ports say what `Fifo` calls for (`Ports`), and that a rising clock is `Fifo`'s
`Rise`, where an element flowing through an empty queue is appended and taken at once
and leaves the ring as it was.

*Pipe.* `GateIsExact`: with no valid element at the entry or in a stage, `Shifted` is
the identity, so sleeping is a shift. The pipe's specification leaves its entry free to
change with the clock, so that `Drain` is one of its behaviours and of the Queue's at
once.

*Arbiters.* `Scan`: RRArb grants the requester nearest to `last_grant` going round,
which the two passes of `in_rdy` call the lowest one above it, or the lowest of all if
there is none. For fairness, the invariant `Approaching` bounds `passed[i]` plus the
distance from `last_grant` to `i` by N: each grant to another moves `last_grant` at least one place closer.
The bound on `passed` alone is not inductive.

### Only model-checked

* `Returns` and `Completes`: liveness.
* The refinement and the exactness of activation for netlists and harnesses that are not
  `Disciplined`: the engine's four violated runs show that they do not hold there.

## 6. Not modelled

* Messages, statistics, names beyond their uniqueness, the text of traces and waves:
  nothing reads them back.
* The contents of a Mem row write: `commitRow` marks the whole Mem dirty whatever
  it stores, and the model does the same.
* How a commit compares values: bytes where equal bytes are equal values, `==` elsewhere.
  A type without `operator==` counts as always changed; the model has no such Reg.
* The read audit: it reports an action that reads more than it declares, and the
  actions of the model are functions of their declared reads, so that it would never
  have anything to say. Its one state hazard, the frame left behind by an action
  that throws, is listed.
* Of flattening, the walk over the module tree, which only fixes the registration
  order; the configurations range over orders instead. Of elaboration, a second attempt
  after a failed one.
* The clock toggled twice between two evals has no property of its own: README.md:386
  tells harnesses not to, and the free harness of `modes` and `faults` does it under
  properties that do not depend on it.
* The arbiters' payloads and the `FixedArb`'s unused clock.
* Expressions and the collect helpers, which register actions as lambdas do; probes;
  waveforms, which observe; tests, co-simulation, third-party code: no state that feeds
  back into the simulator.

## 7. Plan

1. Proofs: what holds of activation after a caught Error.
2. Runs of the engine: a guard committed together with a derived clock, and the double
   clock toggle.
3. `Audit`: the read-audit frame across Errors, with actions that read undeclared
   signals; `Wave`: time order and change detection.
