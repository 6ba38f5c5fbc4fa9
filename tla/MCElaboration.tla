--------------------------- MODULE MCElaboration ---------------------------
(***************************************************************************)
(* Netlists of four wires 1..4, a root input 5 and a Reg 6, with an Assign *)
(* to each wire (7..10) and an Update of the Reg (11):                     *)
(*  - every way the wires can copy each other, the input and the Reg, or   *)
(*    be computed from the next wire;                                      *)
(*  - every way three wires can be computed from each other and the Reg,   *)
(*    with the fourth a plain wire or a copy of the third;                 *)
(*  - models elaboration has to refuse: a wire left out, or any signal     *)
(*    driven once more.                                                    *)
(* Last, the scheduler on every condensation of N components, of which     *)
(* netlists this small produce only some.                                  *)
(***************************************************************************)
EXTENDS Elaboration

CONSTANT N

Wire == 1..4
Lambda(w, reads, tag) ==
  [target |-> w, reads |-> reads, src |-> NoSrc, assign |-> TRUE, tag |-> tag, gone |-> FALSE]
Copy(w, s) == [Lambda(w, {s}, "copy") EXCEPT !.src = s]
Upd(reads) == [Lambda(6, reads, "upd") EXCEPT !.assign = FALSE]

Flat(assigns) ==
  LET all == Append(assigns, Upd({1, 4})) IN
  [canon |-> [e \in 1..E |-> e],
   act |-> [a \in (E + 1)..(E + Len(all)) |-> all[a - E]]]

OfSource(w, s) == IF s = NoSrc THEN Lambda(w, {(w % 4) + 1}, "fn") ELSE Copy(w, s)
Copying(f) == [w \in Wire |-> OfSource(w, f[w])]
Copied4 == {Copying(f) : f \in [Wire -> (1..E) \cup {NoSrc}]}
Computed ==
  {<<Lambda(1, f[1], "fn"), Lambda(2, f[2], "fn"), Lambda(3, f[3], "gn"), last>> :
     f \in {g \in [1..3 -> SUBSET {1, 2, 4} \cup {{1, 6}, {4, 6}}] : 6 \notin g[2] \cup g[3]},
     last \in {Copy(4, 3), Lambda(4, {3, 5}, "gn")}}
Refusable ==
  LET some == {Copying(f) : f \in [Wire -> {NoSrc, 2, 3}]}
  IN  {SubSeq(n, 1, 3) : n \in some}
        \cup {Append(n, OfSource(w, s)) : n \in some, w \in 1..5, s \in {NoSrc, 2, 5}}
Netlist == {Flat(n) : n \in Copied4 \cup Computed \cup Refusable}

\* The condensations; of two interchangeable types the first action has the first.
Downward == {e \in (1..N) \X (1..N) : e[2] < e[1]}
SchedTag == {"fn", "gn"}
Condensation(edges, kind) ==
  [comp |-> 1..N,
   succ |-> [c \in 1..N |-> {w \in 1..N : <<c, w>> \in edges}],
   free |-> {c \in 1..N : kind[c] = "entity"},
   tag  |-> [c \in 1..N |-> IF kind[c] \in SchedTag THEN kind[c] ELSE NoTag]]
KindsOfComp ==
  {k \in [1..N -> SchedTag \cup {NoTag, "entity"}] :
     \A c \in 1..N : k[c] = "gn" => \E b \in 1..(c - 1) : k[b] = "fn"}
SchedulerAlone ==
  /\ \E edges \in SUBSET Downward, kind \in KindsOfComp :
       StartOn(Condensation(edges, kind))
  /\ model = Flat(<<>>) /\ phase = "alone" /\ execOrder = <<>> /\ topoAt = 1
  /\ TarjanOn(<<>>) /\ A!AliasOn(<<>>)

Init == SchedulerAlone \/ \E n \in Netlist : ElabOn(n)
Next ==
  \/ Elaborate
  \/ phase = "alone" /\ Schedule /\ UNCHANGED <<avars, tvars, ovars>>

\* Elaboration is one call: it keeps running until it ends.
Spec == Init /\ [][Next]_vars /\ WF_vars(Next)

\* Elaboration ends, with every component placed or with an Error.
Completes ==
  <>(phase \in {"rejected", "failed"} \/ (step = "done" /\ emitted = dag.comp))
=============================================================================
