------------------------------- MODULE Chains -------------------------------
(***************************************************************************)
(* How the intents on a Reg are kept and committed.  Which of three ways a *)
(* chain takes is decided by buildUpdateChains() (include/wolvicmod/elab/  *)
(* graph.h:461-512): a word of member bits in the chain, the members' own  *)
(* flags polled, or virtual calls.  Engine knows only the set of intents;  *)
(* each way runs beside that set, on its own data.  (A Mem always takes    *)
(* the last way, and is left to Engine.)                                   *)
(***************************************************************************)
EXTENDS Netlist

CONSTANTS
  WordSizes, \* widths of the word of member bits to try (64 in the code)
  ByteRegs   \* for each type layout to try, the Regs whose intents are copied as bytes

VARIABLES
  way,        \* Reg chain -> "bits", "polled" or "virtual"
  memberBits, \* Chain::memberBits, as a set of bit numbers
  flag,       \* Update -> intentActive_
  next,       \* Reg -> next_
  notified    \* chains whose bit notifyIntent() set

chainVars == <<way, memberBits, flag, next, notified>>

RegChain == Chain \cap Reg
Member == {a \in Action : Target[a] \in RegChain}

ChainInit ==
  /\ \E size \in WordSizes, bytes \in ByteRegs :
       way = [r \in RegChain |->
                IF r \notin bytes THEN "virtual"
                ELSE IF Cardinality(Updates(r)) <= size THEN "bits" ELSE "polled"]
  /\ memberBits = [r \in RegChain |-> {}]
  /\ flag = [a \in Member |-> FALSE]
  /\ next = [r \in RegChain |-> 0]
  /\ notified = {}

\* A member's bit: its place in the chain, which is in registration order.
Bit(a) == Cardinality({b \in Updates(Target[a]) : b < a})

\* The end of UpdateAction::run(): an intent that was not up notifies the chain.
Up(a) == IF way[Target[a]] = "bits" THEN Bit(a) \in memberBits[Target[a]] ELSE flag[a]
SetIntent(a, active) ==
  IF a \notin Member THEN UNCHANGED chainVars
  ELSE
  /\ notified' = IF active /\ ~Up(a) THEN notified \cup {Target[a]} ELSE notified
  /\ memberBits' =
       IF way[Target[a]] # "bits" THEN memberBits
       ELSE [memberBits EXCEPT ![Target[a]] = IF active THEN @ \cup {Bit(a)} ELSE @ \ {Bit(a)}]
  /\ flag' = [flag EXCEPT ![a] = active]
  /\ UNCHANGED <<way, next>>

\* commitChain(): every intent that is up is copied to next_, from the last member to
\* the first.  (AppliedUpward is a slip; no action uses it.)
UpIn(r) == {a \in Updates(r) : Up(a)}
AppliedUpward(r, stored) ==
  LET from[k \in 0..Cardinality(Updates(r))] ==
        IF k = 0 THEN next[r]
        ELSE LET a == CHOOSE b \in Updates(r) : Bit(b) = k - 1
             IN  IF Up(a) THEN stored[a].data ELSE from[k - 1]
  IN  from[Cardinality(Updates(r))]
Applied(r, stored) ==
  LET from[k \in 0..Cardinality(Updates(r))] ==
        IF k = Cardinality(Updates(r)) THEN next[r]
        ELSE LET a == CHOOSE b \in Updates(r) : Bit(b) = k
             IN  IF Up(a) THEN stored[a].data ELSE from[k + 1]
  IN  from[0]

\* `stored` holds the members' intent_; `exclusive` is the mutex assertion, which
\* throws on a second intent before anything is applied.
CommitReg(r, stored, exclusive) ==
  IF r \notin RegChain THEN UNCHANGED chainVars
  ELSE
  /\ notified' = notified \ {r}
  /\ UNCHANGED way
  /\ IF UpIn(r) = {} \/ (exclusive /\ Cardinality(UpIn(r)) > 1)
     THEN UNCHANGED <<memberBits, flag, next>>
     ELSE /\ next' = [next EXCEPT ![r] = Applied(r, stored)]
          /\ IF way[r] = "bits"
             THEN memberBits' = [memberBits EXCEPT ![r] = {}] /\ UNCHANGED flag
             ELSE flag' = [a \in Member |-> flag[a] /\ Target[a] # r] /\ UNCHANGED memberBits
=============================================================================
