---------------------------- MODULE DrainProofs ----------------------------
(***************************************************************************)
(* The Queue is a bounded FIFO, for every capacity, element set and mode:  *)
(* the argument is about the ring alone, which slots are occupied, how one *)
(* clock moves that window, and that ports and fire() agree about it.  The *)
(* ValidPipe is a delay line for every length and element set, and a Queue *)
(* that feeds one leaves both promises intact.                             *)
(***************************************************************************)
EXTENDS Drain, TLAPS

\* The ring read from the oldest element on.
Items == [i \in 1..count |-> st.ram[Slot(i)]]

-----------------------------------------------------------------------------
\* TypeOK is inductive: a pointer steps to the next slot or wraps.
THEOREM QueueTypeCorrect == Spec => []TypeOK
<1>1. Init => TypeOK
  <2>1. 0 \in Ptr /\ Zero \in T
    BY QueueAssumption, ChannelAssumption DEF Ptr
  <2>2. [i \in Ptr |-> Zero] \in [Ptr -> T]
    BY <2>1
  <2>3. Init => st \in QState
    BY <2>1, <2>2 DEF Init, QState
  <2>4. Init => enq \in Channel
    BY <2>1 DEF Init, Channel, Silent
  <2> QED BY <2>3, <2>4, ChannelAssumption DEF Init, TypeOK, Channel, Silent
<1>2. TypeOK /\ [Next]_vars => TypeOK'
  <2> SUFFICES ASSUME TypeOK, [Next]_vars PROVE TypeOK'
    OBVIOUS
  <2>1. CASE SetEnq
    BY <2>1 DEF SetEnq, TypeOK, Channel
  <2>2. CASE SetDeqRdy
    BY <2>2 DEF SetDeqRdy, TypeOK
  <2>3. CASE Posedge
    <3>1. \A p \in Ptr : Step(p) \in Ptr
      BY QueueAssumption DEF Ptr, Step
    <3>2. fire.do_enq \in BOOLEAN /\ fire.do_deq \in BOOLEAN /\ enq.bits \in T
      BY DEF fire, TypeOK, Channel
    <3>3. /\ st.ram \in [Ptr -> T] /\ st.enq_ptr \in Ptr /\ st.deq_ptr \in Ptr
          /\ st.maybe_full \in BOOLEAN
      BY DEF TypeOK, QState
    <3>4. Advanced \in QState
      BY <3>1, <3>2, <3>3 DEF Advanced, QState
    <3> QED BY <2>3, <3>4 DEF Posedge, Rises, TypeOK
  <2>4. CASE Negedge
    BY <2>4 DEF Negedge, Falls, TypeOK
  <2>5. CASE UNCHANGED vars
    BY <2>5 DEF vars, TypeOK
  <2> QED BY <2>1, <2>2, <2>3, <2>4, <2>5 DEF Next
<1> QED BY <1>1, <1>2, PTL DEF Spec

-----------------------------------------------------------------------------
\* The occupied window: its length, its two ends, and that it fits.
LEMMA Window ==
  ASSUME TypeOK
  PROVE  /\ N \in Nat /\ count \in 0..N
         /\ (count = 0 <=> Empty) /\ (count = N <=> Full)
         /\ \A i \in 1..N : Slot(i) \in Ptr
         /\ \A i, j \in 1..N : Slot(i) = Slot(j) => i = j
         /\ Slot(1) = st.deq_ptr
         /\ count < N => Slot(count + 1) = st.enq_ptr
<1>1. N \in Nat \ {0} /\ st.enq_ptr \in 0..(N - 1) /\ st.deq_ptr \in 0..(N - 1)
      /\ st.maybe_full \in BOOLEAN
  BY QueueAssumption DEF TypeOK, QState, Ptr
<1> QED BY <1>1 DEF count, Empty, Full, Slot, Ptr

\* The window as a sequence.
LEMMA ItemsSeq ==
  ASSUME TypeOK
  PROVE  /\ Items \in Seq(T) /\ Len(Items) = count
         /\ \A i \in 1..count : Items[i] = st.ram[Slot(i)]
<1>1. count \in Nat /\ \A i \in 1..count : st.ram[Slot(i)] \in T
  BY Window DEF TypeOK, QState
<1> QED BY <1>1 DEF Items

\* What the ports announce is what a FIFO holding the window would.
PortsAgree ==
  [deq |-> IF deq.valid THEN <<deq.bits>> ELSE <<>>, enq_rdy |-> enq_rdy, count |-> count]
    = Ring!Port(mode, Items, enq, deq_rdy)

LEMMA Ports == TypeOK => PortsAgree
<1> SUFFICES ASSUME TypeOK PROVE PortsAgree
  OBVIOUS
<1>1. /\ mode.flow \in BOOLEAN /\ mode.pipe \in BOOLEAN /\ enq.valid \in BOOLEAN
      /\ deq_rdy \in BOOLEAN
  BY QueueAssumption DEF TypeOK, Channel
<1>2. Items = <<>> <=> Empty
  BY ItemsSeq, Window
<1>3. ~Empty => Items[1] = st.ram[st.deq_ptr]
  BY ItemsSeq, Window
<1>4. (IF deq.valid THEN <<deq.bits>> ELSE <<>>) = Ring!Front(mode, Items, enq)
  BY <1>1, <1>2, <1>3 DEF deq, Ring!Front
<1>5. enq_rdy = Ring!Room(mode, Items, deq_rdy)
  <2>1. Len(Items) < N <=> ~Full
    BY ItemsSeq, Window
  <2>2. enq_rdy \in BOOLEAN /\ Ring!Room(mode, Items, deq_rdy) \in BOOLEAN
    BY <1>1 DEF enq_rdy, Full, Ring!Room
  <2> QED BY <1>1, <2>1, <2>2 DEF enq_rdy, Ring!Room
<1> QED BY <1>4, <1>5, ItemsSeq DEF PortsAgree, Ring!Port
-----------------------------------------------------------------------------
\* One clock moves the window by what fire() says: one slot longer at its end,
\* one slot shorter at its front.
LEMMA Moved ==
  ASSUME TypeOK, TypeOK', Posedge, w_chg
  PROVE  LET out == IF fire.do_deq THEN 1 ELSE 0
             in == IF fire.do_enq THEN 1 ELSE 0
         IN  /\ count' = count + in - out
             /\ \A i \in 1..count' : i + out <= count => Items'[i] = Items[i + out]
             /\ \A i \in 1..count' : i + out = count + 1 => Items'[i] = enq.bits
<1> DEFINE out == IF fire.do_deq THEN 1 ELSE 0
           in == IF fire.do_enq THEN 1 ELSE 0
<1>1. /\ st' = Advanced /\ fire.do_enq \in BOOLEAN /\ fire.do_deq \in BOOLEAN
      /\ fire.do_enq \/ fire.do_deq
      /\ fire.do_deq => ~Empty
      /\ fire.do_enq => ~Full \/ fire.do_deq
  BY QueueAssumption DEF Posedge, Rises, w_chg, fire, TypeOK, Full, Empty
<1>2. /\ N \in Nat \ {0} /\ st.enq_ptr \in 0..(N - 1) /\ st.deq_ptr \in 0..(N - 1)
      /\ st.maybe_full \in BOOLEAN /\ st.ram \in [Ptr -> T]
  BY QueueAssumption DEF TypeOK, QState, Ptr
<1>3. /\ st'.enq_ptr = IF fire.do_enq THEN Step(st.enq_ptr) ELSE st.enq_ptr
      /\ st'.deq_ptr = IF fire.do_deq THEN Step(st.deq_ptr) ELSE st.deq_ptr
      /\ st'.maybe_full = IF fire.do_enq # fire.do_deq THEN fire.do_enq ELSE st.maybe_full
      /\ st'.ram = IF fire.do_enq THEN [st.ram EXCEPT ![st.enq_ptr] = enq.bits] ELSE st.ram
  BY <1>1 DEF Advanced
<1>4. count' = count + in - out
  BY <1>1, <1>2, <1>3 DEF count, Step, Full, Empty
<1>5. \A i \in 1..count' : Slot(i)' = Slot(i + out)
  BY <1>1, <1>2, <1>3, Window, <1>4 DEF Slot, Step
<1>6. count \in 0..N /\ count' \in 0..N /\ N \in Nat
  <2>1. TypeOK => count \in 0..N
    BY Window
  <2> QED BY <1>1, <1>2, <2>1, <1>4, Window
<1>7. ASSUME NEW i \in 1..count'
      PROVE  /\ i + out <= count => Items'[i] = Items[i + out]
             /\ i + out = count + 1 => Items'[i] = enq.bits
  <2>1. Items'[i] = st'.ram[Slot(i + out)]
    BY <1>5, <1>7 DEF Items
  <2>2. i + out \in 1..N \/ i + out = N + 1
    BY <1>6, <1>7
  <2>3. CASE i + out <= count
    <3>1. i + out \in 1..N /\ Slot(i + out) \in Ptr /\ Items[i + out] = st.ram[Slot(i + out)]
      BY <1>6, <1>7, <2>3, Window, ItemsSeq
    <3>2. ASSUME fire.do_enq, count < N PROVE Slot(i + out) # st.enq_ptr
      <4>1. count + 1 \in 1..N /\ Slot(count + 1) = st.enq_ptr /\ i + out # count + 1
        BY <1>6, <3>2, <2>3, Window, <1>7
      <4> QED BY <3>1, <4>1, Window
    <3>3. ASSUME fire.do_enq, count = N PROVE Slot(i + out) # st.enq_ptr
      <4>1. fire.do_deq /\ st.enq_ptr = st.deq_ptr /\ Slot(1) = st.deq_ptr
        BY <1>1, <3>3, Window DEF Full
      <4>2. i + out # 1 /\ 1 \in 1..N
        BY <4>1, <1>2, <1>7, <1>6
      <4> QED BY <3>1, <4>1, <4>2, Window
    <3>4. st'.ram[Slot(i + out)] = st.ram[Slot(i + out)]
      BY <1>2, <1>3, <1>6, <3>1, <3>2, <3>3 DEF Ptr
    <3> QED BY <2>1, <2>3, <3>1, <3>4, <1>6, <1>7
  <2>4. CASE i + out = count + 1
    <3>1. fire.do_enq
      BY <1>1, <1>4, <1>6, <1>7, <2>4
    <3>2. Slot(i + out) = st.enq_ptr
      <4>1. CASE count < N
        BY <2>4, <4>1, Window
      <4>2. CASE count = N
        BY <1>1, <1>2, <2>4, <3>1, <4>2, Window DEF Full, Slot
      <4> QED BY <1>6, <4>1, <4>2
    <3> QED BY <1>2, <1>3, <2>1, <2>4, <3>1, <3>2, <1>6, <1>7 DEF Ptr
  <2> QED BY <2>3, <2>4
<1> QED BY <1>4, <1>7

-----------------------------------------------------------------------------
LEMMA TailAt ==
  ASSUME NEW s \in Seq(T), Len(s) > 0
  PROVE  Tail(s) = [i \in 1..(Len(s) - 1) |-> s[i + 1]]
<1> DEFINE t == Tail(s)
<1>1. t \in Seq(T) /\ Len(t) = Len(s) - 1 /\ \A i \in 1..(Len(s) - 1) : t[i] = s[i + 1]
  OBVIOUS
<1> HIDE DEF t
<1>2. t = [i \in 1..Len(t) |-> t[i]]
  BY <1>1
<1>3. t = [i \in 1..(Len(s) - 1) |-> s[i + 1]]
  <2>1. t = [i \in 1..(Len(s) - 1) |-> t[i]]
    BY <1>1, <1>2
  <2> QED BY <1>1, <2>1, Zenon
<1> QED BY <1>3 DEF t

\* A clock is one Rise of the FIFO, whether the gate lets it through or not: the
\* gate closes when nothing moves, or when one element flows through an empty queue.
LEMMA PosedgeMoves ==
  ASSUME TypeOK, TypeOK', Posedge, w_chg
  PROVE  LET inside == IF enq.valid /\ enq_rdy THEN Append(Items, enq.bits) ELSE Items
         IN  Items' = IF deq.valid /\ deq_rdy THEN Tail(inside) ELSE inside
<1> DEFINE inside == IF enq.valid /\ enq_rdy THEN Append(Items, enq.bits) ELSE Items
           out == IF fire.do_deq THEN 1 ELSE 0
           in == IF fire.do_enq THEN 1 ELSE 0
<1>1. (enq.valid /\ enq_rdy <=> fire.do_enq) /\ (deq.valid /\ deq_rdy <=> fire.do_deq)
  BY QueueAssumption DEF Posedge, Rises, w_chg, fire, enq_rdy, deq, Empty, Full, TypeOK
<1>2. Items \in Seq(T) /\ Len(Items) = count /\ enq.bits \in T
  BY ItemsSeq DEF TypeOK, Channel
<1>3. inside \in Seq(T) /\ Len(inside) = count + in
  BY <1>1, <1>2
<1>4. /\ \A i \in 1..count : inside[i] = Items[i]
      /\ fire.do_enq => inside[count + 1] = enq.bits
  BY <1>1, <1>2
<1>5. Items' = [i \in 1..count' |-> Items'[i]]
  BY DEF Items
<1>6. count' = count + in - out /\ count \in Nat /\ (fire.do_deq => count > 0)
  <2>1. count' = count + in - out
    BY Moved
  <2>2. count \in Nat /\ (~Empty => count > 0)
    BY Window
  <2>3. fire.do_deq => ~Empty
    BY DEF fire
  <2> QED BY <2>1, <2>2, <2>3
<1>7. \A i \in 1..count' : Items'[i] = inside[i + out]
  <2> SUFFICES ASSUME NEW i \in 1..count' PROVE Items'[i] = inside[i + out]
    OBVIOUS
  <2>1. i + out <= count => Items'[i] = Items[i + out]
    BY Moved
  <2>2. i + out = count + 1 => Items'[i] = enq.bits
    BY Moved
  <2>3. in \in {0, 1} /\ out \in {0, 1} /\ (in = 1 => fire.do_enq)
    OBVIOUS
  <2> HIDE DEF in, out, inside
  <2>4. CASE i + out <= count
    <3>1. i + out \in 1..count
      BY <1>6, <2>3, <2>4
    <3> QED BY <1>4, <2>1, <2>4, <3>1
  <2>5. CASE i + out > count
    <3>1. i + out = count + 1 /\ in = 1
      BY <1>6, <2>3, <2>5
    <3> QED BY <1>4, <2>2, <2>3, <3>1
  <2> QED BY <1>6, <2>3, <2>4, <2>5
<1>8. CASE fire.do_deq
  <2>1. Len(inside) > 0 /\ out = 1 /\ count' = Len(inside) - 1
    BY <1>3, <1>6, <1>8
  <2>2. Tail(inside) = [i \in 1..(Len(inside) - 1) |-> inside[i + 1]]
    BY <1>3, <2>1, TailAt
  <2> HIDE DEF in, out, inside
  <2>3. \A i \in 1..count' : Items'[i] = inside[i + 1]
    BY <1>7, <2>1
  <2>4. Items' = [i \in 1..count' |-> inside[i + 1]]
    BY <1>5, <2>3, Zenon
  <2>5. Items' = Tail(inside)
    BY <2>1, <2>2, <2>4
  <2> QED BY <1>1, <1>8, <2>5 DEF inside
<1>9. CASE ~fire.do_deq
  <2>1. out = 0 /\ count' = Len(inside)
    BY <1>3, <1>6, <1>9
  <2>2. \A i \in 1..count' : i + out = i
    BY <2>1
  <2> HIDE DEF in, out, inside
  <2>3. inside = [i \in 1..Len(inside) |-> inside[i]]
    BY <1>3
  <2>4. \A i \in 1..count' : Items'[i] = inside[i]
    BY <1>7, <2>2, Zenon
  <2>5. Items' = [i \in 1..count' |-> inside[i]]
    BY <1>5, <2>4, Zenon
  <2>6. Items' = inside
    BY <2>1, <2>3, <2>5
  <2> QED BY <1>1, <1>9, <2>6 DEF inside
<1> QED BY <1>8, <1>9

LEMMA PosedgeIsRise ==
  ASSUME TypeOK, TypeOK', Posedge
  PROVE  LET inside == IF enq.valid /\ enq_rdy THEN Append(Items, enq.bits) ELSE Items
         IN  Items' = IF deq.valid /\ deq_rdy THEN Tail(inside) ELSE inside
<1>1. CASE w_chg
  BY <1>1, PosedgeMoves
<1>2. CASE ~w_chg
  <2>1. Items' = Items
    BY <1>2 DEF Posedge, Rises, Items, count, Slot
  <2>2. CASE mode.flow /\ Empty /\ enq.valid /\ deq_rdy
    <3>1. Items = <<>> /\ enq_rdy /\ deq.valid /\ enq.bits \in T
      BY <2>2, ItemsSeq, Window, QueueAssumption DEF Channel, enq_rdy, deq, Full, Empty, TypeOK
    <3> QED BY <2>1, <2>2, <3>1
  <2>3. CASE ~(mode.flow /\ Empty /\ enq.valid /\ deq_rdy)
    <3>1. ~(enq.valid /\ enq_rdy) /\ ~(deq.valid /\ deq_rdy)
      BY <1>2, <2>3, QueueAssumption DEF w_chg, fire, enq_rdy, deq, Empty, Full, TypeOK
    <3> QED BY <2>1, <3>1
  <2> QED BY <2>2, <2>3
<1> QED BY <1>1, <1>2

\* Every instance of the Queue implements the FIFO at its ports: initial states
\* map to initial states, and every step to a step or a stutter.
THEOREM QueueIsFifo == Spec => ImplementsFifo
<1>1. Init /\ TypeOK => Ring!Start
  <2> SUFFICES ASSUME Init, TypeOK PROVE Ring!Start
    OBVIOUS
  <2>1. Items = <<>>
    BY ItemsSeq DEF Init, count
  <2>2. PortsAgree
    BY Ports
  <2> QED BY <2>1, <2>2 DEF Init, TypeOK, Channel, Silent, Ring!Start, PortsAgree, Items
<1>2. TypeOK /\ TypeOK' /\ PortsAgree /\ PortsAgree' /\ [Next]_vars
        => [Ring!FifoNext]_Ring!fifoVars
  <2> SUFFICES ASSUME TypeOK, TypeOK', PortsAgree, PortsAgree', [Next]_vars
               PROVE  [Ring!FifoNext]_Ring!fifoVars
    OBVIOUS
  <2>1. ASSUME SetEnq \/ SetDeqRdy PROVE Ring!FifoNext
    <3>1. Ring!Inputs
      BY <2>1 DEF SetEnq, SetDeqRdy, Ring!Inputs, TypeOK, Channel, count, Slot
    <3> QED BY <2>1, <3>1 DEF SetEnq, SetDeqRdy, Ring!FifoNext, PortsAgree, Items
  <2>2. ASSUME Posedge PROVE Ring!FifoNext
    <3>1. Ring!Rise
      <4>1. (IF deq.valid THEN <<deq.bits>> ELSE <<>>) # <<>> <=> deq.valid
        OBVIOUS
      <4> QED BY <2>2, <4>1, PosedgeIsRise DEF Ring!Rise, Items, Posedge, Rises
    <3> QED BY <2>2, <3>1 DEF Posedge, Rises, Ring!FifoNext, PortsAgree, Items
  <2>3. ASSUME Negedge PROVE Ring!FifoNext
    <3>1. Ring!Fall
      BY <2>3 DEF Negedge, Falls, Ring!Fall, count, Slot
    <3> QED BY <2>3, <3>1 DEF Negedge, Falls, Ring!FifoNext, PortsAgree, Items
  <2>4. CASE UNCHANGED vars
    BY <2>4 DEF vars, Ring!fifoVars, count, Slot, deq, enq_rdy, Empty, Full
  <2> QED BY <2>1, <2>2, <2>3, <2>4 DEF Next
<1>3. TypeOK => PortsAgree
  BY Ports
<1> QED BY <1>1, <1>2, <1>3, QueueTypeCorrect, PTL DEF Spec, ImplementsFifo, Ring!Spec

-----------------------------------------------------------------------------
(***************************************************************************)
(* The ValidPipe, and the Queue that feeds one.                            *)
(***************************************************************************)
\* A stage only ever takes over a channel value.
THEOREM PipeTypeCorrect == PipeSpec => []PipeTypeOK
<1>1. PipeInit => PipeTypeOK
  <2>1. Silent \in Channel
    BY ChannelAssumption DEF Channel, Silent
  <2> QED BY <2>1 DEF PipeInit, PipeTypeOK
<1>2. PipeTypeOK /\ [PipeNext]_pipeVars => PipeTypeOK'
  <2> SUFFICES ASSUME PipeTypeOK, [PipeNext]_pipeVars PROVE PipeTypeOK'
    OBVIOUS
  <2>1. CASE PipeNext /\ Rises /\ Shift
    <3>1. \A i \in 1..Stages : Behind(i) \in Channel
      BY PipeAssumption DEF Behind, PipeTypeOK
    <3>2. Shifted \in [1..Stages -> Channel]
      BY <3>1 DEF Shifted, PipeTypeOK, Channel
    <3> QED BY <2>1, <3>2 DEF PipeNext, Rises, Shift, PipeTypeOK
  <2>2. CASE PipeNext /\ ~(Rises /\ Shift)
    BY <2>2 DEF PipeNext, Falls, PipeTypeOK
  <2>3. CASE UNCHANGED pipeVars
    BY <2>3 DEF pipeVars, PipeTypeOK
  <2> QED BY <2>1, <2>2, <2>3
<1> QED BY <1>1, <1>2, PTL DEF PipeSpec

\* With the gate closed there is nothing a shift would move.
LEMMA GateIsExact ==
  ASSUME PipeTypeOK, ~w_live PROVE Shifted = stages
<1>1. \A i \in 1..Stages : ~Behind(i).valid /\ ~stages[i].valid
  BY PipeAssumption DEF w_live, Behind
<1>2. \A i \in 1..Stages : stages[i] = [valid |-> FALSE, bits |-> stages[i].bits]
  BY <1>1 DEF PipeTypeOK, Channel
<1>3. \A i \in 1..Stages : Behind(i).valid = FALSE
  BY <1>1, PipeAssumption DEF Behind, PipeTypeOK, Channel
<1>4. stages = [i \in 1..Stages |-> stages[i]]
  BY DEF PipeTypeOK
<1> QED BY <1>2, <1>3, <1>4 DEF Shifted

\* What is under way, as the delay line sees it.
Past == [i \in 1..Stages |-> IF stages[i].valid THEN <<stages[i].bits>> ELSE <<>>]

\* The pipe implements the delay line: every clock, slept through or not, is one
\* Rise of it.
THEOREM PipeIsDelayLine == PipeSpec => ImplementsDelay
<1>1. PipeInit => Line!Start
  BY PipeAssumption DEF PipeInit, Silent, Line!Start, Exit
<1>2. PipeTypeOK /\ PipeTypeOK' /\ [PipeNext]_pipeVars
        => [Line!LineNext]_Line!lineVars
  <2> SUFFICES ASSUME PipeTypeOK, PipeTypeOK', [PipeNext]_pipeVars
               PROVE  [Line!LineNext]_Line!lineVars
    OBVIOUS
  <2>1. CASE PipeNext /\ ~(Rises /\ Shift)
    BY <2>1 DEF PipeNext, Falls, Line!LineNext, Line!Fall, Exit, Channel
  <2>2. CASE PipeNext /\ Rises /\ Shift
    <3>1. stages' = Shifted
      BY <2>2, GateIsExact DEF Shift
    <3>2. \A i \in 1..Stages : /\ stages'[i].valid = Behind(i).valid
                               /\ Behind(i).valid => stages'[i].bits = Behind(i).bits
                               /\ ~Behind(i).valid => stages'[i].bits = stages[i].bits
      BY <3>1 DEF Shifted
    <3>3. \A i \in 1..Stages : Past'[i] = IF i = 1 THEN Line!Entering ELSE Past[i - 1]
      BY <3>2, PipeAssumption DEF Past, Behind, Line!Entering
    <3>4. Past' = [i \in 1..Stages |-> IF i = 1 THEN Line!Entering ELSE Past[i - 1]]
      BY <3>3 DEF Past
    <3>5. Stages \in 1..Stages /\ stages'[Stages] \in Channel /\ stages'[Stages].valid \in BOOLEAN
      BY PipeAssumption DEF PipeTypeOK, Channel
    <3>6. Past'[Stages] = (IF stages'[Stages].valid THEN <<stages'[Stages].bits>> ELSE <<>>)
      BY <3>5 DEF Past
    <3>7. (Past'[Stages] # <<>>) = stages'[Stages].valid
      BY <3>5, <3>6
    <3>8. stages'[Stages].bits = IF Past'[Stages] # <<>> THEN Past'[Stages][1] ELSE Exit.bits
      BY <3>2, <3>5, <3>6, <3>7 DEF Exit
    <3>9. Exit' = [valid |-> Past'[Stages] # <<>>,
                  bits |-> IF Past'[Stages] # <<>> THEN Past'[Stages][1] ELSE Exit.bits]
      BY <3>5, <3>7, <3>8 DEF Exit, Channel
    <3> QED BY <2>2, <3>4, <3>9 DEF PipeNext, Rises, Channel, Line!LineNext, Line!Rise, Past
  <2>3. CASE UNCHANGED pipeVars
    BY <2>3 DEF pipeVars, Line!lineVars, Exit
  <2> QED BY <2>1, <2>2, <2>3
<1> QED BY <1>1, <1>2, PipeTypeCorrect, PTL DEF PipeSpec, ImplementsDelay, Line!Spec

-----------------------------------------------------------------------------
\* What the queue hands over when it fires is a channel value.
LEMMA FiredIsChannel == ASSUME TypeOK PROVE Fired \in Channel
<1>1. 0 \in Ptr /\ st.deq_ptr \in Ptr /\ st.ram[st.deq_ptr] \in T /\ enq.bits \in T
  BY QueueAssumption DEF TypeOK, QState, Ptr, Channel
<1>2. deq.valid \in BOOLEAN /\ deq_rdy \in BOOLEAN /\ deq.bits \in T
  BY <1>1 DEF deq, Empty, TypeOK, QState, Channel
<1> QED BY <1>2 DEF Fired, Channel

\* A queue that feeds a pipe is still the FIFO, and the pipe still the delay line:
\* the edge that pops an element is the one that shifts it in.
THEOREM DrainDelivers == DrainSpec => ImplementsFifo /\ ImplementsDelay
<1>1. DrainInit => Init /\ PipeInit
  BY DEF DrainInit
<1>2. [DrainNext]_drainVars => [Next]_vars
  BY DEF DrainNext, drainVars, Next
<1>3. (TypeOK => Fired \in Channel)'
  <2>1. TypeOK => Fired \in Channel
    BY FiredIsChannel
  <2> QED BY <2>1, PTL
<1>4. TypeOK' /\ [DrainNext]_drainVars => [PipeNext]_pipeVars
  <2> SUFFICES ASSUME TypeOK', DrainNext PROVE PipeNext
    BY DEF drainVars, vars, pipeVars
  <2>1. feed' \in Channel
    BY <1>3 DEF DrainNext
  <2>2. (Rises /\ Shift) \/ (Falls /\ UNCHANGED stages) \/ UNCHANGED <<clk, stages>>
    BY DEF DrainNext, SetEnq, SetDeqRdy, Posedge, Negedge
  <2> QED BY <2>1, <2>2 DEF PipeNext
<1>5. DrainSpec => Spec
  BY <1>1, <1>2, PTL DEF DrainSpec, Spec
<1>6. DrainSpec => PipeSpec
  BY <1>1, <1>4, <1>5, QueueTypeCorrect, PTL DEF DrainSpec, PipeSpec
<1> QED BY <1>5, <1>6, QueueIsFifo, PipeIsDelayLine, PTL
=============================================================================
