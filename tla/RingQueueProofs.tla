--------------------------- MODULE RingQueueProofs ---------------------------
(* Proofs about RingQueue, for every capacity and every set of pointers:    *)
(* its counters agree, no unwritten slot is read, and it implements Fifo.   *)
EXTENDS RingQueue, SequenceTheorems, TLAPS

(* One step round the ring: `% capacity' is a conditional reset to zero for
   the only operands queue.c gives it. *)
LEMMA StepRoundRing ==
    ASSUME NEW s \in Slots
    PROVE  /\ (s + 1) % Capacity = Slot(s, 1)
           /\ Slot(s, 1) \in Slots
<1>0. Capacity \in Nat /\ Capacity > 0 /\ s \in Nat /\ s < Capacity
  BY CapacityAssumption DEF Slots
<1>1. CASE s + 1 < Capacity
  <2>1. (s + 1) % Capacity = s + 1
    BY <1>0, <1>1
  <2>2. Slot(s, 1) = s + 1
    BY <1>1 DEF Slot
  <2> QED
    BY <2>1, <2>2, <1>0, <1>1 DEF Slots
<1>2. CASE s + 1 >= Capacity
  <2>1. s + 1 = Capacity
    BY <1>0, <1>2
  <2>2. Capacity % Capacity = 0
    BY <1>0
  <2>3. Slot(s, 1) = 0
    BY <2>1, <1>0 DEF Slot
  <2> QED
    BY <2>1, <2>2, <2>3, <1>0 DEF Slots
<1> QED
  BY <1>0, <1>1, <1>2

(* Walking i places and then one more is walking i + 1 places. *)
LEMMA SlotSucc ==
    ASSUME NEW s \in Slots, NEW i \in 0..(Capacity - 1)
    PROVE  /\ Slot(s, i) \in Slots
           /\ Slot(Slot(s, i), 1) = Slot(s, i + 1)
           /\ Slot(Slot(s, 1), i) = Slot(s, i + 1)
BY CapacityAssumption DEF Slots, Slot

(* Fewer than Capacity places apart are different slots. *)
LEMMA SlotInjective ==
    ASSUME NEW s \in Slots, NEW i \in Slots, NEW j \in Slots, i # j
    PROVE  Slot(s, i) # Slot(s, j)
BY CapacityAssumption DEF Slots, Slot

-----------------------------------------------------------------------------
LEMMA InitInv == Init => Inv
<1> SUFFICES ASSUME Init PROVE Inv
  OBVIOUS
<1>0. Capacity \in Nat /\ Capacity > 0 /\ 0 \in Slots
  BY CapacityAssumption DEF Slots
<1>1. TypeOK
  <2>1. size \in 0..Capacity /\ head \in Slots /\ tail \in Slots
    BY <1>0 DEF Init
  <2>2. buffer \in [Slots -> Items \cup {NoItem}]
    BY DEF Init
  <2> QED
    BY <2>1, <2>2 DEF Init, TypeOK
<1>2. IndicesAgree
  BY <1>0 DEF Init, IndicesAgree, Slot
<1>3. LiveSlotsWritten
  BY DEF Init, LiveSlotsWritten
<1> QED
  BY <1>1, <1>2, <1>3 DEF Inv

(* The inductive step: each call of the queue preserves the three parts. *)
LEMMA NextInv == Inv /\ [Next]_vars => Inv'
<1> SUFFICES ASSUME Inv, [Next]_vars
             PROVE  Inv'
  OBVIOUS
<1> USE DEF Inv
<1>0. Capacity \in Nat /\ Capacity > 0
  BY CapacityAssumption
<1>1. ASSUME NEW item \in Items, TryPush(item)
      PROVE  Inv'
  <2>1. head' = Slot(head, 1) /\ head' \in Slots
    BY <1>1, StepRoundRing DEF TryPush, TypeOK
  <2>2. size \in 0..(Capacity - 1) /\ size' = size + 1
    BY <1>0, <1>1 DEF TryPush, TypeOK
  <2>3. TypeOK'
    BY <1>0, <1>1, <2>1, <2>2 DEF TryPush, TypeOK
  <2>4. IndicesAgree'
    BY <1>1, <2>1, <2>2, SlotSucc DEF TryPush, TypeOK, IndicesAgree
  <2>5. LiveSlotsWritten'
    <3> SUFFICES ASSUME NEW i \in 0..(size' - 1)
                 PROVE  buffer'[Slot(tail, i)] \in Items
      BY <1>1 DEF TryPush, LiveSlotsWritten
    <3>0. i \in Slots /\ size \in Slots
      BY <1>0, <2>2 DEF Slots
    <3>1. i \in Slots /\ size \in Slots /\ Slot(tail, i) \in Slots
      BY <3>0, SlotSucc DEF TypeOK, Slots
    <3>2. CASE i = size
      BY <3>1, <3>2, <1>1 DEF TryPush, TypeOK, IndicesAgree
    <3>3. CASE i # size
      <4>1. i \in 0..(size - 1)
        BY <3>3, <2>2
      <4>2. Slot(tail, i) # head
        BY <3>1, <3>3, SlotInjective DEF TypeOK, IndicesAgree
      <4> QED
        BY <4>1, <4>2, <3>1, <1>1 DEF TryPush, TypeOK, LiveSlotsWritten
    <3> QED
      BY <3>2, <3>3
  <2> QED
    BY <2>3, <2>4, <2>5
<1>2. ASSUME TryPop
      PROVE  Inv'
  <2>1. tail' = Slot(tail, 1) /\ tail' \in Slots
    BY <1>2, StepRoundRing DEF TryPop, TypeOK
  <2>2. size \in 1..Capacity /\ size' = size - 1 /\ size - 1 \in 0..(Capacity - 1)
    BY <1>0, <1>2 DEF TryPop, TypeOK
  <2>3. buffer[tail] \in Items
    BY <1>0, <2>2 DEF LiveSlotsWritten, TypeOK, Slots, Slot
  <2>4. TypeOK'
    BY <1>0, <1>2, <2>1, <2>2, <2>3 DEF TryPop, TypeOK
  <2>5. IndicesAgree'
    <3>1. Slot(Slot(tail, 1), size - 1) = Slot(tail, (size - 1) + 1)
      BY <2>2, SlotSucc DEF TypeOK
    <3> QED
      BY <1>2, <2>1, <2>2, <3>1 DEF TryPop, TypeOK, IndicesAgree
  <2>6. LiveSlotsWritten'
    <3> SUFFICES ASSUME NEW i \in 0..(size' - 1)
                 PROVE  buffer[Slot(tail', i)] \in Items
      BY <1>2 DEF TryPop, LiveSlotsWritten
    <3>1. i \in 0..(Capacity - 1) /\ i + 1 \in 0..(size - 1)
      BY <1>0, <2>2
    <3>2. Slot(tail', i) = Slot(tail, i + 1)
      BY <2>1, <3>1, SlotSucc DEF TypeOK
    <3> QED
      BY <3>1, <3>2 DEF LiveSlotsWritten
  <2> QED
    BY <2>4, <2>5, <2>6
<1>3. CASE TryPushFull
  BY <1>3 DEF TryPushFull, TypeOK, IndicesAgree, LiveSlotsWritten
<1>4. CASE TryPopEmpty
  BY <1>4 DEF TryPopEmpty, TypeOK, IndicesAgree, LiveSlotsWritten
<1>5. CASE UNCHANGED vars
  BY <1>5 DEF vars, TypeOK, IndicesAgree, LiveSlotsWritten
<1> QED
  BY <1>1, <1>2, <1>3, <1>4, <1>5 DEF Next

(* queue.c, in any sequence of calls: the counters keep their types and agree
   with each other, and try_pop only reads slots that try_push wrote. *)
THEOREM RingInvariant == Spec => [](TypeOK /\ IndicesAgree /\ LiveSlotsWritten)
<1>1. Init => Inv
  BY InitInv
<1>2. Inv /\ [Next]_vars => Inv'
  BY NextInv
<1>3. Inv => TypeOK /\ IndicesAgree /\ LiveSlotsWritten
  BY DEF Inv
<1> QED
  BY <1>1, <1>2, <1>3, PTL DEF Spec

-----------------------------------------------------------------------------
(* What the three abstract steps say of the ring's contents. *)
LEMMA PushAppends ==
    ASSUME Inv, NEW item \in Items, TryPush(item)
    PROVE  Contents' = Append(Contents, item)
<1>0. Capacity \in Nat /\ Capacity > 0
  BY CapacityAssumption
<1>1. size \in 0..(Capacity - 1) /\ size' = size + 1 /\ tail' = tail /\ tail \in Slots
  BY <1>0 DEF Inv, TypeOK, TryPush
<1>2. Contents' = [i \in 1..(size + 1) |-> buffer'[Slot(tail, i - 1)]]
  BY <1>1 DEF Contents
<1>3. ASSUME NEW i \in 1..(size + 1)
      PROVE  buffer'[Slot(tail, i - 1)]
               = IF i = size + 1 THEN item ELSE buffer[Slot(tail, i - 1)]
  <2>1. i - 1 \in Slots /\ size \in Slots /\ Slot(tail, i - 1) \in Slots
    BY <1>0, <1>1, SlotSucc DEF Slots
  <2>2. CASE i = size + 1
    BY <2>1, <2>2, <1>1 DEF TryPush, Inv, TypeOK, IndicesAgree
  <2>3. CASE i # size + 1
    <3>1. i - 1 # size
      BY <2>3, <1>1
    <3>2. Slot(tail, i - 1) # Slot(tail, size)
      BY <2>1, <3>1, <1>1, SlotInjective
    <3>3. Slot(tail, i - 1) # head
      BY <3>2 DEF Inv, IndicesAgree
    <3> QED
      BY <3>3, <2>1, <2>3 DEF TryPush, Inv, TypeOK
  <2> QED
    BY <2>2, <2>3
<1>4. Len(Contents) = size
  BY <1>1 DEF Contents
<1>5. Append(Contents, item)
        = [i \in 1..(size + 1) |-> IF i = size + 1 THEN item ELSE Contents[i]]
  BY <1>1, <1>4 DEF Contents
<1>6. ASSUME NEW i \in 1..(size + 1), i # size + 1
      PROVE  Contents[i] = buffer[Slot(tail, i - 1)]
  BY <1>1, <1>6 DEF Contents
<1> QED
  BY <1>2, <1>3, <1>5, <1>6

LEMMA PopTakesHead ==
    ASSUME Inv, TryPop
    PROVE  /\ Contents # <<>>
           /\ item_ref' = Head(Contents)
           /\ Contents' = Tail(Contents)
<1>0. Capacity \in Nat /\ Capacity > 0
  BY CapacityAssumption
<1>1. /\ size \in 1..Capacity /\ size' = size - 1 /\ size - 1 \in 0..(Capacity - 1)
      /\ tail \in Slots /\ tail' = Slot(tail, 1)
      /\ buffer' = buffer /\ item_ref' = buffer[tail]
  BY <1>0, StepRoundRing DEF Inv, TypeOK, TryPop
<1>2. Contents \in Seq(Items) /\ Len(Contents) = size
  <2>1. ASSUME NEW i \in 1..size
        PROVE  buffer[Slot(tail, i - 1)] \in Items
    <3>1. i - 1 \in 0..(size - 1)
      BY <1>1
    <3> QED
      BY <3>1 DEF Inv, LiveSlotsWritten
  <2> QED
    BY <2>1, <1>1 DEF Contents
<1>3. Contents # <<>>
  BY <1>1, <1>2
<1>4. Head(Contents) = buffer[tail]
  <2>1. Head(Contents) = Contents[1]
    BY <1>2, <1>3
  <2>2. Contents[1] = buffer[Slot(tail, 0)]
    BY <1>1 DEF Contents
  <2>3. Slot(tail, 0) = tail
    BY <1>0, <1>1 DEF Slots, Slot
  <2> QED
    BY <2>1, <2>2, <2>3
<1>5. Contents' = [i \in 1..(size - 1) |-> buffer[Slot(Slot(tail, 1), i - 1)]]
  BY <1>1 DEF Contents
<1>6. /\ Tail(Contents) \in Seq(Items)
      /\ Len(Tail(Contents)) = size - 1
      /\ \A i \in 1..(size - 1) : Tail(Contents)[i] = Contents[i + 1]
  BY <1>2, <1>3, HeadTailProperties
<1>7. ASSUME NEW i \in 1..(size - 1)
      PROVE  buffer[Slot(Slot(tail, 1), i - 1)] = Contents[i + 1]
  <2>1. i - 1 \in 0..(Capacity - 1) /\ i + 1 \in 1..size /\ (i - 1) + 1 = (i + 1) - 1
    BY <1>0, <1>1
  <2>2. Slot(Slot(tail, 1), i - 1) = Slot(tail, (i - 1) + 1)
    BY <2>1, <1>1, SlotSucc
  <2>3. Contents[i + 1] = buffer[Slot(tail, (i + 1) - 1)]
    BY <2>1 DEF Contents
  <2> QED
    BY <2>1, <2>2, <2>3
<1>8. Contents' \in Seq(Items) /\ Len(Contents') = size - 1
  <2>1. ASSUME NEW i \in 1..(size - 1)
        PROVE  buffer[Slot(Slot(tail, 1), i - 1)] \in Items
    BY <1>2, <1>7, <1>1
  <2> QED
    BY <2>1, <1>1, <1>5
<1>9. Contents' = Tail(Contents)
  BY <1>5, <1>6, <1>7, <1>8, SeqEqual
<1> QED
  BY <1>1, <1>3, <1>4, <1>9

(* How many items the ring holds. *)
LEMMA ContentsLength ==
    ASSUME Inv
    PROVE  Len(Contents) = size /\ (Contents = <<>> <=> size = 0)
<1>1. size \in Nat
  BY CapacityAssumption DEF Inv, TypeOK
<1>2. Len(Contents) = size
  BY <1>1 DEF Contents
<1>3. ASSUME Contents = <<>> PROVE size = 0
  BY <1>2, <1>3
<1>4. ASSUME size = 0 PROVE Contents = <<>>
  BY <1>4 DEF Contents
<1> QED
  BY <1>2, <1>3, <1>4

(* components/queue is a bounded FIFO: the ring's slots, indices and wrap-around
   never show in what try_push and try_pop return or hand out. *)
THEOREM RingImplementsFifo == Spec => ImplementsFifo
<1>1. Init => Abstract!Init
  BY DEF Init, Abstract!Init, Contents
<1>2. Inv /\ [Next]_vars => [Abstract!Next]_(Abstract!vars)
  <2> SUFFICES ASSUME Inv, [Next]_vars
               PROVE  [Abstract!Next]_(Abstract!vars)
    OBVIOUS
  <2>0. Capacity \in Nat /\ size \in 0..Capacity
    BY CapacityAssumption DEF Inv, TypeOK
  <2>1. ASSUME NEW item \in Items, TryPush(item)
        PROVE  Abstract!Push(item)
    <3>1. Len(Contents) < Capacity
      BY <2>0, <2>1, ContentsLength DEF TryPush
    <3> QED
      BY <2>1, <3>1, PushAppends DEF TryPush, Abstract!Push
  <2>2. ASSUME TryPop
        PROVE  Abstract!PopItem
    BY <2>2, PopTakesHead DEF TryPop, Abstract!PopItem
  <2>3. ASSUME TryPushFull
        PROVE  Abstract!RefusePush
    <3>1. Contents' = Contents
      BY <2>3 DEF TryPushFull, Contents
    <3> QED
      BY <2>3, <3>1, ContentsLength DEF TryPushFull, Abstract!RefusePush
  <2>4. ASSUME TryPopEmpty
        PROVE  Abstract!PopNothing
    <3>1. Contents' = Contents
      BY <2>4 DEF TryPopEmpty, Contents
    <3> QED
      BY <2>4, <3>1, ContentsLength DEF TryPopEmpty, Abstract!PopNothing
  <2>5. ASSUME UNCHANGED vars
        PROVE  UNCHANGED Abstract!vars
    BY <2>5 DEF vars, Abstract!vars, Contents
  <2> QED
    BY <2>1, <2>2, <2>3, <2>4, <2>5 DEF Next, Abstract!Next
<1> QED
  BY <1>1, <1>2, RingInvariant, InitInv, NextInv, PTL
     DEF Spec, ImplementsFifo, Abstract!Spec, Inv
=============================================================================
