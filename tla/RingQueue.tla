------------------------------ MODULE RingQueue ------------------------------
(***************************************************************************)
(* components/queue: the ring buffer of pointers behind every channel.     *)
(* The queue is not thread safe: its owner calls it under the channel's    *)
(* mutex, so each call is one step.  `size' is kept beside the two indices *)
(* so that every slot can be used (queue.h:22-24).                         *)
(***************************************************************************)
EXTENDS Naturals, Sequences

CONSTANTS
    Items,      \* the pointers that are pushed
    NoItem,     \* a slot, or a caller's variable, that was never written
    Capacity    \* queue->capacity

ASSUME CapacityAssumption == Capacity \in Nat \ {0}
ASSUME ItemsAssumption == NoItem \notin Items

VARIABLES
    size, head, tail,   \* the counters of struct datadog_php_queue_s
    buffer,             \* its borrowed array of slots
    returned,           \* the value of the last call
    item_ref            \* the variable the caller passes to try_pop

vars == <<size, head, tail, buffer, returned, item_ref>>

Slots == 0..(Capacity - 1)

TypeOK ==
    /\ size \in 0..Capacity
    /\ head \in Slots
    /\ tail \in Slots
    /\ buffer \in [Slots -> Items \cup {NoItem}]
    /\ returned \in BOOLEAN
    /\ item_ref \in Items \cup {NoItem}

-----------------------------------------------------------------------------
(* datadog_php_queue_ctor *)
Init ==
    /\ size = 0
    /\ head = 0
    /\ tail = 0
    /\ buffer = [s \in Slots |-> NoItem]
    /\ returned = FALSE
    /\ item_ref = NoItem

\* Bug variant: the item is counted only by the indices.
TryPushUncounted(item) ==
    /\ size # Capacity
    /\ buffer' = [buffer EXCEPT ![head] = item]
    /\ head' = (head + 1) % Capacity
    /\ returned' = TRUE
    /\ UNCHANGED <<size, tail, item_ref>>

TryPush(item) ==
    /\ size # Capacity
    /\ size' = size + 1
    /\ buffer' = [buffer EXCEPT ![head] = item]
    /\ head' = (head + 1) % Capacity
    /\ returned' = TRUE
    /\ UNCHANGED <<tail, item_ref>>

TryPushFull ==
    /\ size = Capacity
    /\ returned' = FALSE
    /\ UNCHANGED <<size, head, tail, buffer, item_ref>>

TryPop ==
    /\ size # 0
    /\ item_ref' = buffer[tail]
    /\ size' = size - 1
    /\ tail' = (tail + 1) % Capacity
    /\ returned' = TRUE
    /\ UNCHANGED <<head, buffer>>

\* Bug variant: the caller's variable is written before the test.
TryPopEmptyWrites ==
    /\ size = 0
    /\ item_ref' = buffer[tail]
    /\ returned' = FALSE
    /\ UNCHANGED <<size, head, tail, buffer>>

TryPopEmpty ==
    /\ size = 0
    /\ returned' = FALSE
    /\ UNCHANGED <<size, head, tail, buffer, item_ref>>

Next ==
    \/ \E item \in Items : TryPush(item)
    \/ TryPushFull
    \/ TryPop
    \/ TryPopEmpty

Spec == Init /\ [][Next]_vars

-----------------------------------------------------------------------------
(* The slot i places after the slot s, going round the ring at most once. *)
Slot(s, i) == IF s + i < Capacity THEN s + i ELSE s + i - Capacity

(* The items the queue holds, oldest first. *)
Contents == [i \in 1..size |-> buffer[Slot(tail, i - 1)]]

(* The three counters agree: the next free slot is `size' places after the
   oldest item.  When they disagree (an increment lost, an index wrapped at
   another bound) try_pop hands out a stale or a never written pointer. *)
IndicesAgree == head = Slot(tail, size)

(* Every slot between tail and head was written: try_pop never reads one of
   the slots of the malloc'ed, uninitialised buffer. *)
LiveSlotsWritten == \A i \in 0..(size - 1) : buffer[Slot(tail, i)] \in Items

Inv == TypeOK /\ IndicesAgree /\ LiveSlotsWritten

(* The ring is a bounded first-in first-out queue to its caller: refusals,
   the item each pop hands out and the untouched variable of a pop that finds
   nothing are those of Fifo. *)
Abstract == INSTANCE Fifo WITH contents <- Contents
ImplementsFifo == Abstract!Spec
=============================================================================
