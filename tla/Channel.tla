------------------------------- MODULE Channel -------------------------------
(***************************************************************************)
(* components/channel: a bounded channel with many producers and one       *)
(* consumer.  Every operation but the final channel_dtor runs under the    *)
(* channel's mutex, so an action is a critical section; the receive that   *)
(* waits is two of them, with the condition variable in between, and the   *)
(* destruction of the channel comes in a step of its own after the unlock. *)
(* The queue inside is the sequence that RingQueue is proved to implement. *)
(*                                                                         *)
(* A handle belongs to one thread at a time.  A failing constructor        *)
(* (channel.c:156, 170, 174) gives its memory back and leaves no handle:   *)
(* it is a stutter here.                                                   *)
(***************************************************************************)
EXTENDS Naturals, Sequences, FiniteSets

CONSTANTS
    Senders,        \* storage for sender handles
    FirstSender,    \* the sender the constructor initialises
    Receiver,       \* the receiver handle
    Items, NoItem,  \* what is sent; NoItem: `data' was not written
    Capacity,
    CountMod        \* the counters are uint32_t: they count modulo 2^32

ASSUME SendersAssumption == FirstSender \in Senders /\ Receiver \notin Senders
ASSUME ItemsAssumption == NoItem \notin Items
ASSUME CapacityAssumption == Capacity \in Nat
ASSUME CountModAssumption == CountMod \in Nat \ {0, 1}

VARIABLES
    impl,           \* the malloc'ed datadog_php_channel_impl
    queue,          \* its queue, oldest item first
    receiver_count,
    sender_count,
    receiver,       \* what the receiver handle is doing
    sender,         \* what each sender handle is doing
    expired,        \* `now >= timeout_target' for the receive in progress
    result          \* what the last receive returned

vars == <<impl, queue, receiver_count, sender_count,
          receiver, sender, expired, result>>

(* "waiting": asleep on the condition variable, the mutex released.
   "woken": no longer asleep, about to take the mutex again.
   "destroy": found itself the last handle and has released the mutex.
   "gone": its `channel' pointer is NULL, or it was never constructed. *)
ReceiverStates == {"gone", "idle", "waiting", "woken", "destroy"}
SenderStates == {"gone", "idle", "destroy"}

TypeOK ==
    /\ impl \in {"none", "live", "freed"}
    /\ queue \in Seq(Items)
    /\ Len(queue) \in 0..Capacity
    /\ receiver_count \in {0, 1}
    /\ sender_count \in 0..(CountMod - 1)
    /\ receiver \in ReceiverStates
    /\ sender \in [Senders -> SenderStates]
    /\ expired \in BOOLEAN
    /\ result \in Items \cup {NoItem}

Init ==
    /\ impl = "none"
    /\ queue = <<>>
    /\ receiver_count = 0
    /\ sender_count = 0
    /\ receiver = "gone"
    /\ sender = [s \in Senders |-> "gone"]
    /\ expired = FALSE
    /\ result = NoItem

(* datadog_php_channel_ctor *)
Ctor ==
    /\ impl = "none"
    /\ impl' = "live"
    /\ receiver_count' = 1
    /\ sender_count' = 1
    /\ receiver' = "idle"
    /\ sender' = [sender EXCEPT ![FirstSender] = "idle"]
    /\ UNCHANGED <<queue, expired, result>>

-----------------------------------------------------------------------------
(* receiver_recv *)

Pop ==
    /\ queue # <<>>
    /\ queue' = Tail(queue)
    /\ result' = Head(queue)
    /\ receiver' = "idle"

EmptyHanded ==
    /\ queue = <<>>
    /\ result' = NoItem
    /\ receiver' = "idle"
    /\ UNCHANGED queue

GoToSleep ==
    /\ queue = <<>>
    /\ sender_count # 0
    /\ receiver' = "waiting"
    /\ UNCHANGED <<queue, result>>

\* Bug variant: the condition before the wait is negated.
RecvNoWait(timeout) ==
    /\ receiver = "idle"
    /\ expired' = FALSE
    /\ Pop \/ EmptyHanded
    /\ UNCHANGED <<impl, receiver_count, sender_count, sender>>

(* The first attempt; `timeout' says whether timeout_nanos is not zero. *)
Recv(timeout) ==
    /\ receiver = "idle"
    /\ expired' = FALSE
    /\ \/ Pop
       \/ timeout /\ GoToSleep
       \/ ~(timeout /\ sender_count # 0) /\ EmptyHanded
    /\ UNCHANGED <<impl, receiver_count, sender_count, sender>>

(* The clock passes timeout_target. *)
DeadlinePasses ==
    /\ receiver \in {"waiting", "woken"}
    /\ ~expired
    /\ expired' = TRUE
    /\ UNCHANGED <<impl, queue, receiver_count, sender_count,
                   receiver, sender, result>>

(* uv_cond_timedwait returns without a signal: at the deadline, or spuriously
   at any time, which the code treats the same (channel.c:52-55). *)
WakeUnsignalled ==
    /\ receiver = "waiting"
    /\ receiver' = "woken"
    /\ UNCHANGED <<impl, queue, receiver_count, sender_count,
                   sender, expired, result>>

TimedOut == expired /\ WakeUnsignalled

\* Bug variant: a receive that timed out does not look again.
RecvResumeNoRetry ==
    /\ receiver = "woken"
    /\ \/ ~expired /\ (Pop \/ GoToSleep)
       \/ expired /\ result' = NoItem /\ receiver' = "idle" /\ UNCHANGED queue
       \/ sender_count = 0 /\ EmptyHanded
    /\ UNCHANGED <<impl, receiver_count, sender_count, sender, expired>>

\* Bug variant: the loop forgets its deadline.
RecvResumeForever ==
    /\ receiver = "woken"
    /\ \/ Pop
       \/ GoToSleep
       \/ sender_count = 0 /\ EmptyHanded
    /\ UNCHANGED <<impl, receiver_count, sender_count, sender, expired>>

(* The body of the loop after the wait, and its condition. *)
RecvResume ==
    /\ receiver = "woken"
    /\ \/ Pop
       \/ ~expired /\ GoToSleep
       \/ (expired \/ sender_count = 0) /\ EmptyHanded
    /\ UNCHANGED <<impl, receiver_count, sender_count, sender, expired>>

-----------------------------------------------------------------------------
\* Bug variant: no check of the capacity.
SendUnchecked(s, item) ==
    /\ sender[s] = "idle"
    /\ queue' = Append(queue, item)
    /\ receiver' = IF receiver = "waiting" THEN "woken" ELSE receiver
    /\ UNCHANGED <<impl, receiver_count, sender_count, sender, expired, result>>

\* Bug variant: no signal.
SendSilent(s, item) ==
    /\ sender[s] = "idle"
    /\ Len(queue) < Capacity
    /\ queue' = Append(queue, item)
    /\ UNCHANGED <<impl, receiver_count, sender_count,
                   receiver, sender, expired, result>>

(* sender_send.  uv_cond_signal wakes the one thread that may be waiting. *)
Send(s, item) ==
    /\ sender[s] = "idle"
    /\ Len(queue) < Capacity
    /\ queue' = Append(queue, item)
    /\ receiver' = IF receiver = "waiting" THEN "woken" ELSE receiver
    /\ UNCHANGED <<impl, receiver_count, sender_count, sender, expired, result>>

\* Bug variant: the clone is not counted.
CloneUncounted(s, clone) ==
    /\ sender[s] = "idle"
    /\ sender[clone] = "gone"
    /\ sender' = [sender EXCEPT ![clone] = "idle"]
    /\ UNCHANGED <<impl, queue, receiver_count, sender_count,
                   receiver, expired, result>>

(* sender_clone: `clone' is any storage that holds no open handle. *)
Clone(s, clone) ==
    /\ sender[s] = "idle"
    /\ sender[clone] = "gone"
    /\ sender_count' = (sender_count + 1) % CountMod
    /\ sender' = [sender EXCEPT ![clone] = "idle"]
    /\ UNCHANGED <<impl, queue, receiver_count, receiver, expired, result>>

Decrement(count) == IF count = 0 THEN CountMod - 1 ELSE count - 1

\* Bug variant: the last sender frees the channel, receiver or not.
SenderDtorAlone(s) ==
    /\ sender[s] = "idle"
    /\ sender_count' = Decrement(sender_count)
    /\ sender' = [sender EXCEPT ![s] =
                    IF sender_count' = 0 THEN "destroy" ELSE "gone"]
    /\ UNCHANGED <<impl, queue, receiver_count, receiver, expired, result>>

(* sender_dtor *)
SenderDtor(s) ==
    /\ sender[s] = "idle"
    /\ sender_count' = Decrement(sender_count)
    /\ sender' = [sender EXCEPT ![s] =
                    IF receiver_count = 0 /\ sender_count' = 0
                    THEN "destroy" ELSE "gone"]
    /\ UNCHANGED <<impl, queue, receiver_count, receiver, expired, result>>

\* Bug variant: only senders free the channel.
ReceiverDtorKeeps ==
    /\ receiver = "idle"
    /\ receiver_count' = Decrement(receiver_count)
    /\ receiver' = "gone"
    /\ UNCHANGED <<impl, queue, sender_count, sender, expired, result>>

(* receiver_dtor *)
ReceiverDtor ==
    /\ receiver = "idle"
    /\ receiver_count' = Decrement(receiver_count)
    /\ receiver' = IF receiver_count' = 0 /\ sender_count = 0
                   THEN "destroy" ELSE "gone"
    /\ UNCHANGED <<impl, queue, sender_count, sender, expired, result>>

(* channel_dtor, after the unlock *)
ChannelDtor ==
    /\ \/ /\ receiver = "destroy"
          /\ receiver' = "gone"
          /\ UNCHANGED sender
       \/ \E s \in Senders :
             /\ sender[s] = "destroy"
             /\ sender' = [sender EXCEPT ![s] = "gone"]
             /\ UNCHANGED receiver
    /\ impl' = "freed"
    /\ UNCHANGED <<queue, receiver_count, sender_count, expired, result>>

Next ==
    \/ Ctor
    \/ \E timeout \in BOOLEAN : Recv(timeout)
    \/ DeadlinePasses
    \/ WakeUnsignalled
    \/ RecvResume
    \/ \E s \in Senders, item \in Items : Send(s, item)
    \/ \E s, clone \in Senders : Clone(s, clone)
    \/ \E s \in Senders : SenderDtor(s)
    \/ ReceiverDtor
    \/ ChannelDtor

Spec == Init /\ [][Next]_vars

(* A runnable thread runs; nothing is assumed of the clock. *)
ThreadsSpec == Spec /\ WF_vars(RecvResume) /\ WF_vars(ChannelDtor)

(* Time passes, and a wait that timed out ends. *)
ClockRuns == WF_vars(DeadlinePasses) /\ WF_vars(TimedOut)

-----------------------------------------------------------------------------
OpenSenders == {s \in Senders : sender[s] = "idle"}
ReceiverOpen == receiver \in {"idle", "waiting", "woken"}
OpenHandles == OpenSenders \cup IF ReceiverOpen THEN {Receiver} ELSE {}
Destroyers == {s \in Senders : sender[s] = "destroy"}
                 \cup IF receiver = "destroy" THEN {Receiver} ELSE {}

(* The two counters say how many handles can still reach the channel, whatever
   the order in which clones are made and handles destructed. *)
RefCountsExact ==
    /\ receiver_count = IF ReceiverOpen THEN 1 ELSE 0
    /\ sender_count = Cardinality(OpenSenders)

(* The memory is there for every handle that can still use it (each operation
   locks channel->mutex) and for the thread that is about to destroy it. *)
NoUseAfterFree == OpenHandles \cup Destroyers # {} => impl = "live"

(* Of the handles destructed concurrently exactly one frees the channel, and
   only when no other is left: no double free, and no channel that nobody
   destroys. *)
OneDestroyer ==
    /\ Destroyers # {} => OpenHandles = {}
    /\ \A g, h \in Destroyers : g = h
    /\ impl = "live" => OpenHandles \cup Destroyers # {}

(* A sleeping receiver has nothing to receive: no interleaving of a send, the
   wait and a wake-up leaves an item behind a consumer that nobody wakes. *)
NoLostWakeup == receiver = "waiting" => queue = <<>>

(* An item in the queue is taken by a receive in progress although the clock
   stands still: the signal alone gets it there. *)
ItemWakesReceiver ==
    (receiver \in {"waiting", "woken"} /\ queue # <<>>) ~> (receiver = "idle")

(* With a running clock every receive returns, with or without an item, whoever
   sends, clones or destructs meanwhile. *)
RecvReturns ==
    ClockRuns => ((receiver \in {"waiting", "woken"}) ~> (receiver = "idle"))

(* The channel is a mailbox to its users. *)
Abstract == INSTANCE Mailbox WITH
    box <- queue,
    open <- OpenHandles,
    storage <- CASE impl = "none" -> "none"
                 [] impl = "live" -> "allocated"
                 [] impl = "freed" -> "released"
ImplementsMailbox == Abstract!Spec

=============================================================================
