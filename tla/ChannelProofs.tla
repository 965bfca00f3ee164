---------------------------- MODULE ChannelProofs ----------------------------
(* Proofs about Channel, for any number of sender handles that the counters *)
(* can count, any set of items and any capacity.                            *)
EXTENDS Channel, FiniteSetTheorems, TLAPS

(* The memory bound of the process stands for it in the code: there is no room
   for 2^32 sender handles. *)
CountsFit == IsFiniteSet(Senders) /\ Cardinality(Senders) < CountMod

Inv == /\ TypeOK
       /\ RefCountsExact
       /\ NoUseAfterFree
       /\ OneDestroyer
       /\ NoLostWakeup

-----------------------------------------------------------------------------
(* The counters can tell how many senders are open. *)
LEMMA OpenSendersFinite ==
    ASSUME CountsFit
    PROVE  /\ OpenSenders \subseteq Senders
           /\ IsFiniteSet(OpenSenders)
           /\ Cardinality(OpenSenders) \in Nat
           /\ Cardinality(OpenSenders) <= Cardinality(Senders)
           /\ Cardinality(OpenSenders) = 0 <=> OpenSenders = {}
           /\ Cardinality(Senders) \in Nat
BY FS_Subset, FS_CardinalityType, FS_EmptySet DEF CountsFit, OpenSenders

LEMMA InitInv == ASSUME Init PROVE Inv
<1>1. TypeOK
  <2>1. queue \in Seq(Items) /\ Len(queue) \in 0..Capacity
    BY CapacityAssumption DEF Init
  <2>2. sender \in [Senders -> SenderStates] /\ receiver \in ReceiverStates
    BY DEF Init, SenderStates, ReceiverStates
  <2>3. sender_count \in 0..(CountMod - 1)
    BY CountModAssumption DEF Init
  <2> QED
    BY <2>1, <2>2, <2>3 DEF Init, TypeOK
<1>2. OpenSenders = {} /\ ~ReceiverOpen /\ OpenHandles = {} /\ Destroyers = {}
  BY DEF Init, OpenSenders, ReceiverOpen, OpenHandles, Destroyers
<1>3. RefCountsExact
  BY <1>2, FS_EmptySet DEF Init, RefCountsExact
<1>4. NoUseAfterFree /\ OneDestroyer /\ NoLostWakeup
  BY <1>2 DEF Init, NoUseAfterFree, OneDestroyer, NoLostWakeup
<1> QED
  BY <1>1, <1>3, <1>4 DEF Inv

(* A step that opens and closes no handle and leaves the counters alone only
   has to keep the types and the sleeper's queue. *)
LEMMA HandlesUntouched ==
    ASSUME Inv, TypeOK', NoLostWakeup',
           UNCHANGED <<impl, receiver_count, sender_count, sender>>,
           receiver \in {"idle", "waiting", "woken"} <=>
               receiver' \in {"idle", "waiting", "woken"},
           receiver = "destroy" <=> receiver' = "destroy"
    PROVE  Inv'
<1>1. /\ OpenSenders' = OpenSenders
      /\ ReceiverOpen' = ReceiverOpen
      /\ OpenHandles' = OpenHandles
      /\ Destroyers' = Destroyers
  BY DEF OpenSenders, ReceiverOpen, OpenHandles, Destroyers
<1> QED
  BY <1>1 DEF Inv, RefCountsExact, NoUseAfterFree, OneDestroyer

(* While a handle is open the channel is there and nobody is destroying it. *)
LEMMA OpenMeansLive ==
    ASSUME Inv, OpenHandles # {}
    PROVE  impl = "live" /\ Destroyers = {}
BY DEF Inv, NoUseAfterFree, OneDestroyer

LEMMA CtorInv == ASSUME Inv, Ctor PROVE Inv'
<1>1. OpenHandles = {} /\ Destroyers = {}
  BY DEF Inv, NoUseAfterFree, Ctor
<1>2. \A s \in Senders : sender[s] = "gone"
  BY <1>1 DEF Inv, TypeOK, SenderStates, OpenHandles, OpenSenders, Destroyers
<1>3. OpenSenders' = {FirstSender}
  BY <1>2, SendersAssumption DEF Ctor, Inv, TypeOK, OpenSenders
<1>4. ReceiverOpen' /\ Destroyers' = {} /\ OpenHandles' # {}
  BY <1>2, <1>3, SendersAssumption
     DEF Ctor, Inv, TypeOK, ReceiverOpen, Destroyers, OpenHandles
<1>5. TypeOK'
  BY SendersAssumption, CountModAssumption
     DEF Ctor, Inv, TypeOK, ReceiverStates, SenderStates
<1>6. RefCountsExact'
  BY <1>3, <1>4, FS_Singleton DEF Ctor, RefCountsExact
<1>7. NoUseAfterFree' /\ OneDestroyer' /\ NoLostWakeup'
  BY <1>3, <1>4 DEF Ctor, NoUseAfterFree, OneDestroyer, NoLostWakeup
<1> QED
  BY <1>5, <1>6, <1>7 DEF Inv

(* The two ways a critical section of receiver_recv can end, and the wait. *)
LEMMA RecvInv ==
    ASSUME Inv, receiver \in {"idle", "woken"},
           Pop \/ EmptyHanded \/ GoToSleep,
           UNCHANGED <<impl, receiver_count, sender_count, sender>>,
           expired' \in BOOLEAN
    PROVE  Inv'
<1>1. queue' \in Seq(Items) /\ Len(queue') \in 0..Capacity
  <2>1. CASE Pop
    BY <2>1, CapacityAssumption DEF Pop, Inv, TypeOK
  <2>2. CASE EmptyHanded \/ GoToSleep
    BY <2>2 DEF EmptyHanded, GoToSleep, Inv, TypeOK
  <2> QED
    BY <2>1, <2>2
<1>2. result' \in Items \cup {NoItem}
  BY DEF Pop, EmptyHanded, GoToSleep, Inv, TypeOK
<1>3. receiver' \in {"idle", "waiting"} /\ (receiver' = "waiting" => queue' = <<>>)
  BY DEF Pop, EmptyHanded, GoToSleep
<1>4. TypeOK'
  BY <1>1, <1>2, <1>3 DEF Inv, TypeOK, ReceiverStates
<1>5. NoLostWakeup'
  BY <1>3 DEF NoLostWakeup
<1> QED
  BY <1>3, <1>4, <1>5, HandlesUntouched

LEMMA SendInv ==
    ASSUME Inv, NEW s \in Senders, NEW item \in Items, Send(s, item)
    PROVE  Inv'
<1>1. queue' \in Seq(Items) /\ Len(queue') \in 0..Capacity
  BY CapacityAssumption DEF Send, Inv, TypeOK
<1>2. TypeOK'
  BY <1>1 DEF Send, Inv, TypeOK, ReceiverStates
<1>3. NoLostWakeup'
  BY DEF Send, NoLostWakeup
<1> QED
  BY <1>2, <1>3, HandlesUntouched DEF Send

LEMMA CloneInv ==
    ASSUME Inv, CountsFit,
           NEW s \in Senders, NEW clone \in Senders, Clone(s, clone)
    PROVE  Inv'
<1>1. OpenHandles # {}
  BY DEF Clone, OpenHandles, OpenSenders
<1>2. impl = "live" /\ Destroyers = {}
  BY <1>1, OpenMeansLive
<1>3. clone \notin OpenSenders /\ OpenSenders' = OpenSenders \cup {clone}
  BY DEF Clone, OpenSenders, Inv, TypeOK
<1>4. ReceiverOpen' = ReceiverOpen /\ Destroyers' = {}
  BY <1>2 DEF Clone, ReceiverOpen, Destroyers, Inv, TypeOK
<1>5. Cardinality(OpenSenders') = sender_count + 1
  BY <1>3, OpenSendersFinite, FS_AddElement DEF Inv, RefCountsExact
<1>6. sender_count' = sender_count + 1
  <2>1. OpenSenders' \subseteq Senders
    BY <1>3, OpenSendersFinite
  <2>2. Cardinality(OpenSenders') <= Cardinality(Senders)
    BY <2>1, FS_Subset DEF CountsFit
  <2>3. sender_count \in Nat /\ sender_count + 1 < CountMod
    BY <1>5, <2>2, CountModAssumption, OpenSendersFinite
       DEF CountsFit, Inv, TypeOK
  <2>4. (sender_count + 1) % CountMod = sender_count + 1
    BY <2>3, CountModAssumption
  <2> QED
    BY <2>4 DEF Clone
<1>7. sender_count' \in 0..(CountMod - 1)
  BY <1>5, <1>6, CountModAssumption, OpenSendersFinite
     DEF Clone, Inv, TypeOK
<1>8. TypeOK'
  BY <1>7 DEF Clone, Inv, TypeOK, SenderStates
<1>9. RefCountsExact'
  BY <1>4, <1>5, <1>6 DEF Clone, Inv, RefCountsExact
<1>10. NoUseAfterFree' /\ OneDestroyer' /\ NoLostWakeup'
  BY <1>2, <1>3, <1>4
     DEF Clone, Inv, NoUseAfterFree, OneDestroyer, NoLostWakeup, OpenHandles
<1> QED
  BY <1>8, <1>9, <1>10 DEF Inv

(* The counters after a decrement that starts above zero. *)
LEMMA DecrementPositive ==
    ASSUME NEW count \in 1..(CountMod - 1)
    PROVE  Decrement(count) = count - 1 /\ Decrement(count) \in 0..(CountMod - 1)
BY CountModAssumption DEF Decrement

LEMMA SenderDtorInv ==
    ASSUME Inv, CountsFit, NEW s \in Senders, SenderDtor(s)
    PROVE  Inv'
<1>0. s \in OpenSenders /\ OpenHandles # {}
  BY DEF SenderDtor, OpenHandles, OpenSenders
<1>1. impl = "live" /\ Destroyers = {}
  BY <1>0, OpenMeansLive
<1>2. OpenSenders' = OpenSenders \ {s}
  BY DEF SenderDtor, OpenSenders, Inv, TypeOK
<1>3. ReceiverOpen' = ReceiverOpen
  BY DEF SenderDtor, ReceiverOpen
<1>4. sender_count \in 1..(CountMod - 1)
  BY <1>0, OpenSendersFinite, CountModAssumption DEF Inv, TypeOK, RefCountsExact
<1>5. sender_count' = sender_count - 1 /\ sender_count' \in 0..(CountMod - 1)
  BY <1>4, DecrementPositive DEF SenderDtor
<1>6. Cardinality(OpenSenders') = sender_count'
  BY <1>0, <1>2, <1>5, OpenSendersFinite, FS_RemoveElement
     DEF Inv, RefCountsExact
<1>7. sender_count' = 0 <=> OpenSenders' = {}
  BY <1>0, <1>2, <1>6, OpenSendersFinite, FS_RemoveElement, FS_EmptySet
<1>8. TypeOK'
  BY <1>5 DEF SenderDtor, Inv, TypeOK, SenderStates
<1>9. RefCountsExact'
  BY <1>3, <1>6 DEF SenderDtor, Inv, RefCountsExact
<1>10. receiver_count = 0 <=> ~ReceiverOpen
  BY DEF Inv, RefCountsExact
<1>11. CASE OpenHandles' = {}
  <2>1. receiver_count = 0 /\ sender_count' = 0
    BY <1>3, <1>7, <1>10, <1>11 DEF OpenHandles
  <2>2. Destroyers' = {s}
    BY <2>1, <1>1 DEF SenderDtor, Destroyers, Inv, TypeOK
  <2> QED
    BY <2>2, <1>1, <1>8, <1>9, <1>11
       DEF SenderDtor, Inv, NoUseAfterFree, OneDestroyer, NoLostWakeup
<1>12. CASE OpenHandles' # {}
  <2>1. ~(receiver_count = 0 /\ sender_count' = 0)
    BY <1>3, <1>7, <1>10, <1>12 DEF OpenHandles
  <2>2. Destroyers' = {}
    BY <2>1, <1>1 DEF SenderDtor, Destroyers, Inv, TypeOK
  <2> QED
    BY <2>2, <1>1, <1>8, <1>9, <1>12
       DEF SenderDtor, Inv, NoUseAfterFree, OneDestroyer, NoLostWakeup
<1> QED
  BY <1>11, <1>12

LEMMA ReceiverDtorInv ==
    ASSUME Inv, CountsFit, ReceiverDtor
    PROVE  Inv'
<1>0. ReceiverOpen /\ OpenHandles # {}
  BY DEF ReceiverDtor, ReceiverOpen, OpenHandles
<1>1. impl = "live" /\ Destroyers = {}
  BY <1>0, OpenMeansLive
<1>2. OpenSenders' = OpenSenders
  BY DEF ReceiverDtor, OpenSenders
<1>3. receiver_count' = 0
  BY <1>0 DEF ReceiverDtor, Decrement, Inv, RefCountsExact
<1>4. ~ReceiverOpen' /\ receiver' \in {"destroy", "gone"}
  BY DEF ReceiverDtor, ReceiverOpen
<1>5. sender_count = 0 <=> OpenSenders = {}
  BY OpenSendersFinite DEF Inv, RefCountsExact
<1>6. OpenHandles' = OpenSenders
  BY <1>2, <1>4 DEF OpenHandles
<1>7. TypeOK'
  BY <1>3, <1>4 DEF ReceiverDtor, Inv, TypeOK, ReceiverStates
<1>8. RefCountsExact'
  BY <1>2, <1>3, <1>4 DEF ReceiverDtor, Inv, RefCountsExact
<1>9. CASE OpenSenders = {}
  <2>1. Destroyers' = {Receiver}
    BY <1>1, <1>3, <1>5, <1>9 DEF ReceiverDtor, Destroyers
  <2> QED
    BY <2>1, <1>1, <1>4, <1>6, <1>7, <1>8, <1>9
       DEF ReceiverDtor, Inv, NoUseAfterFree, OneDestroyer, NoLostWakeup
<1>10. CASE OpenSenders # {}
  <2>1. Destroyers' = {}
    BY <1>1, <1>3, <1>5, <1>10 DEF ReceiverDtor, Destroyers
  <2> QED
    BY <2>1, <1>1, <1>4, <1>6, <1>7, <1>8, <1>10
       DEF ReceiverDtor, Inv, NoUseAfterFree, OneDestroyer, NoLostWakeup
<1> QED
  BY <1>9, <1>10

LEMMA ChannelDtorInv ==
    ASSUME Inv, ChannelDtor
    PROVE  Inv'
<1>1. Destroyers # {} /\ OpenHandles = {}
  BY DEF ChannelDtor, Destroyers, Inv, OneDestroyer
<1>2. OpenSenders = {} /\ ~ReceiverOpen
  BY <1>1 DEF OpenHandles
<1>3. OpenSenders' = {} /\ ~ReceiverOpen'
  BY <1>2 DEF ChannelDtor, OpenSenders, ReceiverOpen, Inv, TypeOK
<1>4. Destroyers' = {}
  <2>1. CASE receiver = "destroy"
    <3>1. Destroyers = {Receiver}
      BY <2>1 DEF Destroyers, Inv, OneDestroyer
    <3>2. \A s \in Senders : sender[s] # "destroy"
      BY <3>1, SendersAssumption DEF Destroyers
    <3> QED
      BY <3>2 DEF ChannelDtor, Destroyers
  <2>2. CASE receiver # "destroy"
    <3>1. PICK s \in Senders : /\ sender[s] = "destroy"
                               /\ sender' = [sender EXCEPT ![s] = "gone"]
                               /\ UNCHANGED receiver
      BY <2>2 DEF ChannelDtor
    <3>2. \A t \in Senders : sender[t] = "destroy" => t = s
      BY <3>1 DEF Destroyers, Inv, OneDestroyer
    <3> QED
      BY <3>1, <3>2, <2>2 DEF Destroyers, Inv, TypeOK
  <2> QED
    BY <2>1, <2>2
<1>5. TypeOK'
  BY DEF ChannelDtor, Inv, TypeOK, ReceiverStates, SenderStates
<1>6. RefCountsExact'
  BY <1>2, <1>3 DEF ChannelDtor, Inv, RefCountsExact
<1>7. OpenHandles' = {}
  BY <1>3 DEF OpenHandles
<1>8. NoLostWakeup'
  BY <1>2 DEF ChannelDtor, NoLostWakeup, ReceiverOpen
<1> QED
  BY <1>4, <1>5, <1>6, <1>7, <1>8
     DEF ChannelDtor, Inv, NoUseAfterFree, OneDestroyer

(* The inductive step: one case per action. *)
LEMMA NextInv == ASSUME CountsFit, Inv, [Next]_vars PROVE Inv'
<1>1. CASE Ctor
  BY <1>1, CtorInv
<1>2. ASSUME NEW timeout \in BOOLEAN, Recv(timeout)
      PROVE  Inv'
  BY <1>2, RecvInv DEF Recv
<1>3. CASE DeadlinePasses
  <2>1. TypeOK' /\ NoLostWakeup'
    BY <1>3 DEF DeadlinePasses, Inv, TypeOK, NoLostWakeup
  <2> QED
    BY <1>3, <2>1, HandlesUntouched DEF DeadlinePasses
<1>4. CASE WakeUnsignalled
  <2>1. TypeOK' /\ NoLostWakeup'
    BY <1>4 DEF WakeUnsignalled, Inv, TypeOK, NoLostWakeup, ReceiverStates
  <2> QED
    BY <1>4, <2>1, HandlesUntouched DEF WakeUnsignalled
<1>5. CASE RecvResume
  BY <1>5, RecvInv DEF RecvResume, Inv, TypeOK
<1>6. ASSUME NEW s \in Senders, NEW item \in Items, Send(s, item)
      PROVE  Inv'
  BY <1>6, SendInv
<1>7. ASSUME NEW s \in Senders, NEW clone \in Senders, Clone(s, clone)
      PROVE  Inv'
  BY <1>7, CloneInv
<1>8. ASSUME NEW s \in Senders, SenderDtor(s)
      PROVE  Inv'
  BY <1>8, SenderDtorInv
<1>9. CASE ReceiverDtor
  BY <1>9, ReceiverDtorInv
<1>10. CASE ChannelDtor
  BY <1>10, ChannelDtorInv
<1>11. CASE UNCHANGED vars
  BY <1>11 DEF vars, Inv, TypeOK, RefCountsExact, NoUseAfterFree, OneDestroyer,
               NoLostWakeup, OpenHandles, OpenSenders, ReceiverOpen, Destroyers
<1> QED
  BY <1>1, <1>2, <1>3, <1>4, <1>5, <1>6, <1>7, <1>8, <1>9, <1>10, <1>11 DEF Next

(* channel.c, with any number of producers that fit the counter: whatever the
   order of sends, receives, clones and destructions, the two reference counts
   are exact, the memory outlives every open handle, exactly one of the handles
   destructed frees it, and a sleeping receiver has nothing to receive. *)
THEOREM ChannelInvariant ==
    ASSUME CountsFit
    PROVE  Spec => [](/\ TypeOK
                      /\ RefCountsExact
                      /\ NoUseAfterFree
                      /\ OneDestroyer
                      /\ NoLostWakeup)
<1>1. Init => Inv
  BY InitInv
<1>2. Inv /\ [Next]_vars => Inv'
  BY NextInv
<1>3. Inv => /\ TypeOK
             /\ RefCountsExact
             /\ NoUseAfterFree
             /\ OneDestroyer
             /\ NoLostWakeup
  BY DEF Inv
<1> QED
  BY <1>1, <1>2, <1>3, PTL DEF Spec

-----------------------------------------------------------------------------
(* What an abstract step sees of the handles. *)
LEMMA SameHandles ==
    ASSUME UNCHANGED sender,
           receiver \in {"idle", "waiting", "woken"} <=>
               receiver' \in {"idle", "waiting", "woken"}
    PROVE  OpenHandles' = OpenHandles
BY DEF OpenHandles, OpenSenders, ReceiverOpen

(* A critical section of receiver_recv takes, gives up or changes nothing that
   the mailbox shows. *)
LEMMA RecvStep ==
    ASSUME Inv, receiver \in {"idle", "woken"},
           Pop \/ EmptyHanded \/ GoToSleep,
           UNCHANGED <<impl, sender>>
    PROVE  Abstract!Take \/ Abstract!GiveUp \/ UNCHANGED Abstract!vars
<1>1. Receiver \in OpenHandles
  BY DEF OpenHandles, ReceiverOpen
<1>2. OpenHandles' = OpenHandles
  BY SameHandles DEF Pop, EmptyHanded, GoToSleep
<1>3. CASE Pop
  BY <1>1, <1>2, <1>3 DEF Pop, Abstract!Take
<1>4. CASE EmptyHanded
  BY <1>1, <1>2, <1>4 DEF EmptyHanded, Abstract!GiveUp
<1>5. CASE GoToSleep
  BY <1>2, <1>5 DEF GoToSleep, Abstract!vars
<1> QED
  BY <1>3, <1>4, <1>5

LEMMA SendStep ==
    ASSUME NEW s \in Senders, NEW item \in Items, Send(s, item)
    PROVE  Abstract!Put(s, item)
<1>1. s \in OpenHandles /\ OpenHandles' = OpenHandles
  BY SameHandles DEF Send, OpenHandles, OpenSenders
<1> QED
  BY <1>1 DEF Send, Abstract!Put

LEMMA CtorStep ==
    ASSUME Inv, Ctor
    PROVE  Abstract!Create
<1>1. OpenHandles = {} /\ Destroyers = {}
  BY DEF Inv, NoUseAfterFree, Ctor
<1>2. OpenSenders' = {FirstSender} /\ ReceiverOpen'
  BY <1>1, SendersAssumption
     DEF Ctor, Inv, TypeOK, OpenHandles, OpenSenders, ReceiverOpen
<1> QED
  BY <1>2 DEF Ctor, Abstract!Create, OpenHandles

LEMMA CloneStep ==
    ASSUME Inv, NEW s \in Senders, NEW clone \in Senders, Clone(s, clone)
    PROVE  Abstract!Share(s, clone)
<1>1. s \in OpenHandles /\ clone \notin OpenHandles
  BY SendersAssumption DEF Clone, OpenHandles, OpenSenders
<1>2. OpenSenders' = OpenSenders \cup {clone} /\ ReceiverOpen' = ReceiverOpen
  BY DEF Clone, OpenSenders, ReceiverOpen, Inv, TypeOK
<1>3. OpenHandles' = OpenHandles \cup {clone}
  BY <1>2 DEF OpenHandles
<1> QED
  BY <1>1, <1>3 DEF Clone, Abstract!Share

LEMMA SenderDtorStep ==
    ASSUME Inv, NEW s \in Senders, SenderDtor(s)
    PROVE  Abstract!Close(s)
<1>1. s \in OpenHandles /\ s # Receiver
  BY SendersAssumption DEF SenderDtor, OpenHandles, OpenSenders
<1>2. OpenSenders' = OpenSenders \ {s} /\ ReceiverOpen' = ReceiverOpen
  BY DEF SenderDtor, OpenSenders, ReceiverOpen, Inv, TypeOK
<1>3. OpenHandles' = OpenHandles \ {s}
  BY <1>1, <1>2 DEF OpenHandles
<1> QED
  BY <1>1, <1>3 DEF SenderDtor, Abstract!Close

LEMMA ReceiverDtorStep ==
    ASSUME Inv, ReceiverDtor
    PROVE  Abstract!Close(Receiver)
<1>1. Receiver \in OpenHandles /\ Receiver \notin OpenSenders
  BY SendersAssumption DEF ReceiverDtor, OpenHandles, ReceiverOpen, OpenSenders
<1>2. OpenSenders' = OpenSenders /\ ~ReceiverOpen'
  BY DEF ReceiverDtor, OpenSenders, ReceiverOpen
<1>3. OpenHandles' = OpenHandles \ {Receiver}
  BY <1>1, <1>2 DEF OpenHandles
<1> QED
  BY <1>1, <1>3 DEF ReceiverDtor, Abstract!Close

LEMMA ChannelDtorStep ==
    ASSUME Inv, ChannelDtor
    PROVE  Abstract!Release
<1>1. Destroyers # {} /\ OpenHandles = {}
  BY DEF ChannelDtor, Destroyers, Inv, OneDestroyer
<1>2. impl = "live"
  BY <1>1 DEF Inv, NoUseAfterFree
<1>3. OpenHandles' = {}
  BY <1>1 DEF ChannelDtor, OpenHandles, OpenSenders, ReceiverOpen, Inv, TypeOK
<1> QED
  BY <1>1, <1>2, <1>3 DEF ChannelDtor, Abstract!Release

LEMMA StepSimulation ==
    ASSUME Inv, [Next]_vars
    PROVE  [Abstract!Next]_(Abstract!vars)
<1>1. CASE Ctor
  BY <1>1, CtorStep DEF Abstract!Next
<1>2. ASSUME NEW timeout \in BOOLEAN, Recv(timeout)
      PROVE  [Abstract!Next]_(Abstract!vars)
  BY <1>2, RecvStep DEF Recv, Abstract!Next
<1>3. CASE DeadlinePasses
  <2>1. OpenHandles' = OpenHandles
    BY <1>3, SameHandles DEF DeadlinePasses
  <2> QED
    BY <1>3, <2>1 DEF DeadlinePasses, Abstract!vars
<1>4. CASE WakeUnsignalled
  <2>1. OpenHandles' = OpenHandles
    BY <1>4, SameHandles DEF WakeUnsignalled
  <2> QED
    BY <1>4, <2>1 DEF WakeUnsignalled, Abstract!vars
<1>5. CASE RecvResume
  BY <1>5, RecvStep DEF RecvResume, Abstract!Next
<1>6. ASSUME NEW s \in Senders, NEW item \in Items, Send(s, item)
      PROVE  Abstract!Next
  BY <1>6, SendStep DEF Abstract!Next
<1>7. ASSUME NEW s \in Senders, NEW clone \in Senders, Clone(s, clone)
      PROVE  Abstract!Next
  BY <1>7, CloneStep DEF Abstract!Next
<1>8. ASSUME NEW s \in Senders, SenderDtor(s)
      PROVE  Abstract!Next
  BY <1>8, SenderDtorStep DEF Abstract!Next
<1>9. CASE ReceiverDtor
  BY <1>9, ReceiverDtorStep DEF Abstract!Next
<1>10. CASE ChannelDtor
  BY <1>10, ChannelDtorStep DEF Abstract!Next
<1>11. CASE UNCHANGED vars
  <2>1. OpenHandles' = OpenHandles
    BY <1>11, SameHandles DEF vars
  <2> QED
    BY <1>11, <2>1 DEF vars, Abstract!vars
<1> QED
  BY <1>1, <1>2, <1>3, <1>4, <1>5, <1>6, <1>7, <1>8, <1>9, <1>10, <1>11 DEF Next

(* channel.c is a mailbox to its users: items are taken in the order they were
   put, a receive gives up only while nothing is there, closed handles stay
   closed, and the storage is released once, after the last one. *)
THEOREM ChannelImplementsMailbox ==
    ASSUME CountsFit
    PROVE  Spec => ImplementsMailbox
<1>1. Init => Abstract!Init
  BY DEF Init, Abstract!Init, OpenHandles, OpenSenders, ReceiverOpen
<1>2. Inv /\ [Next]_vars => [Abstract!Next]_(Abstract!vars)
  BY StepSimulation
<1>3. Spec => []Inv
  BY InitInv, NextInv, PTL DEF Spec
<1> QED
  BY <1>1, <1>2, <1>3, PTL DEF Spec, ImplementsMailbox, Abstract!Spec
=============================================================================
