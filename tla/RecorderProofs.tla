---------------------------- MODULE RecorderProofs ----------------------------
(* Proofs about Recorder, for any number of PHP threads, any capacity and any *)
(* set of calls that fail: who owns a message, who may still use the channel  *)
(* and the exporter, and which samples a profile holds.                       *)
EXTENDS Recorder, FiniteSetTheorems, SequenceTheorems, TLAPS

(* The channel with its one sender: both counters are exact, and the handle
   that will free it is the last one. *)
ChannelInv ==
    /\ Ch!TypeOK
    /\ receiver_count = IF Ch!ReceiverOpen THEN 1 ELSE 0
    /\ sender_count = IF sender[Sender] = "idle" THEN 1 ELSE 0
    /\ receiver # "gone" \/ sender[Sender] # "gone" => impl = "live"
    /\ receiver = "destroy" => sender[Sender] = "gone"
    /\ sender[Sender] = "destroy" => receiver = "gone"

(* Where first activation and shutdown are says what they have made so far. *)
PhasesOK ==
    /\ php \in {"start", "new exporter", "new thread", "undo receiver",
                "undo sender", "undo free", "fail"} => recorder = "none"
    /\ php \in {"succeed", "wake up", "close", "free", "join"}
         => recorder # "none"
    /\ php \in {"new thread", "succeed", "wake up", "close", "free", "join"}
         => exporter = "live"
    /\ php \in {"new exporter", "new thread", "undo receiver"}
         => receiver = "idle"
    /\ php \in {"new exporter", "new thread", "undo receiver", "undo sender",
                "succeed", "wake up", "close"} => sender[Sender] = "idle"
    /\ php = "running" /\ ~enabled => recorder = "none"
    /\ php = "off" => recorder \in {"none", "done"}
    /\ enabled => /\ php = "running"
                  /\ recorder # "none"
                  /\ exporter = "live"
                  /\ sender[Sender] = "idle"
    /\ \A w \in Workers : worker[w] # "php" => enabled
    /\ recorder \notin {"none", "done"} => exporter = "live"

(* Where the recorder thread is says what its handle does. *)
ThreadOK ==
    /\ recorder \in {"starting", "while", "recv", "add", "test", "report",
                     "export", "cleanup"} => receiver = "idle"
    /\ recorder = "blocked" => receiver \in {"waiting", "woken"}
    /\ recorder = "blocked" /\ expired => elapsed
    /\ recorder = "add" => result \in Messages

ProfileOK ==
    /\ NoSampleTwice
    /\ recorder \in {"none", "starting", "while"} => profile = 0

-----------------------------------------------------------------------------
(* The steps of the channel that the recorder plugin takes. *)
ChannelStep ==
    \/ Ch!Ctor
    \/ Ch!Recv(TRUE)
    \/ Ch!DeadlinePasses
    \/ Ch!WakeUnsignalled
    \/ Ch!RecvResume
    \/ \E item \in Messages \cup {Null} : Ch!Send(Sender, item)
    \/ Ch!SenderDtor(Sender)
    \/ Ch!ReceiverDtor
    \/ Ch!ChannelDtor

(* What a pop does to the queue. *)
LEMMA PopType ==
    ASSUME Ch!TypeOK, Ch!Pop
    PROVE  /\ Len(queue) \in 1..Capacity
           /\ queue' \in Seq(Messages \cup {Null})
           /\ Len(queue') = Len(queue) - 1
           /\ result' = queue[1] /\ result' \in Messages \cup {Null}
           /\ \A i \in 1..(Len(queue) - 1) : queue'[i] = queue[i + 1]
<1>1. /\ queue \in Seq(Messages \cup {Null}) /\ queue # <<>>
      /\ Len(queue) \in 0..Capacity /\ Capacity \in Nat
  BY BoundsAssumption DEF Ch!TypeOK, Ch!Pop
<1>2. queue' = Tail(queue) /\ result' = Head(queue)
  BY DEF Ch!Pop
<1>3. Len(queue) # 0
  BY <1>1, EmptySeq
<1> QED
  BY <1>1, <1>2, <1>3, HeadTailProperties, ElementOfSeq

LEMMA SendType ==
    ASSUME Ch!TypeOK, NEW item \in Messages \cup {Null}, Ch!Send(Sender, item)
    PROVE  /\ queue' \in Seq(Messages \cup {Null})
           /\ Len(queue) \in 0..(Capacity - 1)
           /\ Len(queue') = Len(queue) + 1
           /\ queue'[Len(queue) + 1] = item
           /\ \A i \in 1..Len(queue) : queue'[i] = queue[i]
<1>1. /\ queue \in Seq(Messages \cup {Null})
      /\ Len(queue) \in 0..Capacity /\ Capacity \in Nat /\ Len(queue) < Capacity
      /\ queue' = Append(queue, item)
  BY BoundsAssumption DEF Ch!TypeOK, Ch!Send
<1> QED
  BY <1>1, AppendProperties

LEMMA ChannelStepInv ==
    ASSUME ChannelInv, ChannelStep \/ UNCHANGED chvars PROVE ChannelInv'
<1>0. /\ sender \in [{Sender} -> {"gone", "idle", "destroy"}]
      /\ receiver \in {"gone", "idle", "waiting", "woken", "destroy"}
      /\ Len(queue) \in 0..Capacity /\ Capacity \in Nat
      /\ NoItem \notin Messages \cup {Null}
  BY BoundsAssumption, MessagesAssumption
     DEF ChannelInv, Ch!TypeOK, Ch!SenderStates, Ch!ReceiverStates
<1>1. CASE Ch!Ctor
  BY <1>0, <1>1 DEF ChannelInv, Ch!Ctor, Ch!TypeOK, Ch!SenderStates,
                    Ch!ReceiverStates, Ch!ReceiverOpen
<1>2. ASSUME Ch!Pop, receiver \in {"idle", "woken"}, expired' \in BOOLEAN,
             UNCHANGED <<impl, receiver_count, sender_count, sender>>
      PROVE  ChannelInv'
  <2>1. queue' \in Seq(Messages \cup {Null}) /\ Len(queue') \in 0..Capacity
        /\ result' \in Messages \cup {Null}
    BY <1>0, <1>2, PopType DEF ChannelInv
  <2> QED
    BY <1>0, <1>2, <2>1 DEF ChannelInv, Ch!Pop, Ch!TypeOK, Ch!SenderStates,
                            Ch!ReceiverStates, Ch!ReceiverOpen
<1>3. ASSUME Ch!EmptyHanded \/ Ch!GoToSleep, receiver \in {"idle", "woken"},
             expired' \in BOOLEAN,
             UNCHANGED <<impl, receiver_count, sender_count, sender>>
      PROVE  ChannelInv'
  BY <1>0, <1>3 DEF ChannelInv, Ch!EmptyHanded, Ch!GoToSleep, Ch!TypeOK,
                    Ch!SenderStates, Ch!ReceiverStates, Ch!ReceiverOpen
<1>4. CASE Ch!Recv(TRUE)
  BY <1>2, <1>3, <1>4 DEF Ch!Recv
<1>5. CASE Ch!RecvResume
  BY <1>2, <1>3, <1>5 DEF Ch!RecvResume, ChannelInv, Ch!TypeOK
<1>6. CASE Ch!DeadlinePasses \/ Ch!WakeUnsignalled
  BY <1>0, <1>6 DEF ChannelInv, Ch!DeadlinePasses, Ch!WakeUnsignalled, Ch!TypeOK,
                    Ch!SenderStates, Ch!ReceiverStates, Ch!ReceiverOpen
<1>7. ASSUME NEW item \in Messages \cup {Null}, Ch!Send(Sender, item)
      PROVE  ChannelInv'
  <2>1. queue' \in Seq(Messages \cup {Null}) /\ Len(queue') \in 0..Capacity
    BY <1>0, <1>7, SendType DEF ChannelInv
  <2> QED
    BY <1>0, <1>7, <2>1 DEF ChannelInv, Ch!Send, Ch!TypeOK, Ch!SenderStates,
                            Ch!ReceiverStates, Ch!ReceiverOpen
<1>8. CASE Ch!SenderDtor(Sender)
  BY <1>0, <1>8 DEF ChannelInv, Ch!SenderDtor, Ch!Decrement, Ch!TypeOK,
                    Ch!SenderStates, Ch!ReceiverStates, Ch!ReceiverOpen
<1>9. CASE Ch!ReceiverDtor
  BY <1>0, <1>9 DEF ChannelInv, Ch!ReceiverDtor, Ch!Decrement, Ch!TypeOK,
                    Ch!SenderStates, Ch!ReceiverStates, Ch!ReceiverOpen
<1>10. CASE Ch!ChannelDtor
  BY <1>0, <1>10 DEF ChannelInv, Ch!ChannelDtor, Ch!TypeOK, Ch!SenderStates,
                     Ch!ReceiverStates, Ch!ReceiverOpen
<1>11. CASE UNCHANGED chvars
  BY <1>11 DEF chvars, ChannelInv, Ch!TypeOK, Ch!ReceiverOpen
<1> QED
  BY <1>1, <1>4, <1>5, <1>6, <1>7, <1>8, <1>9, <1>10, <1>11 DEF ChannelStep

(* Every step of the plugin leaves the channel alone or uses it as it may. *)
LEMMA NextUsesChannel ==
    ASSUME TypeOK, [Next]_vars PROVE ChannelStep \/ UNCHANGED chvars
<1>1. CASE FirstActivate
  BY <1>1 DEF FirstActivate, ProfilingDisabled, NewChannel, NewExporter, NewThread,
              UndoReceiver, UndoSender, UndoFree, PublishEnabled, ChannelStep
<1>2. CASE ShutdownSteps
  BY <1>2 DEF ShutdownSteps, Shutdown, SendWakeUp, CloseSender, FreeChannel, Join,
              ChannelStep
<1>3. CASE RecorderMain
  BY <1>3 DEF RecorderMain, Start, While, CallRecv, ResumeRecv, Add, Test, Report,
              ExportDone, Cleanup, CleanupFree, ChannelStep
<1>4. ASSUME NEW w \in Workers, WorkerStep(w)
      PROVE  ChannelStep \/ UNCHANGED chvars
  BY <1>4 DEF WorkerStep, Record, RecordSend, Diagnose, DiagnoseDone, ChannelStep
<1>5. CASE Clock
  BY <1>5 DEF Clock, PeriodElapses, DeadlinePasses, WakeUnsignalled, ChannelStep
<1>6. CASE UNCHANGED vars
  BY <1>6 DEF vars
<1> QED
  BY <1>1, <1>2, <1>3, <1>4, <1>5, <1>6 DEF Next

(* What the steps of the channel do to the two handles. *)
LEMMA HandlesMove ==
    ASSUME ChannelInv
    PROVE  /\ Ch!Ctor => receiver' = "idle" /\ sender'[Sender] = "idle"
           /\ Ch!Recv(TRUE) \/ Ch!RecvResume
                => receiver' \in {"idle", "waiting"} /\ sender' = sender
           /\ Ch!DeadlinePasses => UNCHANGED <<receiver, sender>>
           /\ Ch!WakeUnsignalled
                => receiver = "waiting" /\ receiver' = "woken" /\ sender' = sender
           /\ \A item : Ch!Send(Sender, item)
                => /\ receiver' = IF receiver = "waiting" THEN "woken" ELSE receiver
                   /\ sender' = sender /\ expired' = expired /\ result' = result
           /\ Ch!SenderDtor(Sender) => receiver' = receiver
           /\ Ch!ReceiverDtor => sender' = sender
           /\ Ch!ChannelDtor
                => /\ receiver' = receiver \/ receiver = "destroy"
                   /\ sender' = sender \/ sender[Sender] = "destroy"
                   /\ UNCHANGED <<expired, result>>
<1>1. sender \in [{Sender} -> {"gone", "idle", "destroy"}]
  BY DEF ChannelInv, Ch!TypeOK, Ch!SenderStates
<1>2. Ch!Ctor => receiver' = "idle" /\ sender'[Sender] = "idle"
  BY <1>1 DEF Ch!Ctor
<1> QED
  BY <1>1, <1>2 DEF Ch!Recv, Ch!RecvResume, Ch!Pop, Ch!EmptyHanded, Ch!GoToSleep,
     Ch!DeadlinePasses, Ch!WakeUnsignalled, Ch!Send, Ch!SenderDtor,
     Ch!ReceiverDtor, Ch!ChannelDtor

-----------------------------------------------------------------------------
LEMMA TypeStep == ASSUME TypeOK, ChannelInv', [Next]_vars PROVE TypeOK'
<1>0. Ch!TypeOK' /\ MaxSamples \in Nat /\ 0 \in 0..MaxSamples
  BY BoundsAssumption DEF ChannelInv
<1>1. CASE FirstActivate
  BY <1>0, <1>1 DEF FirstActivate, ProfilingDisabled, NewChannel, NewExporter,
     NewThread, UndoReceiver, UndoSender, UndoFree, PublishEnabled,
     TypeOK, PhpStates, RecorderStates
<1>2. CASE ShutdownSteps
  BY <1>0, <1>2 DEF ShutdownSteps, Shutdown, SendWakeUp, CloseSender, FreeChannel,
     Join, TypeOK, PhpStates
<1>3. CASE RecorderMain
  <2>1. ASSUME NEW n \in 0..MaxSamples PROVE CountOne(n) \in 0..MaxSamples
    BY <1>0 DEF CountOne
  <2> QED
    BY <1>0, <1>3, <2>1 DEF RecorderMain, Start, While, CallRecv, ResumeRecv,
       AfterRecv, Add, Test, Report, ExportDone, Cleanup, CleanupFree,
       TypeOK, RecorderStates
<1>4. ASSUME NEW w \in Workers, WorkerStep(w) PROVE TypeOK'
  <2>1. ASSUME NEW m \in WorkerStates
        PROVE  [worker EXCEPT ![w] = m] \in [Workers -> WorkerStates]
    BY DEF TypeOK
  <2> QED
    BY <1>0, <1>4, <2>1 DEF WorkerStep, Record, RecordSend, Diagnose, DiagnoseDone,
       TypeOK, WorkerStates
<1>5. CASE Clock
  BY <1>0, <1>5 DEF Clock, PeriodElapses, DeadlinePasses, WakeUnsignalled, TypeOK
<1>6. CASE UNCHANGED vars
  BY <1>0, <1>6 DEF vars, TypeOK
<1> QED
  BY <1>1, <1>2, <1>3, <1>4, <1>5, <1>6 DEF Next

(* One step of first activation or shutdown leaves what its place says. *)
LEMMA PhasesStep ==
    ASSUME TypeOK, ChannelInv, PhasesOK, ThreadOK, [Next]_vars PROVE PhasesOK'
<1>1. CASE FirstActivate
  <2>1. CASE ProfilingDisabled
    BY <2>1 DEF ProfilingDisabled, chvars, PhasesOK
  <2>2. CASE NewChannel
    BY <2>2, HandlesMove DEF NewChannel, chvars, PhasesOK
  <2>3. CASE NewExporter
    BY <2>3 DEF NewExporter, chvars, PhasesOK
  <2>4. CASE NewThread
    BY <2>4 DEF NewThread, chvars, PhasesOK
  <2>5. CASE UndoReceiver
    BY <2>5, HandlesMove DEF UndoReceiver, PhasesOK
  <2>6. CASE UndoSender
    BY <2>6, HandlesMove DEF UndoSender, PhasesOK
  <2>7. CASE UndoFree
    BY <2>7, HandlesMove DEF UndoFree, PhasesOK
  <2>8. CASE PublishEnabled
    BY <2>8 DEF PublishEnabled, chvars, PhasesOK
  <2> QED
    BY <1>1, <2>1, <2>2, <2>3, <2>4, <2>5, <2>6, <2>7, <2>8 DEF FirstActivate
<1> DEFINE HandlesKept == /\ receiver = "idle" => receiver' = "idle"
                          /\ sender[Sender] = "idle" => sender'[Sender] = "idle"
<1>2. CASE ShutdownSteps
  <2>1. CASE Shutdown
    BY <2>1 DEF Shutdown, chvars, TypeOK, PhasesOK
  <2>2. CASE SendWakeUp
    BY <2>2, HandlesMove DEF SendWakeUp, chvars, PhasesOK
  <2>3. CASE CloseSender
    BY <2>3, HandlesMove DEF CloseSender, PhasesOK
  <2>4. CASE FreeChannel
    BY <2>4, HandlesMove DEF FreeChannel, PhasesOK
  <2>5. CASE Join
    BY <2>5 DEF Join, chvars, PhasesOK
  <2> QED
    BY <1>2, <2>1, <2>2, <2>3, <2>4, <2>5 DEF ShutdownSteps
<1>3. ASSUME HandlesKept,
             UNCHANGED <<enabled, php, worker, exporter>>,
             recorder # "none",
             recorder' # "none",
             recorder' # "done" => recorder # "done"
      PROVE  PhasesOK'
  BY <1>3 DEF PhasesOK
<1>4. CASE RecorderMain
  <2>1. CASE Start \/ While \/ Add \/ Test \/ Report \/ ExportDone
    BY <1>3, <2>1 DEF Start, While, Add, Test, Report, ExportDone, chvars
  <2>2. CASE CallRecv \/ ResumeRecv
    <3>1. recorder' \in {"blocked", "add", "test"}
      BY <2>2 DEF CallRecv, ResumeRecv, AfterRecv
    <3>2. sender' = sender
      BY <2>2, HandlesMove DEF CallRecv, ResumeRecv
    <3>3. recorder \in {"recv", "blocked"} /\ UNCHANGED <<enabled, php, worker, exporter>>
      BY <2>2 DEF CallRecv, ResumeRecv
    <3>4. php \notin {"new exporter", "new thread", "undo receiver"}
      BY <3>3 DEF PhasesOK
    <3> QED
      BY <3>1, <3>2, <3>3, <3>4 DEF PhasesOK
  <2>3. CASE Cleanup \/ CleanupFree
    <3>1. /\ recorder \in {"cleanup", "free"} /\ recorder' \in {"free", "done"}
          /\ UNCHANGED <<enabled, php, worker, exporter>>
          /\ sender[Sender] = "idle" => sender'[Sender] = "idle"
      BY <2>3, HandlesMove DEF Cleanup, CleanupFree
    <3>2. php \notin {"new exporter", "new thread", "undo receiver"}
      BY <3>1 DEF PhasesOK
    <3> QED
      BY <3>1, <3>2 DEF PhasesOK
  <2> QED
    BY <1>4, <2>1, <2>2, <2>3 DEF RecorderMain
<1>5. ASSUME NEW w \in Workers, WorkerStep(w) PROVE PhasesOK'
  <2>1. HandlesKept /\ UNCHANGED <<enabled, php, recorder, exporter>>
    BY <1>5, HandlesMove
       DEF WorkerStep, Record, RecordSend, Diagnose, DiagnoseDone, chvars
  <2>2. enabled
    BY <1>5, MessagesAssumption
       DEF WorkerStep, Record, RecordSend, Diagnose, DiagnoseDone, PhasesOK
  <2> QED
    BY <2>1, <2>2 DEF PhasesOK
<1>6. CASE Clock
  <2>1. HandlesKept /\ UNCHANGED <<enabled, php, worker, recorder, exporter>>
    BY <1>6, HandlesMove DEF Clock, PeriodElapses, DeadlinePasses, WakeUnsignalled, chvars
  <2> QED
    BY <2>1 DEF PhasesOK
<1>7. CASE UNCHANGED vars
  BY <1>7 DEF vars, chvars, PhasesOK
<1> QED
  BY <1>1, <1>2, <1>4, <1>5, <1>6, <1>7 DEF Next

(* The thread's handle is idle except during a receive, and the deadline of a
   receive is not before the end of the period. *)
LEMMA ThreadStep ==
    ASSUME TypeOK, ChannelInv, ChannelInv', PhasesOK, ThreadOK, [Next]_vars
    PROVE  ThreadOK'
<1>1. CASE FirstActivate
  <2>1. \/ recorder = "none" /\ recorder' \in {"none", "starting"}
        \/ php = "succeed"
    BY <1>1 DEF FirstActivate, ProfilingDisabled, NewChannel, NewExporter,
       NewThread, UndoReceiver, UndoSender, UndoFree, PublishEnabled, PhasesOK
  <2>2. recorder' = "starting" => recorder = "starting" \/ receiver' = "idle"
    BY <1>1 DEF FirstActivate, ProfilingDisabled, NewChannel, NewExporter,
       NewThread, UndoReceiver, UndoSender, UndoFree, PublishEnabled, PhasesOK, chvars
  <2>3. php = "succeed" => UNCHANGED <<recorder, elapsed, chvars>>
    BY <1>1 DEF FirstActivate, ProfilingDisabled, NewChannel, NewExporter,
       NewThread, UndoReceiver, UndoSender, UndoFree, PublishEnabled
  <2> QED
    BY <2>1, <2>2, <2>3 DEF ThreadOK, chvars
<1>2. ASSUME receiver = "idle" => receiver' = "idle",
             receiver = "waiting" => receiver' \in {"waiting", "woken"},
             receiver = "woken" => receiver' = "woken",
             UNCHANGED <<recorder, result>>,
             elapsed => elapsed',
             expired' => elapsed' \/ expired
      PROVE  ThreadOK'
  BY <1>2 DEF ThreadOK
<1>3. CASE ShutdownSteps
  <2>1. UNCHANGED <<recorder, elapsed>>
    BY <1>3 DEF ShutdownSteps, Shutdown, SendWakeUp, CloseSender, FreeChannel, Join
  <2>2. UNCHANGED <<expired, result>>
    BY <1>3 DEF ShutdownSteps, Shutdown, SendWakeUp, CloseSender, FreeChannel, Join,
       chvars, Ch!Send, Ch!SenderDtor, Ch!ChannelDtor
  <2>3. /\ receiver = "idle" => receiver' = "idle"
        /\ receiver = "waiting" => receiver' \in {"waiting", "woken"}
        /\ receiver = "woken" => receiver' = "woken"
    BY <1>3, HandlesMove DEF ShutdownSteps, Shutdown, SendWakeUp, CloseSender,
       FreeChannel, Join, chvars
  <2> QED
    BY <1>2, <2>1, <2>2, <2>3
<1>4. CASE RecorderMain
  <2>1. CASE Start \/ While \/ Add \/ Test \/ Report \/ ExportDone
    <3>1. /\ recorder' \in {"while", "done", "recv", "cleanup", "test", "report", "export"}
          /\ recorder \in {"starting", "while", "add", "test", "report", "export"}
          /\ receiver' = receiver
      BY <2>1 DEF Start, While, Add, Test, Report, ExportDone, chvars
    <3> QED
      BY <3>1 DEF ThreadOK
  <2>2. CASE CallRecv \/ ResumeRecv
    <3>1. /\ receiver' \in {"idle", "waiting"}
          /\ AfterRecv /\ elapsed' = elapsed
      BY <2>2, HandlesMove DEF CallRecv, ResumeRecv
    <3>2. receiver' = "waiting" => expired' = FALSE
      BY <2>2 DEF CallRecv, ResumeRecv, Ch!Recv, Ch!RecvResume, Ch!Pop,
                  Ch!EmptyHanded, Ch!GoToSleep
    <3> QED
      BY <3>1, <3>2 DEF AfterRecv, ThreadOK
  <2>3. CASE Cleanup \/ CleanupFree
    BY <2>3 DEF Cleanup, CleanupFree, ThreadOK
  <2> QED
    BY <1>4, <2>1, <2>2, <2>3 DEF RecorderMain
<1>5. ASSUME NEW w \in Workers, WorkerStep(w) PROVE ThreadOK'
  <2>1. UNCHANGED <<recorder, elapsed>>
    BY <1>5 DEF WorkerStep, Record, RecordSend, Diagnose, DiagnoseDone
  <2>2. /\ receiver = "idle" => receiver' = "idle"
        /\ receiver = "waiting" => receiver' \in {"waiting", "woken"}
        /\ receiver = "woken" => receiver' = "woken"
        /\ UNCHANGED <<expired, result>>
    BY <1>5, HandlesMove
       DEF WorkerStep, Record, RecordSend, Diagnose, DiagnoseDone, chvars
  <2> QED
    BY <1>2, <2>1, <2>2
<1>6. CASE Clock
  <2>1. CASE PeriodElapses
    BY <1>2, <2>1 DEF PeriodElapses, chvars
  <2>2. CASE DeadlinePasses
    BY <1>2, <2>2 DEF DeadlinePasses, Ch!DeadlinePasses
  <2>3. CASE WakeUnsignalled
    BY <1>2, <2>3 DEF WakeUnsignalled, Ch!WakeUnsignalled
  <2> QED
    BY <1>6, <2>1, <2>2, <2>3 DEF Clock
<1>7. CASE UNCHANGED vars
  BY <1>2, <1>7 DEF vars, chvars
<1> QED
  BY <1>1, <1>3, <1>4, <1>5, <1>6, <1>7 DEF Next

(* The counter is not reset before the profile is. *)
LEMMA ProfileStep ==
    ASSUME TypeOK, PhasesOK, ProfileOK, [Next]_vars PROVE ProfileOK'
<1>0. MaxSamples \in Nat /\ profile \in 0..MaxSamples /\ sample_count \in 0..MaxSamples
  BY BoundsAssumption DEF TypeOK
<1>1. CASE FirstActivate
  BY <1>1 DEF FirstActivate, ProfilingDisabled, NewChannel, NewExporter, NewThread,
     UndoReceiver, UndoSender, UndoFree, PublishEnabled, PhasesOK, ProfileOK,
     NoSampleTwice
<1>2. CASE ShutdownSteps
  BY <1>2 DEF ShutdownSteps, Shutdown, SendWakeUp, CloseSender, FreeChannel, Join,
     ProfileOK, NoSampleTwice
<1>3. CASE RecorderMain
  <2>1. CASE Add
    BY <1>0, <2>1 DEF Add, CountOne, ProfileOK, NoSampleTwice
  <2>2. CASE CallRecv \/ ResumeRecv
    BY <2>2 DEF CallRecv, ResumeRecv, AfterRecv, ProfileOK, NoSampleTwice
  <2>3. CASE Start \/ While \/ Test \/ Report \/ ExportDone \/ Cleanup \/ CleanupFree
    BY <1>0, <2>3 DEF Start, While, Test, Report, ExportDone, Cleanup, CleanupFree,
       ProfileOK, NoSampleTwice
  <2> QED
    BY <1>3, <2>1, <2>2, <2>3 DEF RecorderMain
<1>4. ASSUME NEW w \in Workers, WorkerStep(w) PROVE ProfileOK'
  BY <1>4 DEF WorkerStep, Record, RecordSend, Diagnose, DiagnoseDone, ProfileOK,
     NoSampleTwice
<1>5. CASE Clock
  BY <1>5 DEF Clock, PeriodElapses, DeadlinePasses, WakeUnsignalled, ProfileOK,
     NoSampleTwice
<1>6. CASE UNCHANGED vars
  BY <1>6 DEF vars, ProfileOK, NoSampleTwice
<1> QED
  BY <1>1, <1>2, <1>3, <1>4, <1>5, <1>6 DEF Next

-----------------------------------------------------------------------------
Adding(m) == m \in Messages /\ recorder = "add" /\ result = m

(* No message is in two places, and the places hold what is allocated. *)
MessagesApart ==
    /\ \A v, w \in Workers : worker[v] \in Messages /\ worker[v] = worker[w] => v = w
    /\ \A i, j \in 1..Len(queue) :
           queue[i] \in Messages /\ queue[i] = queue[j] => i = j
    /\ \A w \in Workers, i \in 1..Len(queue) :
           worker[w] \in Messages => worker[w] # queue[i]
    /\ \A w \in Workers : ~Adding(worker[w])
    /\ \A i \in 1..Len(queue) : ~Adding(queue[i])

Held(m) ==
    \/ \E w \in Workers : worker[w] = m
    \/ \E i \in 1..Len(queue) : queue[i] = m
    \/ Adding(m)

OwnersOK == MessagesApart /\ \A m \in Messages : m \in heap <=> Held(m)

(* Nothing changes for the messages when none of their places do. *)
LEMMA PlacesKept ==
    ASSUME OwnersOK, UNCHANGED <<heap, queue>>,
           \A w \in Workers :
               \/ worker'[w] = worker[w]
               \/ worker[w] \notin Messages /\ worker'[w] \notin Messages,
           recorder' = "add" <=> recorder = "add",
           recorder = "add" => result' = result
    PROVE  OwnersOK'
<1>1. ASSUME NEW w \in Workers, worker'[w] \in Messages PROVE worker'[w] = worker[w]
  BY <1>1
<1>2. \A m : Adding(m)' <=> Adding(m)
  BY DEF Adding
<1>3. ASSUME NEW w \in Workers PROVE ~Adding(worker[w])'
  BY <1>1, <1>2 DEF OwnersOK, MessagesApart, Adding
<1>4. MessagesApart'
  BY <1>1, <1>2, <1>3 DEF OwnersOK, MessagesApart
<1>5. ASSUME NEW m \in Messages PROVE Held(m)' <=> Held(m)
  <2>1. \A w \in Workers : worker'[w] = m <=> worker[w] = m
    OBVIOUS
  <2> QED
    BY <1>2, <2>1 DEF Held
<1> QED
  BY <1>4, <1>5 DEF OwnersOK

(* record: a fresh address goes to the PHP thread that asked for it. *)
LEMMA RecordOwns ==
    ASSUME TypeOK, OwnersOK, NEW w \in Workers, Record(w) PROVE OwnersOK'
<1>1. PICK m \in Messages \ heap : /\ heap' = heap \cup {m}
                                   /\ worker' = [worker EXCEPT ![w] = m]
  BY DEF Record
<1>2. /\ UNCHANGED <<recorder, queue, result>>
      /\ worker \in [Workers -> WorkerStates]
  BY DEF Record, chvars, TypeOK
<1>3. worker'[w] = m /\ \A v \in Workers : v # w => worker'[v] = worker[v]
  BY <1>1, <1>2
<1>4. worker[w] \notin Messages
  BY MessagesAssumption DEF Record
<1>5. ~Held(m)
  BY <1>1 DEF OwnersOK
<1>6. \A n : Adding(n)' <=> Adding(n)
  BY <1>2 DEF Adding
<1>7. MessagesApart'
  BY <1>2, <1>3, <1>5, <1>6 DEF OwnersOK, MessagesApart, Held
<1>8. ASSUME NEW n \in Messages PROVE n \in heap' <=> Held(n)'
  <2>1. CASE n = m
    BY <1>1, <1>3, <2>1 DEF Held
  <2>2. CASE n # m
    <3>1. Held(n)' <=> Held(n)
      BY <1>2, <1>3, <1>4, <1>6, <2>2 DEF Held
    <3> QED
      BY <1>1, <2>2, <3>1 DEF OwnersOK
  <2> QED
    BY <2>1, <2>2
<1> QED
  BY <1>7, <1>8 DEF OwnersOK

(* record: what the queue refuses is freed by the thread that has it. *)
LEMMA RefusedOwns ==
    ASSUME TypeOK, OwnersOK, NEW w \in Workers, worker[w] \in Messages,
           heap' = heap \ {worker[w]}, worker' = [worker EXCEPT ![w] = "php"],
           UNCHANGED <<recorder, queue, result>>
    PROVE  OwnersOK'
<1>1. worker'[w] = "php" /\ \A v \in Workers : v # w => worker'[v] = worker[v]
  BY DEF TypeOK
<1>2. "php" \notin Messages
  BY MessagesAssumption
<1>3. \A n : Adding(n)' <=> Adding(n)
  BY DEF Adding
<1>4. MessagesApart'
  BY <1>1, <1>2, <1>3 DEF OwnersOK, MessagesApart, Adding
<1>5. ASSUME NEW n \in Messages PROVE n \in heap' <=> Held(n)'
  <2>1. CASE n = worker[w]
    BY <1>1, <1>2, <1>3, <2>1 DEF OwnersOK, MessagesApart, Held
  <2>2. CASE n # worker[w]
    <3>1. Held(n)' <=> Held(n)
      BY <1>1, <1>2, <1>3, <2>2 DEF Held
    <3> QED
      BY <2>2, <3>1 DEF OwnersOK
  <2> QED
    BY <2>1, <2>2
<1> QED
  BY <1>4, <1>5 DEF OwnersOK

(* record: what the queue accepts is the recorder thread's from now on. *)
LEMMA SentOwns ==
    ASSUME TypeOK, OwnersOK, NEW w \in Workers, worker[w] \in Messages,
           Ch!Send(Sender, worker[w]), worker' = [worker EXCEPT ![w] = "php"],
           UNCHANGED <<recorder, heap>>
    PROVE  OwnersOK'
<1> DEFINE n == Len(queue)
<1>1. worker'[w] = "php" /\ \A v \in Workers : v # w => worker'[v] = worker[v]
  BY DEF TypeOK
<1>2. "php" \notin Messages
  BY MessagesAssumption
<1>3. /\ n \in Nat /\ Len(queue') = n + 1 /\ queue'[n + 1] = worker[w]
      /\ \A i \in 1..n : queue'[i] = queue[i]
      /\ result' = result
  BY SendType DEF TypeOK, Ch!Send
<1> HIDE DEF n
<1>4. \A m : Adding(m)' <=> Adding(m)
  BY <1>3 DEF Adding
<1>5. ASSUME NEW i \in 1..(n + 1) PROVE i \in 1..n \/ i = n + 1
  BY <1>3
<1>6. MessagesApart'
  <2>1. \A v, x \in Workers : worker'[v] \in Messages /\ worker'[v] = worker'[x] => v = x
    BY <1>1, <1>2 DEF OwnersOK, MessagesApart
  <2>2. ASSUME NEW i \in 1..(n + 1), NEW j \in 1..(n + 1),
               queue'[i] \in Messages, queue'[i] = queue'[j]
        PROVE  i = j
    BY <1>3, <1>5, <2>2 DEF OwnersOK, MessagesApart, n
  <2>3. ASSUME NEW v \in Workers, NEW i \in 1..(n + 1), worker'[v] \in Messages
        PROVE  worker'[v] # queue'[i]
    BY <1>1, <1>2, <1>3, <1>5, <2>3 DEF OwnersOK, MessagesApart, n
  <2>4. ASSUME NEW v \in Workers PROVE ~Adding(worker[v])'
    BY <1>1, <1>2, <1>4 DEF OwnersOK, MessagesApart, Adding
  <2>5. ASSUME NEW i \in 1..(n + 1) PROVE ~Adding(queue[i])'
    BY <1>3, <1>4, <1>5 DEF OwnersOK, MessagesApart, n, Adding
  <2> QED
    BY <1>3, <2>1, <2>2, <2>3, <2>4, <2>5 DEF MessagesApart
<1>7. ASSUME NEW m \in Messages PROVE Held(m)' <=> Held(m)
  <2>1. n + 1 \in 1..(n + 1) /\ \A i \in 1..n : i \in 1..(n + 1)
    BY <1>3
  <2>2. (\E i \in 1..(n + 1) : queue'[i] = m)
          <=> (\E i \in 1..n : queue[i] = m) \/ worker[w] = m
    BY <1>3, <1>5, <2>1
  <2>3. (\E v \in Workers : worker'[v] = m) \/ worker[w] = m
          <=> \E v \in Workers : worker[v] = m
    BY <1>1, <1>2
  <2> QED
    BY <1>3, <1>4, <2>2, <2>3 DEF Held, n
<1> QED
  BY <1>6, <1>7 DEF OwnersOK

(* Shutdown: the empty message is nobody's memory. *)
LEMMA WakeUpOwns ==
    ASSUME TypeOK, OwnersOK, Ch!Send(Sender, Null), UNCHANGED <<recorder, heap, worker>>
    PROVE  OwnersOK'
<1> DEFINE n == Len(queue)
<1>1. /\ n \in Nat /\ Len(queue') = n + 1 /\ queue'[n + 1] = Null
      /\ \A i \in 1..n : queue'[i] = queue[i]
      /\ result' = result /\ Null \notin Messages
  BY SendType, MessagesAssumption DEF TypeOK, Ch!Send
<1> HIDE DEF n
<1>2. \A m : Adding(m)' <=> Adding(m)
  BY <1>1 DEF Adding
<1>3. ASSUME NEW i \in 1..(n + 1) PROVE i \in 1..n \/ i = n + 1
  BY <1>1
<1>4. MessagesApart'
  <2>1. ASSUME NEW i \in 1..(n + 1), NEW j \in 1..(n + 1),
               queue'[i] \in Messages, queue'[i] = queue'[j]
        PROVE  i = j
    BY <1>1, <1>3, <2>1 DEF OwnersOK, MessagesApart, n
  <2>2. ASSUME NEW v \in Workers, NEW i \in 1..(n + 1), worker[v] \in Messages
        PROVE  worker[v] # queue'[i]
    BY <1>1, <1>3, <2>2 DEF OwnersOK, MessagesApart, n
  <2>3. ASSUME NEW v \in Workers PROVE ~Adding(worker[v])'
    BY <1>1 DEF OwnersOK, MessagesApart, Adding
  <2>4. ASSUME NEW i \in 1..(n + 1) PROVE ~Adding(queue[i])'
    BY <1>1, <1>3 DEF OwnersOK, MessagesApart, n, Adding
  <2> QED
    BY <1>1, <2>1, <2>2, <2>3, <2>4 DEF OwnersOK, MessagesApart
<1>5. ASSUME NEW m \in Messages PROVE Held(m)' <=> Held(m)
  <2>1. \A i \in 1..n : i \in 1..(n + 1)
    BY <1>1
  <2>2. (\E i \in 1..(n + 1) : queue'[i] = m) <=> (\E i \in 1..n : queue[i] = m)
    BY <1>1, <1>3, <2>1
  <2> QED
    BY <1>1, <1>2, <2>2 DEF Held, n
<1> QED
  BY <1>4, <1>5 DEF OwnersOK

(* A receive moves the oldest message to the recorder thread. *)
LEMMA PopOwns ==
    ASSUME TypeOK, OwnersOK, Ch!Pop, AfterRecv,
           recorder \in {"recv", "blocked"}, UNCHANGED <<heap, worker>>
    PROVE  OwnersOK'
<1> DEFINE n == Len(queue)
<1>1. /\ n \in Nat /\ n >= 1 /\ Len(queue') = n - 1 /\ result' = queue[1]
      /\ \A i \in 1..(n - 1) : queue'[i] = queue[i + 1]
      /\ \A i \in 1..(n - 1) : i + 1 \in 1..n /\ i + 1 # 1
      /\ 1 \in 1..n
  BY PopType DEF TypeOK
<1> HIDE DEF n
<1>2. \A m : Adding(m)' <=> m \in Messages /\ m = queue[1]
  BY <1>1 DEF Adding, AfterRecv, Ch!Pop
<1>3. \A m : ~Adding(m)
  BY DEF Adding
<1>4. MessagesApart'
  <2>1. ASSUME NEW i \in 1..(n - 1), NEW j \in 1..(n - 1),
               queue'[i] \in Messages, queue'[i] = queue'[j]
        PROVE  i = j
    <3>1. i + 1 = j + 1
      BY <1>1, <2>1 DEF OwnersOK, MessagesApart, n
    <3> QED
      BY <3>1, <1>1
  <2>2. ASSUME NEW v \in Workers, NEW i \in 1..(n - 1), worker[v] \in Messages
        PROVE  worker[v] # queue'[i]
    BY <1>1, <2>2 DEF OwnersOK, MessagesApart, n
  <2>3. ASSUME NEW v \in Workers PROVE ~Adding(worker[v])'
    BY <1>1, <1>2 DEF OwnersOK, MessagesApart, n
  <2>4. ASSUME NEW i \in 1..(n - 1) PROVE ~Adding(queue[i])'
    BY <1>1, <1>2 DEF OwnersOK, MessagesApart, n
  <2> QED
    BY <1>1, <2>1, <2>2, <2>3, <2>4 DEF OwnersOK, MessagesApart
<1>5. ASSUME NEW m \in Messages PROVE Held(m)' <=> Held(m)
  <2>1. ASSUME NEW i \in 1..n, i # 1
        PROVE  i - 1 \in 1..(n - 1) /\ queue'[i - 1] = queue[i]
    <3>1. i - 1 \in 1..(n - 1) /\ (i - 1) + 1 = i
      BY <1>1, <2>1
    <3> QED
      BY <3>1, <1>1
  <2>2. (\E i \in 1..n : queue[i] = m)
          <=> (\E i \in 1..(n - 1) : queue'[i] = m) \/ queue[1] = m
    BY <1>1, <2>1
  <2> QED
    BY <1>1, <1>2, <1>3, <2>2 DEF Held, n
<1> QED
  BY <1>4, <1>5 DEF OwnersOK

(* The recorder thread frees what it has added. *)
LEMMA AddOwns ==
    ASSUME TypeOK, ThreadOK, OwnersOK, Add PROVE OwnersOK'
<1>1. /\ heap' = heap \ {result} /\ Adding(result) /\ \A m : ~Adding(m)'
      /\ UNCHANGED <<worker, queue>>
  BY DEF Add, Adding, ThreadOK, chvars
<1>2. MessagesApart'
  BY <1>1 DEF OwnersOK, MessagesApart
<1>3. ASSUME NEW m \in Messages PROVE m \in heap' <=> Held(m)'
  <2>1. CASE m = result
    BY <1>1, <2>1 DEF OwnersOK, MessagesApart, Held
  <2>2. CASE m # result
    <3>1. ~Adding(m)
      BY <2>2 DEF Adding
    <3> QED
      BY <1>1, <2>2, <3>1 DEF OwnersOK, Held
  <2> QED
    BY <2>1, <2>2
<1> QED
  BY <1>2, <1>3 DEF OwnersOK

LEMMA OwnersStep ==
    ASSUME TypeOK, PhasesOK, ThreadOK, OwnersOK, [Next]_vars PROVE OwnersOK'
<1>0. ASSUME UNCHANGED <<heap, queue, worker>>,
             recorder' = "add" <=> recorder = "add",
             recorder = "add" => result' = result
      PROVE  OwnersOK'
  <2>1. \A w \in Workers : worker'[w] = worker[w]
    BY <1>0
  <2> QED
    BY <1>0, <2>1, PlacesKept
<1>1. CASE FirstActivate
  BY <1>0, <1>1 DEF FirstActivate, ProfilingDisabled, NewChannel, NewExporter,
     NewThread, UndoReceiver, UndoSender, UndoFree, PublishEnabled, chvars, PhasesOK,
     Ch!Ctor, Ch!ReceiverDtor, Ch!SenderDtor, Ch!ChannelDtor
<1>2. CASE ShutdownSteps
  <2>1. ASSUME Ch!Send(Sender, Null), SendWakeUp PROVE OwnersOK'
    BY <2>1, WakeUpOwns DEF SendWakeUp
  <2> QED
    BY <1>0, <1>2, <2>1 DEF ShutdownSteps, Shutdown, SendWakeUp, CloseSender,
       FreeChannel, Join, chvars, Ch!SenderDtor, Ch!ChannelDtor
<1>3. CASE RecorderMain
  <2>1. CASE CallRecv \/ ResumeRecv
    <3>1. /\ AfterRecv /\ recorder \in {"recv", "blocked"} /\ UNCHANGED <<heap, worker>>
          /\ Ch!Pop \/ Ch!EmptyHanded \/ Ch!GoToSleep
      BY <2>1 DEF CallRecv, ResumeRecv, Ch!Recv, Ch!RecvResume
    <3>2. CASE Ch!EmptyHanded \/ Ch!GoToSleep
      <4>1. recorder' # "add" /\ queue' = queue
        BY <3>1, <3>2, MessagesAssumption DEF AfterRecv, Ch!EmptyHanded, Ch!GoToSleep
      <4> QED
        BY <1>0, <3>1, <4>1
    <3> QED
      BY <3>1, <3>2, PopOwns
  <2>2. CASE Add
    BY <2>2, AddOwns
  <2>3. CASE Start \/ While \/ Test \/ Report \/ ExportDone
    BY <1>0, <2>3 DEF Start, While, Test, Report, ExportDone, chvars
  <2>4. CASE Cleanup \/ CleanupFree
    BY <1>0, <2>4 DEF Cleanup, CleanupFree, Ch!ReceiverDtor, Ch!ChannelDtor
  <2> QED
    BY <1>3, <2>1, <2>2, <2>3, <2>4 DEF RecorderMain
<1>4. ASSUME NEW w \in Workers, WorkerStep(w) PROVE OwnersOK'
  <2>1. CASE Record(w)
    BY <2>1, RecordOwns
  <2>2. CASE RecordSend(w)
    BY <2>2, SentOwns, RefusedOwns DEF RecordSend, chvars
  <2>3. CASE Diagnose(w) \/ DiagnoseDone(w)
    <3>1. /\ UNCHANGED <<heap, queue, recorder, result>>
          /\ worker[w] \in {"php", "diagnose"}
          /\ \E s \in {"php", "diagnose"} : worker' = [worker EXCEPT ![w] = s]
      BY <2>3 DEF Diagnose, DiagnoseDone, chvars
    <3>2. \A v \in Workers :
              \/ worker'[v] = worker[v]
              \/ worker[v] \notin Messages /\ worker'[v] \notin Messages
      BY <3>1, MessagesAssumption DEF TypeOK
    <3> QED
      BY <3>1, <3>2, PlacesKept
  <2> QED
    BY <1>4, <2>1, <2>2, <2>3 DEF WorkerStep
<1>5. CASE Clock
  BY <1>0, <1>5 DEF Clock, PeriodElapses, DeadlinePasses, WakeUnsignalled, chvars,
     Ch!DeadlinePasses, Ch!WakeUnsignalled
<1>6. CASE UNCHANGED vars
  BY <1>0, <1>6 DEF vars, chvars
<1> QED
  BY <1>1, <1>2, <1>3, <1>4, <1>5, <1>6 DEF Next

-----------------------------------------------------------------------------
Inv == TypeOK /\ ChannelInv /\ PhasesOK /\ ThreadOK /\ ProfileOK /\ OwnersOK

LEMMA InitInv == Init => Inv
<1> SUFFICES ASSUME Init PROVE Inv
  OBVIOUS
<1>1. TypeOK
  <2>1. /\ 0 \in 0..MaxSamples /\ 0 \in 0..Capacity /\ MaxSamples \in Nat
    BY BoundsAssumption
  <2>2. Ch!TypeOK
    <3>1. queue \in Seq(Messages \cup {Null}) /\ Len(queue) = 0
      BY EmptySeq DEF Init, Ch!Init
    <3>2. sender \in [{Sender} -> Ch!SenderStates]
      BY DEF Init, Ch!Init, Ch!SenderStates
    <3>3. /\ impl = "none" /\ receiver = "gone" /\ expired = FALSE /\ result = NoItem
          /\ receiver_count = 0 /\ sender_count = 0
      BY DEF Init, Ch!Init
    <3>4. Len(queue) \in 0..Capacity /\ sender_count \in 0..(4 - 1)
      BY <2>1, <3>1, <3>3
    <3> QED
      BY <3>1, <3>2, <3>3, <3>4 DEF Ch!TypeOK, Ch!ReceiverStates
  <2> QED
    BY <2>1, <2>2 DEF Init, TypeOK, PhpStates, RecorderStates, WorkerStates
<1>2. ChannelInv
  BY <1>1 DEF TypeOK, ChannelInv, Init, Ch!Init, Ch!ReceiverOpen
<1>3. PhasesOK /\ ThreadOK
  BY DEF Init, Ch!Init, PhasesOK, ThreadOK
<1>4. ProfileOK
  BY DEF Init, ProfileOK, NoSampleTwice
<1>5. OwnersOK
  <2>1. queue = <<>> /\ Len(queue) = 0 /\ 1..0 = {}
    BY EmptySeq DEF Init, Ch!Init
  <2>2. \A m : ~Adding(m)
    BY DEF Init, Adding
  <2>3. \A w \in Workers : worker[w] = "php"
    BY DEF Init
  <2> QED
    BY <2>1, <2>2, <2>3, MessagesAssumption
       DEF Init, OwnersOK, MessagesApart, Held
<1> QED
  BY <1>1, <1>2, <1>3, <1>4, <1>5 DEF Inv

LEMMA NextInv == Inv /\ [Next]_vars => Inv'
<1> SUFFICES ASSUME Inv, [Next]_vars PROVE Inv'
  OBVIOUS
<1>1. ChannelInv'
  BY NextUsesChannel, ChannelStepInv DEF Inv
<1>2. TypeOK'
  BY <1>1, TypeStep DEF Inv
<1> QED
  BY <1>1, <1>2, PhasesStep, ThreadStep, ProfileStep, OwnersStep DEF Inv

(* recorder_plugin.c: whenever module shutdown begins, and whatever fails at
   first activation, neither upload finds the exporter deleted. *)
THEOREM ExporterStaysLive == Spec => [](TypeOK /\ ExporterOutlivesUploads)
<1>1. Inv => TypeOK /\ ExporterOutlivesUploads
  BY DEF Inv, PhasesOK, ExporterOutlivesUploads
<1> QED
  BY <1>1, InitInv, NextInv, PTL DEF Spec

(* Both sides of the channel stop using it before they close their handle, and
   it is freed when neither is left. *)
THEOREM ChannelStaysThere == Spec => []ChannelThere
<1>1. Inv => ChannelThere
  <2> SUFFICES ASSUME Inv PROVE ChannelThere
    OBVIOUS
  <2>1. recorder \in {"recv", "blocked"} => Ch!ReceiverOpen
    BY DEF Inv, ThreadOK, Ch!ReceiverOpen
  <2>2. ASSUME NEW w \in Workers, worker[w] \in Messages PROVE Sender \in Ch!OpenSenders
    BY <2>2, MessagesAssumption DEF Inv, PhasesOK, Ch!OpenSenders
  <2>3. Ch!NoUseAfterFree
    BY DEF Inv, ChannelInv, Ch!NoUseAfterFree, Ch!OpenHandles, Ch!Destroyers,
           Ch!OpenSenders, Ch!ReceiverOpen
  <2> QED
    BY <2>1, <2>2, <2>3 DEF ChannelThere
<1> QED
  BY <1>1, InitInv, NextInv, PTL DEF Spec

(* Both counters start together: a profile never holds a sample of the period
   before. *)
THEOREM ProfilesAreDisjoint == Spec => []NoSampleTwice
<1>1. Inv => NoSampleTwice
  BY DEF Inv, ProfileOK
<1> QED
  BY <1>1, InitInv, NextInv, PTL DEF Spec

-----------------------------------------------------------------------------
LEMMA QueuePlaces == ASSUME TypeOK PROVE DOMAIN queue = 1..Len(queue)
  BY LenProperties DEF TypeOK, Ch!TypeOK

(* A message with an owner has only that one. *)
LEMMA OneOfOwners ==
    ASSUME Inv, NEW m \in Messages
    PROVE  /\ \A o, p \in Owners(m) : o = p
           /\ Owners(m) # {} <=> m \in heap
<1>1. ASSUME NEW o
      PROVE  o \in Owners(m) <=>
               \/ \E w \in Workers : worker[w] = m /\ o = <<"worker", w>>
               \/ \E i \in 1..Len(queue) : queue[i] = m /\ o = <<"queue", i>>
               \/ Adding(m) /\ o = <<"recorder", 0>>
  BY QueuePlaces DEF Owners, Adding, Inv
<1>2. \A o, p \in Owners(m) : o = p
  BY <1>1 DEF Inv, OwnersOK, MessagesApart
<1>3. Owners(m) # {} <=> Held(m)
  BY <1>1 DEF Held
<1> QED
  BY <1>2, <1>3 DEF Inv, OwnersOK

(* recorder_plugin.c, for any number of PHP threads: malloc, send, receive, free
   and refuse leave each message with one owner, although an address may be
   used again at once. *)
THEOREM EveryMessageHasOneOwner == Spec => []OneOwner
<1>1. Inv => OneOwner
  <2> SUFFICES ASSUME Inv, NEW m \in Messages
               PROVE  Cardinality(Owners(m)) = IF m \in heap THEN 1 ELSE 0
    BY DEF OneOwner
  <2>1. CASE m \in heap
    <3>1. PICK o : o \in Owners(m)
      BY <2>1, OneOfOwners
    <3>2. Owners(m) = {o}
      BY <3>1, OneOfOwners
    <3> QED
      BY <2>1, <3>2, FS_Singleton
  <2>2. CASE m \notin heap
    BY <2>2, OneOfOwners, FS_EmptySet
  <2> QED
    BY <2>1, <2>2
<1> QED
  BY <1>1, InitInv, NextInv, PTL DEF Spec

(* Where a message can be. *)
Places == (({"worker"} \X Workers) \cup ({"queue"} \X (1..Capacity)))
            \cup {<<"recorder", 0>>}

LEMMA PlacesFinite ==
    /\ IsFiniteSet(Places)
    /\ Cardinality(Places) \in Nat /\ Cardinality(Workers) \in Nat
    /\ Cardinality(Places) <= Capacity + Cardinality(Workers) + 1
<1> DEFINE A == {"worker"} \X Workers
           B == {"queue"} \X (1..Capacity)
<1>1. /\ IsFiniteSet(Workers) /\ Cardinality(Workers) \in Nat
      /\ Capacity \in Nat /\ IsFiniteSet(1..Capacity)
      /\ Cardinality(1..Capacity) = Capacity
  <2>1. IsFiniteSet(Workers) /\ Capacity \in Nat
    BY BoundsAssumption
  <2>2. IsFiniteSet(1..Capacity)
          /\ Cardinality(1..Capacity) = IF 1 > Capacity THEN 0 ELSE Capacity - 1 + 1
    BY <2>1, FS_Interval
  <2>3. Cardinality(Workers) \in Nat
    BY <2>1, FS_CardinalityType
  <2> QED
    BY <2>1, <2>2, <2>3
<1>2. IsFiniteSet(A) /\ Cardinality(A) = Cardinality(Workers)
  <2>1. IsFiniteSet({"worker"}) /\ Cardinality({"worker"}) = 1
    BY FS_Singleton
  <2>2. IsFiniteSet(A) /\ Cardinality(A) = 1 * Cardinality(Workers)
    BY <1>1, <2>1, FS_Product
  <2> QED
    BY <1>1, <2>2
<1>3. IsFiniteSet(B) /\ Cardinality(B) = Capacity
  <2>1. IsFiniteSet({"queue"}) /\ Cardinality({"queue"}) = 1
    BY FS_Singleton
  <2>2. IsFiniteSet(B) /\ Cardinality(B) = 1 * Capacity
    BY <1>1, <2>1, FS_Product
  <2> QED
    BY <1>1, <2>2
<1> HIDE DEF A, B
<1>4. /\ IsFiniteSet(A \cup B) /\ Cardinality(A \cup B) \in Nat
      /\ Cardinality(A \cup B) <= Cardinality(Workers) + Capacity
  <2>1. IsFiniteSet(A \cap B) /\ Cardinality(A \cap B) \in Nat
    BY <1>2, FS_Subset, FS_CardinalityType
  <2>2. IsFiniteSet(A \cup B)
          /\ Cardinality(A \cup B) = Cardinality(A) + Cardinality(B) - Cardinality(A \cap B)
    BY <1>2, <1>3, FS_Union
  <2>3. Cardinality(A \cup B) \in Nat
    BY <2>2, FS_CardinalityType
  <2> QED
    BY <1>1, <1>2, <1>3, <2>1, <2>2, <2>3
<1>5. /\ IsFiniteSet((A \cup B) \cup {<<"recorder", 0>>})
      /\ Cardinality((A \cup B) \cup {<<"recorder", 0>>}) <= Cardinality(A \cup B) + 1
  <2> DEFINE S == A \cup B
  <2>1. IsFiniteSet(S) /\ Cardinality(S) \in Nat
    BY <1>4
  <2> HIDE DEF S
  <2>2. /\ IsFiniteSet(S \cup {<<"recorder", 0>>})
        /\ Cardinality(S \cup {<<"recorder", 0>>})
             = IF <<"recorder", 0>> \in S THEN Cardinality(S) ELSE Cardinality(S) + 1
    BY <2>1, FS_AddElement
  <2>3. Cardinality(S \cup {<<"recorder", 0>>}) <= Cardinality(S) + 1
    BY <2>1, <2>2
  <2> QED
    BY <2>2, <2>3 DEF S
<1>6. Places = (A \cup B) \cup {<<"recorder", 0>>}
  BY DEF Places, A, B
<1>7. Cardinality(Places) \in Nat
  BY <1>5, <1>6, FS_CardinalityType
<1> QED
  BY <1>1, <1>4, <1>5, <1>6, <1>7

(* However long the recorder is away, record never holds more memory than the
   queue and the threads have places for messages. *)
THEOREM MemoryIsBounded == Spec => []MessagesBounded
<1>1. Inv => MessagesBounded
  <2> SUFFICES ASSUME Inv PROVE MessagesBounded
    OBVIOUS
  <2> DEFINE at == [m \in heap |-> CHOOSE o : o \in Owners(m)]
  <2>1. heap \subseteq Messages /\ Len(queue) \in 0..Capacity /\ Capacity \in Nat
    BY BoundsAssumption DEF Inv, TypeOK, Ch!TypeOK
  <2>2. ASSUME NEW m \in heap
        PROVE  at[m] \in Owners(m) /\ Owners(m) \subseteq Places
    <3>1. Owners(m) # {}
      BY <2>1, OneOfOwners
    <3>2. at[m] \in Owners(m)
      BY <3>1
    <3>3. Owners(m) \subseteq Places
      BY <2>1, QueuePlaces DEF Inv, Owners, Places
    <3> QED
      BY <3>2, <3>3
  <2>3. ASSUME NEW m, NEW n, NEW o \in Owners(m), o \in Owners(n)
        PROVE  m = n
    BY <2>3 DEF Owners
  <2>4. at \in Injection(heap, Places)
    BY <2>2, <2>3 DEF Injection, IsInjective
  <2>5. Cardinality(heap) <= Cardinality(Places) /\ Cardinality(heap) \in Nat
    BY <2>4, PlacesFinite, FS_Injection, FS_CardinalityType
  <2> QED
    BY <2>1, <2>5, PlacesFinite DEF MessagesBounded
<1> QED
  BY <1>1, InitInv, NextInv, PTL DEF Spec

(* The recorder comes back without a message only at the end of the period or
   of the process's life. *)
THEOREM RecorderNeverSpins == Spec => NoSpinning
<1> DEFINE Spins == /\ recorder \in {"recv", "blocked"}
                    /\ recorder' = "test"
                    /\ result' = NoItem
<1>1. Inv /\ [Next]_vars => [Spins => (elapsed \/ ~enabled)]_vars
  <2> SUFFICES ASSUME Inv, Next, Spins, enabled PROVE elapsed
    BY DEF vars
  <2>1. CallRecv \/ ResumeRecv
    <3>1. CASE RecorderMain
      BY <3>1 DEF RecorderMain, Start, While, Add, Test, Report, ExportDone,
                  Cleanup, CleanupFree
    <3>2. CASE FirstActivate
      BY <3>2 DEF FirstActivate, ProfilingDisabled, NewChannel, NewExporter,
         NewThread, UndoReceiver, UndoSender, UndoFree, PublishEnabled
    <3>3. CASE ShutdownSteps
      BY <3>3 DEF ShutdownSteps, Shutdown, SendWakeUp, CloseSender, FreeChannel, Join
    <3>4. ASSUME NEW w \in Workers, WorkerStep(w) PROVE FALSE
      BY <3>4 DEF WorkerStep, Record, RecordSend, Diagnose, DiagnoseDone
    <3>5. CASE Clock
      BY <3>5 DEF Clock, PeriodElapses, DeadlinePasses, WakeUnsignalled
    <3> QED
      BY <3>1, <3>2, <3>3, <3>4, <3>5 DEF Next
  <2>2. sender_count = 1
    BY DEF Inv, PhasesOK, ChannelInv
  <2>3. ~Ch!Pop
    BY PopType, MessagesAssumption DEF Inv, TypeOK
  <2>4. ~Ch!GoToSleep
    BY <2>1 DEF CallRecv, ResumeRecv, AfterRecv, Ch!GoToSleep
  <2>5. CASE CallRecv
    BY <2>2, <2>3, <2>4, <2>5 DEF CallRecv, Ch!Recv
  <2>6. CASE ResumeRecv
    BY <2>2, <2>3, <2>4, <2>6 DEF ResumeRecv, Ch!RecvResume, Inv, ThreadOK
  <2> QED
    BY <2>1, <2>5, <2>6
<1> QED
  BY <1>1, InitInv, NextInv, PTL DEF Spec, NoSpinning

-----------------------------------------------------------------------------
(* How many samples wait: the queue holds them, and one may be with the
   recorder.  Pending is what Pipeline calls `pending'. *)
InQueue == Cardinality(Queued)
Pending == InQueue + IF recorder = "add" THEN 1 ELSE 0

LEMMA QueuedFinite ==
    ASSUME TypeOK
    PROVE  /\ Queued = {i \in 1..Len(queue) : queue[i] # Null}
           /\ IsFiniteSet(Queued)
           /\ InQueue \in Nat
           /\ InQueue <= Len(queue)
<1>1. Len(queue) \in Nat
  BY BoundsAssumption DEF TypeOK, Ch!TypeOK
<1>2. Queued = {i \in 1..Len(queue) : queue[i] # Null}
  BY QueuePlaces DEF Queued
<1>3. IsFiniteSet(1..Len(queue)) /\ Cardinality(1..Len(queue)) = Len(queue)
  <2>1. /\ IsFiniteSet(1..Len(queue))
        /\ Cardinality(1..Len(queue))
             = IF 1 > Len(queue) THEN 0 ELSE Len(queue) - 1 + 1
    BY <1>1, FS_Interval
  <2> QED
    BY <1>1, <2>1
<1>4. Queued \in SUBSET (1..Len(queue))
  BY <1>2
<1> QED
  BY <1>2, <1>3, <1>4, FS_Subset, FS_CardinalityType DEF InQueue

LEMMA SendCounts ==
    ASSUME TypeOK, TypeOK', NEW item \in Messages \cup {Null}, Ch!Send(Sender, item)
    PROVE  InQueue' = IF item = Null THEN InQueue ELSE InQueue + 1
<1> DEFINE n == Len(queue)
<1>1. /\ n \in Nat /\ Len(queue') = n + 1 /\ queue'[n + 1] = item
      /\ \A i \in 1..n : queue'[i] = queue[i]
  BY SendType DEF TypeOK
<1>2. /\ Queued = {i \in 1..n : queue[i] # Null}
      /\ Queued' = {i \in 1..(n + 1) : queue'[i] # Null}
  BY <1>1, QueuedFinite, QueuePlaces DEF Queued, TypeOK
<1> HIDE DEF n
<1>3. Queued' = IF item = Null THEN Queued ELSE Queued \cup {n + 1}
  BY <1>1, <1>2
<1>4. n + 1 \notin Queued
  BY <1>1, <1>2
<1>5. CASE item = Null
  BY <1>3, <1>5 DEF InQueue
<1>6. CASE item # Null
  <2>1. Cardinality(Queued \cup {n + 1}) = Cardinality(Queued) + 1
    BY <1>4, QueuedFinite, FS_AddElement
  <2> QED
    BY <1>3, <1>6, <2>1 DEF InQueue
<1> QED
  BY <1>5, <1>6

LEMMA PopCounts ==
    ASSUME TypeOK, TypeOK', Ch!Pop
    PROVE  InQueue' = IF result' = Null THEN InQueue ELSE InQueue - 1
<1> DEFINE n == Len(queue)
           rest == Queued \ {1}
           back == [i \in Queued' |-> i + 1]
<1>1. /\ n \in Nat /\ n >= 1 /\ Len(queue') = n - 1 /\ result' = queue[1]
      /\ \A i \in 1..(n - 1) : queue'[i] = queue[i + 1]
  BY PopType DEF TypeOK
<1>2. /\ Queued = {i \in 1..n : queue[i] # Null}
      /\ Queued' = {i \in 1..(n - 1) : queue'[i] # Null}
  <2>1. DOMAIN queue' = 1..Len(queue')
    BY LenProperties DEF TypeOK, Ch!TypeOK
  <2> QED
    BY <1>1, <2>1, QueuedFinite DEF Queued
<1> HIDE DEF n
<1>3. rest = {i \in 1..n : queue[i] # Null /\ i # 1}
  BY <1>2
<1>4. back \in Bijection(Queued', rest)
  <2>1. ASSUME NEW i \in Queued' PROVE i \in Nat /\ back[i] = i + 1 /\ i + 1 \in rest
    BY <1>1, <1>2, <1>3
  <2>2. ASSUME NEW i \in rest PROVE i - 1 \in Queued' /\ (i - 1) + 1 = i
    <3>1. i - 1 \in 1..(n - 1) /\ (i - 1) + 1 = i
      BY <1>1, <1>3
    <3> QED
      BY <3>1, <1>1, <1>2, <1>3
  <2>3. back \in [Queued' -> rest]
    BY <2>1
  <2>4. \A i, j \in Queued' : back[i] = back[j] => i = j
    BY <2>1
  <2>5. \A i \in rest : \E j \in Queued' : back[j] = i
    BY <2>1, <2>2
  <2> QED
    BY <2>3, <2>4, <2>5 DEF Bijection, Injection, Surjection, IsInjective
<1>5. InQueue' = Cardinality(rest)
  <2>1. IsFiniteSet(Queued')
    <3>1. 1 \in Int /\ n - 1 \in Int
      BY <1>1
    <3>2. IsFiniteSet(1..(n - 1))
      BY <3>1, FS_Interval
    <3>3. Queued' \in SUBSET (1..(n - 1))
      BY <1>2
    <3> QED
      BY <3>2, <3>3, FS_Subset
  <2>2. ExistsBijection(Queued', rest)
    BY <1>4 DEF ExistsBijection
  <2> QED
    BY <2>1, <2>2, FS_Bijection DEF InQueue
<1>6. Cardinality(rest) = IF 1 \in Queued THEN InQueue - 1 ELSE InQueue
  BY QueuedFinite, FS_RemoveElement DEF InQueue
<1>7. 1 \in Queued <=> result' # Null
  BY <1>1, <1>2
<1> QED
  BY <1>5, <1>6, <1>7

-----------------------------------------------------------------------------
LEMMA StepPipeline ==
    ASSUME Inv, Inv', [Next]_vars
    PROVE  \/ Pipeline!Next
           \/ UNCHANGED <<enabled, Pending, profile>>
<1>0. /\ InQueue \in Nat /\ InQueue <= Len(queue) /\ profile \in Nat
      /\ MaxSamples \in Nat /\ Capacity \in Nat /\ enabled \in BOOLEAN
      /\ Pending = InQueue + IF recorder = "add" THEN 1 ELSE 0
      /\ Pending' = InQueue' + IF recorder' = "add" THEN 1 ELSE 0
  BY QueuedFinite, BoundsAssumption DEF Inv, TypeOK, Pending
<1>1. queue' = queue => InQueue' = InQueue
  BY DEF InQueue, Queued
<1>2. CASE FirstActivate
  <2>1. UNCHANGED <<queue, profile>>
    BY <1>2 DEF FirstActivate, ProfilingDisabled, NewChannel, NewExporter, NewThread,
       UndoReceiver, UndoSender, UndoFree, PublishEnabled, chvars,
       Ch!Ctor, Ch!ReceiverDtor, Ch!SenderDtor, Ch!ChannelDtor
  <2>2. recorder = "add" <=> recorder' = "add"
    BY <1>2 DEF FirstActivate, ProfilingDisabled, NewChannel, NewExporter, NewThread,
       UndoReceiver, UndoSender, UndoFree, PublishEnabled, Inv, PhasesOK
  <2>3. Pending' = Pending
    BY <1>0, <1>1, <2>1, <2>2
  <2>4. enabled' = enabled \/ (~enabled /\ enabled' = TRUE)
    BY <1>2, <1>0 DEF FirstActivate, ProfilingDisabled, NewChannel, NewExporter,
       NewThread, UndoReceiver, UndoSender, UndoFree, PublishEnabled, Inv, PhasesOK
  <2> QED
    BY <2>1, <2>3, <2>4 DEF Pipeline!Next, Pipeline!Open, Pending, InQueue
<1>3. CASE ShutdownSteps
  <2>1. UNCHANGED <<recorder, profile>>
    BY <1>3 DEF ShutdownSteps, Shutdown, SendWakeUp, CloseSender, FreeChannel, Join
  <2>2. CASE Shutdown
    <3>1. Pending' = Pending /\ enabled' = FALSE
      BY <1>0, <1>1, <2>1, <2>2 DEF Shutdown, chvars
    <3> QED
      BY <1>0, <2>1, <3>1 DEF Pipeline!Next, Pipeline!Close, Pending, InQueue
  <2>3. CASE SendWakeUp
    <3>1. InQueue' = InQueue
      BY <1>1, <2>3, SendCounts DEF SendWakeUp, Inv, chvars
    <3> QED
      BY <1>0, <2>1, <2>3, <3>1 DEF SendWakeUp
  <2>4. CASE CloseSender \/ FreeChannel \/ Join
    <3>1. UNCHANGED <<queue, enabled>>
      BY <2>4 DEF CloseSender, FreeChannel, Join, chvars, Ch!SenderDtor, Ch!ChannelDtor
    <3> QED
      BY <1>0, <1>1, <2>1, <3>1
  <2> QED
    BY <1>3, <2>2, <2>3, <2>4 DEF ShutdownSteps
<1>4. CASE RecorderMain
  <2>0. enabled' = enabled
    BY <1>4 DEF RecorderMain, Start, While, CallRecv, ResumeRecv, Add, Test, Report,
                ExportDone, Cleanup, CleanupFree
  <2>1. CASE CallRecv \/ ResumeRecv
    <3>1. /\ AfterRecv /\ recorder # "add" /\ profile' = profile
          /\ Ch!Pop \/ Ch!EmptyHanded \/ Ch!GoToSleep
      BY <2>1 DEF CallRecv, ResumeRecv, Ch!Recv, Ch!RecvResume
    <3>2. CASE Ch!Pop
      <4>1. recorder' = "add" <=> result' # Null
        BY <3>1, <3>2, PopType, MessagesAssumption DEF AfterRecv, Ch!Pop, Inv, TypeOK
      <4>2. InQueue' = IF result' = Null THEN InQueue ELSE InQueue - 1
        BY <3>2, PopCounts DEF Inv
      <4> QED
        BY <1>0, <2>0, <3>1, <4>1, <4>2
    <3>3. CASE Ch!EmptyHanded \/ Ch!GoToSleep
      <4>1. recorder' # "add" /\ queue' = queue
        BY <3>1, <3>3, MessagesAssumption DEF AfterRecv, Ch!EmptyHanded, Ch!GoToSleep
      <4> QED
        BY <1>0, <1>1, <2>0, <3>1, <4>1
    <3> QED
      BY <3>1, <3>2, <3>3
  <2>2. CASE Add
    <3>1. Pending > 0 /\ Pending' = Pending - 1
      BY <1>0, <1>1, <2>2 DEF Add, chvars
    <3>2. \/ profile' = IF profile < MaxSamples THEN profile + 1 ELSE profile
          \/ profile' = profile
      BY <2>2 DEF Add, CountOne
    <3> QED
      BY <2>0, <3>1, <3>2
         DEF Pipeline!Next, Pipeline!Aggregate, Pipeline!Lose, Pending, InQueue
  <2>3. CASE Start \/ While \/ Test
    <3>1. UNCHANGED <<queue, profile>> /\ recorder # "add" /\ recorder' # "add"
      BY <2>3 DEF Start, While, Test, chvars
    <3> QED
      BY <1>0, <1>1, <2>0, <3>1
  <2>4. CASE Report \/ ExportDone
    <3>1. /\ queue' = queue /\ recorder # "add" /\ recorder' # "add"
          /\ profile' \in {0, profile}
      BY <2>4 DEF Report, ExportDone, chvars
    <3>2. Pending' = Pending
      BY <1>0, <1>1, <3>1
    <3> QED
      BY <1>0, <2>0, <3>1, <3>2 DEF Pipeline!Next, Pipeline!Report, Pending, InQueue
  <2>5. CASE Cleanup \/ CleanupFree
    <3>1. UNCHANGED <<queue, profile>> /\ recorder # "add" /\ recorder' # "add"
      BY <2>5 DEF Cleanup, CleanupFree, Ch!ReceiverDtor, Ch!ChannelDtor
    <3> QED
      BY <1>0, <1>1, <2>0, <3>1
  <2> QED
    BY <1>4, <2>1, <2>2, <2>3, <2>4, <2>5 DEF RecorderMain
<1>5. ASSUME NEW w \in Workers, WorkerStep(w)
      PROVE  Pipeline!Next \/ UNCHANGED <<enabled, Pending, profile>>
  <2>1. UNCHANGED <<enabled, recorder, profile>>
    BY <1>5 DEF WorkerStep, Record, RecordSend, Diagnose, DiagnoseDone
  <2>2. CASE queue' = queue
    BY <1>0, <1>1, <2>1, <2>2
  <2>3. CASE RecordSend(w) /\ Ch!Send(Sender, worker[w])
    <3>1. worker[w] \in Messages /\ worker[w] # Null /\ enabled
      BY <2>3, MessagesAssumption DEF RecordSend, Inv, PhasesOK
    <3>2. Pending < Capacity + 1 /\ Pending' = Pending + 1
      <4>1. InQueue' = InQueue + 1
        BY <2>3, <3>1, SendCounts DEF Inv
      <4>2. Len(queue) < Capacity /\ Len(queue) \in Nat
        BY <1>0, <2>3 DEF Ch!Send, Inv, TypeOK, Ch!TypeOK
      <4> QED
        BY <1>0, <2>1, <4>1, <4>2
    <3> QED
      BY <2>1, <3>1, <3>2 DEF Pipeline!Next, Pipeline!Accept, Pending, InQueue
  <2> QED
    BY <1>5, <2>2, <2>3
       DEF WorkerStep, Record, RecordSend, Diagnose, DiagnoseDone, chvars
<1>6. CASE Clock
  <2>1. UNCHANGED <<enabled, recorder, profile, queue>>
    BY <1>6 DEF Clock, PeriodElapses, DeadlinePasses, WakeUnsignalled, chvars,
                Ch!DeadlinePasses, Ch!WakeUnsignalled
  <2> QED
    BY <1>0, <1>1, <2>1
<1>7. CASE UNCHANGED vars
  BY <1>0, <1>1, <1>7 DEF vars, chvars
<1> QED
  BY <1>2, <1>3, <1>4, <1>5, <1>6, <1>7 DEF Next

(* Threads, queue and memory never show in how samples are handled: each that
   is accepted is held once, added once or lost to a failed allocation, and a
   profile is emptied as a whole. *)
THEOREM RecorderImplementsPipeline == Spec => ImplementsPipeline
<1>1. Init => Pipeline!Init
  <2> SUFFICES ASSUME Init PROVE Pipeline!Init
    OBVIOUS
  <2>1. Queued = {}
    BY EmptySeq DEF Init, Ch!Init, Queued
  <2>2. Cardinality(Queued) + (IF recorder = "add" THEN 1 ELSE 0) = 0
    BY <2>1, FS_EmptySet DEF Init
  <2> QED
    BY <2>2 DEF Init, Pipeline!Init
<1>2. Inv /\ Inv' /\ [Next]_vars => [Pipeline!Next]_(Pipeline!vars)
  BY StepPipeline DEF Pipeline!vars, Pending, InQueue
<1> QED
  BY <1>1, <1>2, InitInv, NextInv, PTL
     DEF Spec, ImplementsPipeline, Pipeline!Spec
=============================================================================
