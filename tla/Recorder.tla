------------------------------ MODULE Recorder ------------------------------
(***************************************************************************)
(* profiling/plugins/recorder_plugin: the thread that aggregates samples   *)
(* and uploads profiles, the PHP threads that hand it samples through the  *)
(* channel, and the thread that starts and stops it, over one life of the  *)
(* process: first activation, requests, module shutdown.                   *)
(*                                                                         *)
(* The channel is Channel itself: each critical section of channel.c is    *)
(* one step here too, so everything may happen between two of them.        *)
(* A message is the address malloc returned; addresses are reused.         *)
(***************************************************************************)
EXTENDS Naturals, Sequences, FiniteSets

CONSTANTS
    Workers,        \* PHP threads; a single one unless PHP is thread safe
    Messages,       \* addresses malloc may return for a record_msg
    Null,           \* the empty message that wakes the receiver
    NoItem,
    Sender, Receiver,   \* the two handles in the static `channel'
    Capacity,       \* CHANNEL_CAPACITY
    MaxSamples,     \* where the model stops counting the samples of a period
    Faults          \* which calls may fail in this instance

ASSUME MessagesAssumption ==
    /\ Null \notin Messages
    /\ NoItem \notin Messages \cup {Null}
    /\ "php" \notin Messages /\ "diagnose" \notin Messages
ASSUME HandlesAssumption == Sender # Receiver
ASSUME BoundsAssumption ==
    /\ IsFiniteSet(Workers)
    /\ Capacity \in Nat
    /\ MaxSamples \in Nat
ASSUME FaultsAssumption ==
    Faults \subseteq {"channel", "exporter", "thread", "profile", "calloc"}

VARIABLES
    enabled,        \* datadog_php_profiling_recorder_enabled
    php,            \* where first_activate or shutdown is
    worker,         \* what each PHP thread does, see WorkerStates
    recorder,       \* where datadog_php_recorder_plugin_main is
    exporter,       \* the static ProfileExporterV3
    heap,           \* the addresses malloc'ed and not freed
    profile,        \* how many samples the recorder's profile holds
    sample_count,   \* what the recorder counted in this period
    elapsed,        \* the upload period has passed since `before'
    impl, queue, receiver_count, sender_count,      \* the channel
    receiver, sender, expired, result

chvars == <<impl, queue, receiver_count, sender_count,
            receiver, sender, expired, result>>
vars == <<enabled, php, worker, recorder, exporter, heap,
          profile, sample_count, elapsed, chvars>>

\* 2^32 handles are out of reach: one sender, never cloned.
Ch == INSTANCE Channel WITH
    Senders <- {Sender}, FirstSender <- Sender,
    Items <- Messages \cup {Null}, CountMod <- 4

PhpStates == {"start", "new exporter", "new thread", "undo receiver",
              "undo sender", "undo free", "succeed", "fail", "running",
              "wake up", "close", "free", "join", "off"}
RecorderStates == {"none", "starting", "while", "recv", "blocked", "add",
                   "test", "report", "export", "cleanup", "free", "done"}

(* A PHP thread executes PHP, is in record with the message it allocated, or
   uploads from phpinfo. *)
WorkerStates == {"php", "diagnose"} \cup Messages

TypeOK ==
    /\ enabled \in BOOLEAN
    /\ php \in PhpStates
    /\ worker \in [Workers -> WorkerStates]
    /\ recorder \in RecorderStates
    /\ exporter \in {"none", "live", "deleted"}
    /\ heap \subseteq Messages
    /\ profile \in 0..MaxSamples
    /\ sample_count \in 0..MaxSamples
    /\ elapsed \in BOOLEAN
    /\ Ch!TypeOK

Init ==
    /\ enabled = FALSE
    /\ php = "start"
    /\ worker = [w \in Workers |-> "php"]
    /\ recorder = "none"
    /\ exporter = "none"
    /\ heap = {}
    /\ profile = 0
    /\ sample_count = 0
    /\ elapsed = FALSE
    /\ Ch!Init

-----------------------------------------------------------------------------
(* datadog_php_recorder_plugin_first_activate and its helper *)

ProfilingDisabled ==
    /\ php = "start"
    /\ php' = "fail"
    /\ UNCHANGED <<enabled, worker, recorder, exporter, heap,
                   profile, sample_count, elapsed, chvars>>

NewChannel ==
    /\ php = "start"
    /\ \/ Ch!Ctor /\ php' = "new exporter"
       \/ "channel" \in Faults /\ php' = "fail" /\ UNCHANGED chvars
    /\ UNCHANGED <<enabled, worker, recorder, exporter, heap,
                   profile, sample_count, elapsed>>

NewExporter ==
    /\ php = "new exporter"
    /\ \/ exporter' = "live" /\ php' = "new thread"
       \/ "exporter" \in Faults /\ php' = "fail" /\ UNCHANGED exporter
    /\ UNCHANGED <<enabled, worker, recorder, heap,
                   profile, sample_count, elapsed, chvars>>

NewThread ==
    /\ php = "new thread"
    /\ \/ recorder' = "starting" /\ php' = "succeed" /\ UNCHANGED exporter
       \/ /\ "thread" \in Faults
          /\ exporter' = "deleted"
          /\ php' = "undo receiver"
          /\ UNCHANGED recorder
    /\ UNCHANGED <<enabled, worker, heap, profile, sample_count, elapsed, chvars>>

UndoReceiver ==
    /\ php = "undo receiver"
    /\ Ch!ReceiverDtor
    /\ php' = "undo sender"
    /\ UNCHANGED <<enabled, worker, recorder, exporter, heap,
                   profile, sample_count, elapsed>>

UndoSender ==
    /\ php = "undo sender"
    /\ Ch!SenderDtor(Sender)
    /\ php' = IF sender'[Sender] = "destroy" THEN "undo free" ELSE "fail"
    /\ UNCHANGED <<enabled, worker, recorder, exporter, heap,
                   profile, sample_count, elapsed>>

UndoFree ==
    /\ php = "undo free"
    /\ Ch!ChannelDtor
    /\ php' = "fail"
    /\ UNCHANGED <<enabled, worker, recorder, exporter, heap,
                   profile, sample_count, elapsed>>

(* The assignment that first_activate ends with: the thread already runs. *)
PublishEnabled ==
    /\ php \in {"succeed", "fail"}
    /\ enabled' = (php = "succeed")
    /\ php' = "running"
    /\ UNCHANGED <<worker, recorder, exporter, heap,
                   profile, sample_count, elapsed, chvars>>

-----------------------------------------------------------------------------
(* datadog_php_recorder_plugin_record, called by the sampler *)

\* Bug variant: samples are recorded although the plugin is off.
RecordUnchecked(w) ==
    /\ php = "running"
    /\ worker[w] = "php"
    /\ Ch!OpenSenders # {}
    /\ \E m \in Messages \ heap :
          /\ heap' = heap \cup {m}
          /\ worker' = [worker EXCEPT ![w] = m]
    /\ UNCHANGED <<enabled, php, recorder, exporter,
                   profile, sample_count, elapsed, chvars>>

Record(w) ==
    /\ php = "running"
    /\ worker[w] = "php"
    /\ enabled
    /\ \E m \in Messages \ heap :
          /\ heap' = heap \cup {m}
          /\ worker' = [worker EXCEPT ![w] = m]
    /\ UNCHANGED <<enabled, php, recorder, exporter,
                   profile, sample_count, elapsed, chvars>>

\* Bug variant: a refused message is not freed.
RecordSendKeeps(w) ==
    /\ worker[w] \in Messages
    /\ \/ Ch!Send(Sender, worker[w])
       \/ Len(queue) = Capacity /\ UNCHANGED chvars
    /\ worker' = [worker EXCEPT ![w] = "php"]
    /\ UNCHANGED <<enabled, php, recorder, exporter, heap,
                   profile, sample_count, elapsed>>

RecordSend(w) ==
    /\ worker[w] \in Messages
    /\ \/ /\ Ch!Send(Sender, worker[w])
          /\ UNCHANGED heap
       \/ /\ Len(queue) = Capacity
          /\ heap' = heap \ {worker[w]}
          /\ UNCHANGED chvars
    /\ worker' = [worker EXCEPT ![w] = "php"]
    /\ UNCHANGED <<enabled, php, recorder, exporter,
                   profile, sample_count, elapsed>>

(* datadog_php_recorder_plugin_diagnose uploads a profile of its own through
   the same exporter, beside the recorder thread. *)
Diagnose(w) ==
    /\ php = "running"
    /\ worker[w] = "php"
    /\ enabled
    /\ worker' = [worker EXCEPT ![w] = "diagnose"]
    /\ UNCHANGED <<enabled, php, recorder, exporter, heap,
                   profile, sample_count, elapsed, chvars>>

DiagnoseDone(w) ==
    /\ worker[w] = "diagnose"
    /\ worker' = [worker EXCEPT ![w] = "php"]
    /\ UNCHANGED <<enabled, php, recorder, exporter, heap,
                   profile, sample_count, elapsed, chvars>>

-----------------------------------------------------------------------------
(* datadog_php_recorder_plugin_shutdown: module shutdown, after the requests *)

Shutdown ==
    /\ php = "running"
    /\ \A w \in Workers : worker[w] = "php"
    /\ php' = IF enabled THEN "wake up" ELSE "off"
    /\ enabled' = FALSE
    /\ UNCHANGED <<worker, recorder, exporter, heap,
                   profile, sample_count, elapsed, chvars>>

\* Bug variant: nothing is sent before the sender is destructed.
NoWakeUp ==
    /\ php = "wake up"
    /\ php' = "close"
    /\ UNCHANGED <<enabled, worker, recorder, exporter, heap,
                   profile, sample_count, elapsed, chvars>>

SendWakeUp ==
    /\ php = "wake up"
    /\ \/ Ch!Send(Sender, Null)
       \/ Len(queue) = Capacity /\ UNCHANGED chvars
    /\ php' = "close"
    /\ UNCHANGED <<enabled, worker, recorder, exporter, heap,
                   profile, sample_count, elapsed>>

CloseSender ==
    /\ php = "close"
    /\ Ch!SenderDtor(Sender)
    /\ php' = IF sender'[Sender] = "destroy" THEN "free" ELSE "join"
    /\ UNCHANGED <<enabled, worker, recorder, exporter, heap,
                   profile, sample_count, elapsed>>

FreeChannel ==
    /\ php = "free"
    /\ Ch!ChannelDtor
    /\ php' = "join"
    /\ UNCHANGED <<enabled, worker, recorder, exporter, heap,
                   profile, sample_count, elapsed>>

\* Bug variant: the exporter is deleted without waiting for the thread.
NoJoin ==
    /\ php = "join"
    /\ exporter' = "deleted"
    /\ php' = "off"
    /\ UNCHANGED <<enabled, worker, recorder, heap,
                   profile, sample_count, elapsed, chvars>>

Join ==
    /\ php = "join"
    /\ recorder = "done"
    /\ exporter' = "deleted"
    /\ php' = "off"
    /\ UNCHANGED <<enabled, worker, recorder, heap,
                   profile, sample_count, elapsed, chvars>>

-----------------------------------------------------------------------------
(* datadog_php_recorder_plugin_main *)

Start ==
    /\ recorder = "starting"
    /\ \/ recorder' = "while"
       \/ "profile" \in Faults /\ recorder' = "done"
    /\ UNCHANGED <<enabled, php, worker, exporter, heap,
                   profile, sample_count, elapsed, chvars>>

(* while (datadog_php_profiling_recorder_enabled): a new period, or the end. *)
While ==
    /\ recorder = "while"
    /\ recorder' = IF enabled THEN "recv" ELSE "cleanup"
    /\ sample_count' = 0
    /\ elapsed' = FALSE
    /\ UNCHANGED <<enabled, php, worker, exporter, heap, profile, chvars>>

AfterRecv ==
    recorder' = CASE receiver' = "waiting" -> "blocked"
                  [] receiver' = "idle" /\ result' \in Messages -> "add"
                  [] OTHER -> "test"

\* The loop test leaves no zero timeout for recv.
CallRecv ==
    /\ recorder = "recv"
    /\ Ch!Recv(TRUE)
    /\ AfterRecv
    /\ UNCHANGED <<enabled, php, worker, exporter, heap,
                   profile, sample_count, elapsed>>

ResumeRecv ==
    /\ recorder = "blocked"
    /\ Ch!RecvResume
    /\ AfterRecv
    /\ UNCHANGED <<enabled, php, worker, exporter, heap,
                   profile, sample_count, elapsed>>

(* The code only asks whether a count is zero, so the model may stop counting
   where TLC needs a bound: MaxSamples stands for "that many or more". *)
CountOne(n) == IF n < MaxSamples THEN n + 1 ELSE n

\* Bug variant: the message is not freed after it was added.
AddKeeps ==
    /\ recorder = "add"
    /\ profile' = CountOne(profile)
    /\ sample_count' = CountOne(sample_count)
    /\ recorder' = "test"
    /\ UNCHANGED <<enabled, php, worker, exporter, heap, elapsed, chvars>>

(* datadog_php_recorder_add, whose allocations may fail, and the free *)
Add ==
    /\ recorder = "add"
    /\ \/ profile' = CountOne(profile)
       \/ "calloc" \in Faults /\ UNCHANGED profile
    /\ heap' = heap \ {result}
    /\ sample_count' = CountOne(sample_count)
    /\ recorder' = "test"
    /\ UNCHANGED <<enabled, php, worker, exporter, elapsed, chvars>>

\* Bug variant: the time left is not computed again.
TestForever ==
    /\ recorder = "test"
    /\ recorder' = IF enabled THEN "recv" ELSE "report"
    /\ UNCHANGED <<enabled, php, worker, exporter, heap,
                   profile, sample_count, elapsed, chvars>>

Test ==
    /\ recorder = "test"
    /\ recorder' = IF enabled /\ ~elapsed THEN "recv" ELSE "report"
    /\ UNCHANGED <<enabled, php, worker, exporter, heap,
                   profile, sample_count, elapsed, chvars>>

Report ==
    /\ recorder = "report"
    /\ \/ sample_count # 0 /\ recorder' = "export" /\ UNCHANGED profile
       \/ sample_count = 0 /\ recorder' = "while" /\ profile' = 0
    /\ UNCHANGED <<enabled, php, worker, exporter, heap,
                   sample_count, elapsed, chvars>>

\* Bug variant: the profile is not reset after its upload.
ExportKeeps ==
    /\ recorder = "export"
    /\ recorder' = "while"
    /\ UNCHANGED <<enabled, php, worker, exporter, heap,
                   profile, sample_count, elapsed, chvars>>

(* The upload ends, whatever came of it, and the profile is reset. *)
ExportDone ==
    /\ recorder = "export"
    /\ recorder' = "while"
    /\ profile' = 0
    /\ UNCHANGED <<enabled, php, worker, exporter, heap,
                   sample_count, elapsed, chvars>>

Cleanup ==
    /\ recorder = "cleanup"
    /\ Ch!ReceiverDtor
    /\ recorder' = IF receiver' = "destroy" THEN "free" ELSE "done"
    /\ UNCHANGED <<enabled, php, worker, exporter, heap,
                   profile, sample_count, elapsed>>

CleanupFree ==
    /\ recorder = "free"
    /\ Ch!ChannelDtor
    /\ recorder' = "done"
    /\ UNCHANGED <<enabled, php, worker, exporter, heap,
                   profile, sample_count, elapsed>>

-----------------------------------------------------------------------------
(* The clock.  The receive that waits has the rest of the period as its
   timeout, counted from a later instant: its deadline is the later one. *)
PeriodElapses ==
    /\ recorder \in {"recv", "blocked", "add", "test"}
    /\ ~elapsed
    /\ elapsed' = TRUE
    /\ UNCHANGED <<enabled, php, worker, recorder, exporter, heap,
                   profile, sample_count, chvars>>

DeadlinePasses ==
    /\ elapsed
    /\ Ch!DeadlinePasses
    /\ UNCHANGED <<enabled, php, worker, recorder, exporter, heap,
                   profile, sample_count, elapsed>>

WakeUnsignalled ==
    /\ Ch!WakeUnsignalled
    /\ UNCHANGED <<enabled, php, worker, recorder, exporter, heap,
                   profile, sample_count, elapsed>>

TimedOut == expired /\ WakeUnsignalled

-----------------------------------------------------------------------------
FirstActivate ==
    ProfilingDisabled \/ NewChannel \/ NewExporter \/ NewThread
        \/ UndoReceiver \/ UndoSender \/ UndoFree \/ PublishEnabled

ShutdownSteps ==
    Shutdown \/ SendWakeUp \/ CloseSender \/ FreeChannel \/ Join

RecorderMain ==
    Start \/ While \/ CallRecv \/ ResumeRecv \/ Add \/ Test
        \/ Report \/ ExportDone \/ Cleanup \/ CleanupFree

WorkerStep(w) ==
    Record(w) \/ RecordSend(w) \/ Diagnose(w) \/ DiagnoseDone(w)

Clock == PeriodElapses \/ DeadlinePasses \/ WakeUnsignalled

Next ==
    \/ FirstActivate
    \/ ShutdownSteps
    \/ RecorderMain
    \/ \E w \in Workers : WorkerStep(w)
    \/ Clock

Spec == Init /\ [][Next]_vars

(* Threads that can run do; an upload ends (it has a timeout).  Nothing makes
   the requests end, and nothing is assumed of the clock. *)
ThreadsSpec ==
    /\ Spec
    /\ WF_vars(RecorderMain)
    /\ WF_vars(SendWakeUp \/ CloseSender \/ FreeChannel \/ Join)

(* Time passes and timed waits end. *)
ClockRuns ==
    /\ WF_vars(PeriodElapses)
    /\ WF_vars(DeadlinePasses)
    /\ WF_vars(TimedOut)

-----------------------------------------------------------------------------
Queued == {i \in DOMAIN queue : queue[i] # Null}
Owners(m) ==
    {<<"worker", w>> : w \in {v \in Workers : worker[v] = m}}
        \cup {<<"queue", i>> : i \in {j \in DOMAIN queue : queue[j] = m}}
        \cup IF recorder = "add" /\ result = m THEN {<<"recorder", 0>>} ELSE {}

(* An allocated message is with one thread or in one slot of the queue, and a
   freed one is nowhere: neither a double free, nor a use after free, nor a
   message two threads write, although addresses are reused at once. *)
OneOwner == \A m \in Messages :
    Cardinality(Owners(m)) = IF m \in heap THEN 1 ELSE 0

(* The memory for samples stays within the channel's capacity and one message
   for each thread, however long an upload keeps the recorder away. *)
MessagesBounded == Cardinality(heap) <= Capacity + Cardinality(Workers) + 1

(* No upload, the recorder's or phpinfo's, uses a deleted exporter, whatever
   the moment of the shutdown. *)
ExporterOutlivesUploads ==
    recorder = "export" \/ (\E w \in Workers : worker[w] = "diagnose")
        => exporter = "live"

(* Both sides only call the channel through handles they still hold. *)
ChannelThere ==
    /\ recorder \in {"recv", "blocked"} => Ch!ReceiverOpen
    /\ (\E w \in Workers : worker[w] \in Messages) => Ch!OpenSenders # {}
    /\ Ch!NoUseAfterFree

(* The profile holds samples of the current period only: none is uploaded in
   two profiles. *)
NoSampleTwice == profile <= sample_count

(* A receive that comes back empty-handed does so because the period is over
   or the plugin was disabled: the recorder never spins on an empty queue. *)
NoSpinning ==
    [][(/\ recorder \in {"recv", "blocked"}
        /\ recorder' = "test"
        /\ result' = NoItem) => (elapsed \/ ~enabled)]_vars

(* Module shutdown ends although the clock stands still: the wake-up or what
   already filled the queue gets the recorder out of its wait. *)
ShutdownEnds == (php = "wake up") ~> (php = "off")

(* With a running clock, what a period collected is uploaded, in finite time, even when samples keep
   arriving so that a receive never has to wait. *)
SamplesUploaded ==
    ClockRuns => ((recorder = "test" /\ sample_count > 0) ~> (recorder = "export"))

(* The recorder handles samples as the abstract pipeline does. *)
Pipeline == INSTANCE SamplePipeline WITH
    Bound <- Capacity + 1,
    Limit <- MaxSamples,
    accepting <- enabled,
    pending <- Cardinality(Queued) + IF recorder = "add" THEN 1 ELSE 0
ImplementsPipeline == Pipeline!Spec

-----------------------------------------------------------------------------
(* What the documentation says and the code does not always keep. *)

(* recorder_plugin.h:15-18: while samples are accepted there is a thread to
   aggregate them and to export profiles. *)
EnabledMeansOnline == enabled => recorder # "done"

(* channel.h:74: sender and receiver are destructed, so that at the end of the
   process's life the channel is gone. *)
ChannelReleased == php = "off" => impl # "live"

(* channel.h:56: the user of the channel cleans up its contents. *)
MessagesFreed == php = "off" => heap = {}
=============================================================================
