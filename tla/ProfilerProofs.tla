--------------------------- MODULE ProfilerProofs ---------------------------
(* Proofs about Profiler, for all messages, levels and numbers of retries and *)
(* any number of lives: no thread is in the logger when it is closed, the     *)
(* exporter is deleted once, and ProfilerLife is what the code does.          *)
EXTENDS Profiler, TLAPS

Started == {"starting", "online", "exited"}
InLife == {"collector", "activate", "request", "join timer"}
Ending == {"join recorder", "exporter", "log"}

(* The statics that outlive a reload tell the truth wherever they are read:
   have_thread while a timer thread is to be joined, recorder_enabled while a
   recorder thread is. *)
StaticsTell ==
    /\ have_thread <=> timer # "none"
    /\ have_thread => collector_enabled /\ php \in {"request", "join timer"}
    /\ recorder_enabled =>
         /\ exporter = "live"
         /\ php \in InLife \/ (php = "up" /\ first_activate = "run")
    /\ recorder \in Started => recorder_enabled \/ php \in {"flag", "join recorder"}
    /\ recorder = "joined" => php \in {"exporter", "log"}
    /\ php \in {"flag", "join recorder", "exporter"} => exporter = "live"
    /\ exporter # "freed twice"

(* The decision belongs to this life: it is taken when the once has run. *)
DecisionTold ==
    /\ php \in PhpStates
    /\ recorder \in Started \cup {"none", "joined"}
    /\ timer \in {"none", "online", "exited"}
    /\ setting \in {"default", "on", "off"}
    /\ runtime_id \in {"nil", "v4"}
    /\ php = "settings" => setting = "default"
    /\ php = "up" =>
         \/ first_activate = "due" /\ setting = "default"
         \/ first_activate = "run" /\ setting # "default"
    /\ php \in InLife \cup {"recorder", "flag"} => setting # "default"
    /\ php \in {"activate", "request", "join timer"} => first_activate = "run"
    /\ php \in {"up", "activate", "request", "join timer"}
          /\ first_activate = "run" /\ collector_enabled => setting = "on"

(* A thread is inside the logger only while it lives. *)
LoggerHeld ==
    /\ logs \in [Threads -> Places]
    /\ logger = "made" => logger_mutex = "ready" /\ descriptor = "open"
    /\ logs[RECORDER] # "out" => recorder \in {"starting", "online"}
    /\ logs[TIMER] # "out" => timer = "online"

LifeInv == StaticsTell /\ DecisionTold /\ LoggerHeld /\ LoggerThere

-----------------------------------------------------------------------------
LEMMA InitInv == Init => LifeInv
BY ThreadsAssumption
DEF Init, LogInit, LifeInv, StaticsTell, DecisionTold, LoggerHeld, LoggerThere,
    PhpStates, InLife, Started, PHP, TIMER, RECORDER, Places

(* Logging moves one thread that lives, and leaves the logger as it is. *)
LEMMA LoggingInv ==
    ASSUME LifeInv, NEW t \in Threads, Logging(t)
    PROVE  LifeInv'
<1>1. UNCHANGED <<php, first_activate, identity, statics, recorder, timer, logResources>>
  BY DEF Logging, LogStep, Log, LogLock, Enter, Write, GiveUp, NextPart, AllParts,
         Newline, LogUnlock
<1>2. PICK to \in Places : logs' = logs \/ logs' = [logs EXCEPT ![t] = to]
  BY DEF Logging, LogStep, Log, LogLock, Enter, Write, GiveUp, NextPart, AllParts,
         Newline, LogUnlock, GoesTo, Places
<1>3. logs[t] # "out" \/ (MayLog(t) /\ logger = "made")
  BY DEF Logging, LogStep, Log, LogLock, Enter, Write, GiveUp, NextPart, AllParts,
         Newline, LogUnlock, GoesTo
<1>4. logs' \in [Threads -> Places] /\ \A u \in Threads : u # t => logs'[u] = logs[u]
  BY <1>2 DEF LifeInv, LoggerHeld
<1>5. StaticsTell' /\ DecisionTold'
  BY <1>1 DEF LifeInv, StaticsTell, DecisionTold, identity, statics
<1>6. LoggerHeld'
  BY <1>1, <1>3, <1>4, ThreadsAssumption
  DEF LifeInv, LoggerHeld, MayLog, PHP, TIMER, RECORDER, logResources
<1>7. LoggerThere'
  BY <1>1, <1>3, <1>4 DEF LifeInv, LoggerHeld, LoggerThere, logResources
<1> QED
  BY <1>5, <1>6, <1>7 DEF LifeInv

(* Every other step but two leaves the logger alone. *)
LEMMA LoggerKept ==
    ASSUME LifeInv, UNCHANGED <<logResources, logs>>,
           recorder \in {"starting", "online"} /\ logs[RECORDER] # "out"
               => recorder' \in {"starting", "online"},
           timer = "online" /\ logs[TIMER] # "out" => timer' = "online"
    PROVE  LoggerHeld' /\ LoggerThere'
BY DEF LifeInv, LoggerHeld, LoggerThere, logResources

LEMMA PhpInv ==
    ASSUME LifeInv,
           \/ Startup \/ Activate \/ RecorderOff \/ RecorderStarts \/ RecorderFlag
           \/ CollectorFirst \/ CollectorActivate \/ Deactivate \/ JoinTimer
           \/ Shutdown \/ JoinRecorder \/ DeleteExporter
    PROVE  LifeInv'
<1> USE DEF LifeInv, StaticsTell, DecisionTold, PhpGoes, PhpStates, InLife, Started,
            identity, statics, logVars
<1>1. CASE Startup
  BY <1>1, LoggerKept DEF Startup
<1>2. CASE Activate
  BY <1>2, LoggerKept DEF Activate
<1>3. CASE RecorderOff
  BY <1>3, LoggerKept DEF RecorderOff, Delete
<1>4. CASE RecorderStarts
  BY <1>4, LoggerKept DEF RecorderStarts
<1>5. CASE RecorderFlag
  BY <1>5, LoggerKept DEF RecorderFlag
<1>6. CASE CollectorFirst
  BY <1>6, LoggerKept DEF CollectorFirst
<1>7. CASE CollectorActivate
  <2>1. timer = "none" /\ setting # "default" /\ first_activate = "run"
    BY <1>7 DEF CollectorActivate
  <2>2. LoggerHeld' /\ LoggerThere'
    BY <1>7, <2>1, LoggerKept DEF CollectorActivate
  <2>3. CASE timer' = "online" /\ have_thread' = TRUE /\ collector_enabled
    BY <1>7, <2>1, <2>2, <2>3 DEF CollectorActivate
  <2>4. CASE UNCHANGED <<timer, have_thread>>
    BY <1>7, <2>1, <2>2, <2>4 DEF CollectorActivate
  <2> QED
    BY <1>7, <2>3, <2>4 DEF CollectorActivate
<1>8. CASE Deactivate
  BY <1>8, LoggerKept DEF Deactivate
<1>9. CASE JoinTimer
  BY <1>9, LoggerKept DEF JoinTimer
<1>10. CASE Shutdown
  BY <1>10, LoggerKept DEF Shutdown
<1>11. CASE JoinRecorder
  BY <1>11, LoggerKept DEF JoinRecorder
<1>12. CASE DeleteExporter
  BY <1>12, LoggerKept DEF DeleteExporter, Delete
<1> QED
  BY <1>1, <1>2, <1>3, <1>4, <1>5, <1>6, <1>7, <1>8, <1>9, <1>10, <1>11, <1>12

(* The threads come and go by themselves, out of the logger when they end. *)
LEMMA ThreadInv ==
    ASSUME LifeInv, RecorderOnline \/ RecorderExits \/ TimerExits
    PROVE  LifeInv'
<1> USE DEF LifeInv, StaticsTell, DecisionTold, InLife, Started, identity, statics, logVars
<1>1. CASE RecorderOnline
  BY <1>1, LoggerKept DEF RecorderOnline
<1>2. CASE RecorderExits
  BY <1>2, LoggerKept DEF RecorderExits
<1>3. CASE TimerExits
  BY <1>3, LoggerKept DEF TimerExits
<1> QED
  BY <1>1, <1>2, <1>3

(* The two steps that change the logger: it is made while nobody logs, or
   replaced by a sound one; it is closed when no other thread lives. *)
LEMMA LoggerInv ==
    ASSUME LifeInv, ReadSettings \/ CloseLog
    PROVE  LifeInv'
<1>1. CASE ReadSettings
  <2>1. StaticsTell' /\ DecisionTold'
    BY <1>1 DEF LifeInv, StaticsTell, DecisionTold, ReadSettings, PhpGoes, PhpStates,
                InLife, Started, statics
  <2>2. logs' = logs /\ recorder' = recorder /\ timer' = timer
    BY <1>1 DEF ReadSettings
  <2>3. logResources' = logResources
        \/ (logger' = "made" /\ logger_mutex' = "ready" /\ descriptor' = "open")
    BY <1>1 DEF ReadSettings, PluginInit
  <2>4. LoggerHeld' /\ LoggerThere'
    BY <2>2, <2>3 DEF LifeInv, LoggerHeld, LoggerThere, logResources
  <2> QED
    BY <2>1, <2>4 DEF LifeInv
<1>2. CASE CloseLog
  <2>1. php = "log" /\ logs[PHP] = "out"
    BY <1>2 DEF CloseLog, PhpGoes
  <2>2. timer = "none" /\ recorder \notin {"starting", "online", "exited"}
    BY <2>1 DEF LifeInv, StaticsTell, DecisionTold, Started, InLife
  <2>3. \A t \in Threads : logs[t] = "out"
    BY <2>1, <2>2, ThreadsAssumption DEF LifeInv, LoggerHeld
  <2>4. StaticsTell' /\ DecisionTold'
    BY <1>2, <2>1, <2>2
    DEF LifeInv, StaticsTell, DecisionTold, CloseLog, PhpGoes, PhpStates, InLife, Started,
        identity, statics
  <2>5. LoggerHeld' /\ LoggerThere'
    BY <1>2, <2>3, ThreadsAssumption
    DEF LifeInv, LoggerHeld, LoggerThere, CloseLog, PluginShutdown
  <2> QED
    BY <2>4, <2>5 DEF LifeInv
<1> QED
  BY <1>1, <1>2

LEMMA StepInv == LifeInv /\ [Next]_vars => LifeInv'
<1> SUFFICES ASSUME LifeInv, [Next]_vars PROVE LifeInv'
  OBVIOUS
<1>1. CASE UNCHANGED vars
  BY <1>1 DEF vars, identity, statics, logVars, logResources, LifeInv, StaticsTell,
              DecisionTold, LoggerHeld, LoggerThere
<1>2. CASE Next
  BY <1>2, LoggingInv, PhpInv, ThreadInv, LoggerInv DEF Next, FirstActivate
<1> QED
  BY <1>1, <1>2

THEOREM Invariant == Spec => []LifeInv
BY InitInv, StepInv, PTL DEF Spec

(* log.h:49-52 and the reload of datadog-profiling.c:42-46: no thread is in the
   logger, or on its way to its mutex, when shutdown closes it, and the
   exporter is deleted once in a life. *)
THEOREM NothingIsUsedAfterItsEnd == Spec => []NothingUsedAfterItsEnd
<1>1. LifeInv => NothingUsedAfterItsEnd
  BY DEF LifeInv, StaticsTell, NothingUsedAfterItsEnd
<1> QED
  BY <1>1, Invariant, PTL

-----------------------------------------------------------------------------
LEMMA InitLife == Init => Life!Init
BY DEF Init, Life!Init, PhaseBar, DecisionBar, RecorderBar

LEMMA StepLife == LifeInv /\ [Next]_vars => [Life!Next]_Life!vars
<1> SUFFICES ASSUME LifeInv, [Next]_vars PROVE Life!Next \/ UNCHANGED Life!vars
  OBVIOUS
<1> USE DEF PhaseBar, DecisionBar, RecorderBar, PhpGoes, identity, statics
<1>1. CASE Startup
  <2>1. Life!Start
    BY <1>1 DEF Startup, Life!Start
  <2> QED
    BY <2>1 DEF Life!Next
<1>2. CASE Activate
  <2>1. CASE php = "up" /\ php' = "settings"
    BY <1>2, <2>1 DEF Activate, Life!vars
  <2>2. CASE php = "up" /\ php' = "activate"
    <3>1. Life!RequestBegins
      BY <1>2, <2>2 DEF Activate, Life!RequestBegins, LifeInv, DecisionTold
    <3> QED
      BY <3>1 DEF Life!Next
  <2> QED
    BY <1>2, <2>1, <2>2 DEF Activate
<1>3. CASE ReadSettings
  <2>1. setting = "default"
        /\ runtime_id \in {"nil", "v4"}
    BY <1>3 DEF ReadSettings, LifeInv, DecisionTold
  <2>2. Life!Decide
    BY <1>3, <2>1 DEF ReadSettings, Life!Decide
  <2> QED
    BY <2>2 DEF Life!Next
<1>4. CASE RecorderOff \/ RecorderFlag
  BY <1>4 DEF RecorderOff, RecorderFlag, Life!vars
<1>5. CASE RecorderStarts
  <2>1. recorder = "none"
    BY <1>5 DEF RecorderStarts, LifeInv, StaticsTell, DecisionTold, InLife, Started
  <2>2. Life!RecorderBegins
    BY <1>5, <2>1 DEF RecorderStarts, Life!RecorderBegins
  <2> QED
    BY <2>2 DEF Life!Next
<1>6. CASE CollectorFirst
  <2>1. Life!RequestBegins
    BY <1>6 DEF CollectorFirst, Life!RequestBegins, LifeInv, DecisionTold, InLife
  <2> QED
    BY <2>1 DEF Life!Next
<1>7. CASE CollectorActivate
  <2>1. timer = "none" /\ (collector_enabled => setting = "on")
    BY <1>7 DEF CollectorActivate, LifeInv, StaticsTell, DecisionTold
  <2>2. CASE timer' = "online" /\ collector_enabled
    <3>1. Life!TimerBegins
      BY <1>7, <2>1, <2>2 DEF CollectorActivate, Life!TimerBegins
    <3> QED
      BY <3>1 DEF Life!Next
  <2>3. CASE UNCHANGED timer
    BY <1>7, <2>3 DEF CollectorActivate, Life!vars
  <2> QED
    BY <1>7, <2>2, <2>3 DEF CollectorActivate
<1>8. CASE Deactivate
  <2>1. CASE php = "request" /\ php' = "join timer"
    BY <1>8, <2>1 DEF Deactivate, Life!vars
  <2>2. CASE php = "request" /\ php' = "up" /\ ~(collector_enabled /\ have_thread)
    <3>1. timer = "none"
      BY <2>2 DEF LifeInv, StaticsTell
    <3>2. Life!RequestEnds
      BY <1>8, <2>2, <3>1 DEF Deactivate, Life!RequestEnds
    <3> QED
      BY <3>2 DEF Life!Next
  <2> QED
    BY <1>8, <2>1, <2>2 DEF Deactivate
<1>9. CASE JoinTimer
  <2>1. Life!RequestEnds
    BY <1>9 DEF JoinTimer, Life!RequestEnds
  <2> QED
    BY <2>1 DEF Life!Next
<1>10. CASE Shutdown
  <2>1. Life!End
    BY <1>10 DEF Shutdown, Life!End
  <2> QED
    BY <2>1 DEF Life!Next
<1>11. CASE JoinRecorder \/ DeleteExporter \/ RecorderOnline
  BY <1>11 DEF JoinRecorder, DeleteExporter, RecorderOnline, Life!vars
<1>12. CASE CloseLog
  <2>1. recorder \notin Started
    BY <1>12 DEF CloseLog, LifeInv, StaticsTell, InLife
  <2>2. Life!Stop
    BY <1>12, <2>1 DEF CloseLog, Life!Stop, Started
  <2> QED
    BY <2>2 DEF Life!Next
<1>13. CASE RecorderExits
  <2>1. Life!RecorderEnds
    BY <1>13 DEF RecorderExits, Life!RecorderEnds
  <2> QED
    BY <2>1 DEF Life!Next
<1>14. CASE TimerExits
  <2>1. Life!TimerEnds
    BY <1>14 DEF TimerExits, Life!TimerEnds
  <2> QED
    BY <2>1 DEF Life!Next
<1>15. CASE \E t \in Threads : Logging(t)
  BY <1>15 DEF Logging, Life!vars
<1>16. CASE UNCHANGED vars
  BY <1>16 DEF vars, Life!vars
<1> QED
  BY <1>1, <1>2, <1>3, <1>4, <1>5, <1>6, <1>7, <1>8, <1>9, <1>10, <1>11, <1>12, <1>13,
     <1>14, <1>15, <1>16
  DEF Next, FirstActivate

(* Over any number of reloads the profiler keeps ProfilerLife: one decision a
   life, the recorder's thread inside it and the timer's inside a request,
   although the statics of the last life are still there. *)
THEOREM ProfilerImplementsLife == Spec => ImplementsLife
BY InitLife, StepLife, Invariant, PTL DEF Spec, Life!Spec, ImplementsLife

-----------------------------------------------------------------------------
(* The mutex keeps the threads apart between their lock and their unlock, and
   a thread outside has no message under way. *)
Inside == {t \in Threads : logs[t] \notin {"out", "lock"}}
HolderTold ==
    /\ holder = Inside
    /\ \A t, u \in Inside : t = u
    /\ \A t \in Threads \ Inside : message[t] = Nothing

AByte == [of : Threads, part : Nat, byte : Nat]

LinesInv ==
    /\ LogTypeOK
    /\ sent \in Seq(AByte)
    /\ HolderTold
    /\ LinesIntact

LEMMA LocalTypes ==
    ASSUME LogTypeOK, NEW t \in Threads
    PROVE  /\ message[t] \in Seq(Nat) /\ Len(message[t]) \in Nat
           /\ DOMAIN message[t] = 1..Len(message[t])
           /\ part[t] \in Nat /\ part[t] >= 1 /\ part[t] <= Len(message[t]) + 1
           /\ written[t] \in Nat /\ tries[t] \in Nat
           /\ \A q \in 1..Len(message[t]) : message[t][q] \in Nat
           /\ part[t] <= Len(message[t]) => written[t] <= message[t][part[t]]
           /\ part[t] > Len(message[t]) => written[t] = 0
           /\ \A q \in 1..part[t] : WrittenOf(t, q) \in Nat
<1>1. message[t] \in Seq(Nat)
  <2>1. <<>> \in Seq(Nat)
    OBVIOUS
  <2> QED
    BY <2>1, MessagesAssumption DEF LogTypeOK, Nothing
<1>2. /\ Len(message[t]) \in Nat /\ DOMAIN message[t] = 1..Len(message[t])
      /\ \A q \in 1..Len(message[t]) : message[t][q] \in Nat
  BY <1>1
<1>3. /\ part[t] \in Nat /\ part[t] >= 1 /\ part[t] <= Len(message[t]) + 1
      /\ written[t] \in Nat /\ tries[t] \in Nat
  BY <1>2, MaxTriesAssumption DEF LogTypeOK
<1>4. written[t] \in 0..(IF part[t] \in DOMAIN message[t] THEN message[t][part[t]] ELSE 0)
  BY DEF LogTypeOK
<1>5. part[t] <= Len(message[t]) => written[t] <= message[t][part[t]]
  BY <1>2, <1>3, <1>4
<1>6. part[t] > Len(message[t]) => written[t] = 0
  BY <1>2, <1>3, <1>4
<1>7. \A q \in 1..part[t] : WrittenOf(t, q) \in Nat
  BY <1>2, <1>3 DEF WrittenOf
<1> QED
  BY <1>1, <1>2, <1>3, <1>5, <1>6, <1>7

(* A thread that is inside the mutex is there alone. *)
LEMMA Alone ==
    ASSUME LinesInv, NEW t \in Threads, logs[t] \notin {"out", "lock"}
    PROVE  \A u \in Threads : u # t => logs[u] \in {"out", "lock"}
BY DEF LinesInv, HolderTold, Inside

(* What is written does not change, nor does anyone begin to write. *)
LEMMA LinesKept ==
    ASSUME LinesInv, UNCHANGED <<message, part, written, sent>>,
           \A u \in Threads : logs'[u] \in {"write", "newline"}
                                 => logs[u] \in {"write", "newline"}
    PROVE  LinesIntact'
<1>1. \A u : Written(u)' = Written(u)
  BY DEF Written, WrittenOf
<1>2. \A x, y : Precedes(x, y)' = Precedes(x, y)
  BY DEF Precedes
<1> QED
  BY <1>1 DEF LinesInv, LinesIntact, Precedes

(* A step of the one that is inside, on its way to another place of logv. *)
LEMMA GoesOn ==
    ASSUME LinesInv, NEW t \in Threads, NEW to \in Places \ {"out", "lock"},
           logs[t] \notin {"out", "lock"},
           logs' = [logs EXCEPT ![t] = to], holder' = holder, message' = message
    PROVE  /\ logs' \in [Threads -> Places] /\ HolderTold'
           /\ logs'[t] = to /\ \A u \in Threads : u # t => logs'[u] = logs[u]
<1>1. /\ logs' \in [Threads -> Places] /\ logs'[t] = to
      /\ \A u \in Threads : u # t => logs'[u] = logs[u]
  BY DEF LinesInv, LogTypeOK
<1>2. Inside' = Inside
  BY <1>1 DEF Inside
<1> QED
  BY <1>1, <1>2 DEF LinesInv, HolderTold

(* A message begins: nothing of it is written, and of nobody else's. *)
LEMMA LogLockInv == ASSUME LinesInv, NEW t \in Threads, LogLock(t) PROVE LinesInv'
<1> USE DEF LinesInv
<1>1. /\ holder = {} /\ holder' = {t} /\ sent' = <<>>
      /\ UNCHANGED <<hooked, logger, log_level, descriptor, logger_mutex, part, written, tries>>
  BY DEF LogLock, Enter, logResources
<1>2. PICK to \in {"write", "unlock"} :
        /\ logs[t] = "lock" /\ logs' = [logs EXCEPT ![t] = to]
        /\ \/ \E m \in Messages : message' = [message EXCEPT ![t] = m]
           \/ message' = message /\ to = "unlock"
  BY DEF LogLock, Enter, GoesTo
<1>3. \A u \in Threads : logs[u] \in {"out", "lock"} /\ message[u] = Nothing
  BY <1>1 DEF HolderTold, Inside
<1>4. /\ logs' \in [Threads -> Places] /\ logs'[t] = to
      /\ \A u \in Threads : u # t => logs'[u] = logs[u]
  BY <1>2 DEF LogTypeOK, Places
<1>5. /\ message' \in [Threads -> Messages \cup {Nothing}]
      /\ \A u \in Threads : u # t => message'[u] = message[u]
  BY <1>2 DEF LogTypeOK
<1>6. part[t] = 1 /\ written[t] = 0
  <2>1. Len(message[t]) = 0
    BY <1>3 DEF Nothing
  <2> QED
    BY <2>1, LocalTypes
<1>7. LogTypeOK'
  <2>1. message'[t] \in Seq(Nat) /\ Len(message'[t]) \in Nat
    <3>1. <<>> \in Seq(Nat)
      OBVIOUS
    <3>2. message'[t] \in Seq(Nat)
      BY <1>5, <3>1, MessagesAssumption DEF Nothing
    <3> QED
      BY <3>2
  <2>2. \A n \in Nat : 1 \in DOMAIN message'[t] => message'[t][1] \in Nat
    BY <2>1
  <2>3. /\ 1 \in 1..(Len(message'[t]) + 1)
        /\ 0 \in 0..(IF 1 \in DOMAIN message'[t] THEN message'[t][1] ELSE 0)
    BY <2>1, <2>2
  <2>4. ASSUME NEW u \in Threads
        PROVE  /\ part[u] \in 1..(Len(message'[u]) + 1)
               /\ written[u] \in 0..(IF part[u] \in DOMAIN message'[u]
                                     THEN message'[u][part[u]] ELSE 0)
    <3>1. CASE u = t
      BY <1>6, <2>3, <3>1
    <3>2. CASE u # t
      BY <1>5, <3>2 DEF LogTypeOK
    <3> QED
      BY <3>1, <3>2
  <2> QED
    BY <1>1, <1>4, <1>5, <2>4 DEF LogTypeOK
<1>8. HolderTold'
  <2>1. Inside' = {t}
    BY <1>2, <1>3, <1>4 DEF Inside
  <2>2. \A u \in Threads : u # t => message'[u] = Nothing
    BY <1>3, <1>5
  <2> QED
    BY <1>1, <2>1, <2>2 DEF HolderTold
<1>9. LinesIntact'
  <2>1. Written(t)' = {}
    <3>1. \A q \in 1..part[t] : WrittenOf(t, q)' = 0
      BY <1>1, <1>6 DEF WrittenOf
    <3> QED
      BY <1>1, <1>6, <3>1 DEF Written
  <2>2. \A u \in Threads : logs'[u] \in {"write", "newline"} => u = t
    BY <1>3, <1>4
  <2>3. DOMAIN sent' = {}
    BY <1>1
  <2>4. {sent'[j] : j \in DOMAIN sent'} = Written(t)'
    BY <2>1, <2>3
  <2>5. \A u : u = t => Written(u)' = Written(t)'
    BY DEF Written, WrittenOf
  <2> QED
    BY <2>2, <2>3, <2>4, <2>5 DEF LinesIntact
<1> QED
  BY <1>1, <1>7, <1>8, <1>9

(* Where the elements of a concatenation are. *)
LEMMA Concatenated ==
    ASSUME NEW s \in Seq(AByte), NEW r \in Seq(AByte)
    PROVE  /\ s \o r \in Seq(AByte)
           /\ Len(s) \in Nat /\ Len(r) \in Nat
           /\ DOMAIN s = 1..Len(s) /\ DOMAIN r = 1..Len(r)
           /\ DOMAIN (s \o r) = 1..(Len(s) + Len(r))
           /\ \A j \in 1..Len(s) : (s \o r)[j] = s[j]
           /\ \A k \in 1..Len(r) : (s \o r)[Len(s) + k] = r[k]
           /\ \A j \in 1..(Len(s) + Len(r)) :
                 j \in 1..Len(s) \/ \E k \in 1..Len(r) : j = Len(s) + k
<1>1. Len(s) \in Nat /\ Len(r) \in Nat /\ s \o r \in Seq(AByte) /\ Len(s \o r) = Len(s) + Len(r)
  OBVIOUS
<1>2. /\ \A j \in 1..Len(s) : (s \o r)[j] = s[j]
      /\ \A k \in 1..Len(r) : (s \o r)[Len(s) + k] = r[k]
  BY <1>1
<1>3. ASSUME NEW j \in 1..(Len(s) + Len(r)), j \notin 1..Len(s)
      PROVE  \E k \in 1..Len(r) : j = Len(s) + k
  <2>1. j - Len(s) \in 1..Len(r) /\ j = Len(s) + (j - Len(s))
    BY <1>1, <1>3
  <2> QED
    BY <2>1
<1> QED
  BY <1>1, <1>2, <1>3

BytesOf(t, p, done) == UNION {{Byte(t, q, b) : b \in 1..done[q]} : q \in 1..p}
InOrder(s) == \A j, k \in DOMAIN s : j < k => Precedes(s[j], s[k])
BytesIn(s) == {s[j] : j \in DOMAIN s}

LEMMA BytesOfMember ==
    ASSUME NEW t, NEW p, NEW done, NEW x
    PROVE  x \in BytesOf(t, p, done) <=>
              \E q \in 1..p : \E b \in 1..done[q] : x = Byte(t, q, b)
BY DEF BytesOf

LEMMA ByteOrder ==
    ASSUME NEW t, NEW p, NEW q, NEW a, NEW b
    PROVE  Precedes(Byte(t, p, a), Byte(t, q, b)) <=> p < q \/ (p = q /\ a < b)
BY DEF Precedes, Byte

(* After the bytes of parts 1 to p that were written come n more of part p. *)
Continues(t, p, done, w, n, more, s, s2) ==
    /\ p \in Nat /\ p >= 1 /\ n \in Nat /\ n >= 1
    /\ done \in [1..p -> Nat] /\ w = done[p]
    /\ more \in [1..p -> Nat] /\ more[p] = w + n
    /\ \A q \in 1..p : q # p => more[q] = done[q]
    /\ s \in Seq(AByte) /\ InOrder(s) /\ BytesIn(s) = BytesOf(t, p, done)
    /\ s2 = s \o Bytes(t, p, w, n)

LEMMA MoreBytes ==
    ASSUME NEW t \in Threads, NEW p, NEW done, NEW w, NEW n, NEW more, NEW s, NEW s2,
           Continues(t, p, done, w, n, more, s, s2)
    PROVE  /\ s2 \in Seq(AByte) /\ InOrder(s2)
           /\ BytesIn(s2) = BytesOf(t, p, more)
<1>0. /\ p \in Nat /\ p >= 1 /\ n \in Nat /\ n >= 1
      /\ done \in [1..p -> Nat] /\ w = done[p]
      /\ more \in [1..p -> Nat] /\ more[p] = w + n
      /\ \A q \in 1..p : q # p => more[q] = done[q]
      /\ s \in Seq(AByte) /\ InOrder(s) /\ BytesIn(s) = BytesOf(t, p, done)
      /\ s2 = s \o Bytes(t, p, w, n)
  BY DEF Continues
<1>1. /\ w \in Nat /\ w + n \in Nat /\ p \in 1..p
      /\ \A q \in 1..p : /\ q \in Nat /\ q <= p /\ q >= 1
                         /\ done[q] \in Nat /\ done[q] <= more[q] /\ more[q] \in Nat
                         /\ q # p => more[q] = done[q]
      /\ more[p] = w + n
  BY <1>0
<1>2. PICK r : r = Bytes(t, p, w, n)
  OBVIOUS
<1>3. /\ r \in Seq(AByte) /\ Len(r) = n
      /\ \A k \in 1..n : r[k] = Byte(t, p, w + k)
  <2>1. \A k \in 1..n : Byte(t, p, w + k) \in AByte
    BY <1>0, <1>1 DEF Byte, AByte
  <2>2. r = [k \in 1..n |-> Byte(t, p, w + k)]
    BY <1>2 DEF Bytes
  <2>3. r \in [1..n -> AByte]
    BY <2>1, <2>2
  <2>4. r \in Seq(AByte) /\ Len(r) = n
    BY <1>0, <2>3
  <2> QED
    BY <2>2, <2>4
<1>4. /\ s2 \in Seq(AByte) /\ Len(s) \in Nat /\ DOMAIN s = 1..Len(s)
      /\ DOMAIN s2 = 1..(Len(s) + n)
      /\ \A j \in 1..Len(s) : s2[j] = s[j]
      /\ \A k \in 1..n : s2[Len(s) + k] = Byte(t, p, w + k)
      /\ \A j \in 1..(Len(s) + n) :
            j \in 1..Len(s) \/ \E k \in 1..n : j = Len(s) + k
  <2>1. s2 = s \o r
    BY <1>0, <1>2
  <2>2. /\ s \o r \in Seq(AByte) /\ Len(s) \in Nat /\ DOMAIN s = 1..Len(s)
        /\ DOMAIN (s \o r) = 1..(Len(s) + Len(r))
        /\ \A j \in 1..Len(s) : (s \o r)[j] = s[j]
        /\ \A k \in 1..Len(r) : (s \o r)[Len(s) + k] = r[k]
        /\ \A j \in 1..(Len(s) + Len(r)) :
              j \in 1..Len(s) \/ \E k \in 1..Len(r) : j = Len(s) + k
    BY <1>0, <1>3, Concatenated
  <2> QED
    BY <1>3, <2>1, <2>2
<1>5. ASSUME NEW j \in 1..Len(s)
      PROVE  \E q \in 1..p : \E b \in 1..done[q] : s[j] = Byte(t, q, b)
  <2>1. s[j] \in BytesOf(t, p, done)
    BY <1>0, <1>4 DEF BytesIn
  <2> QED
    BY <2>1, BytesOfMember
<1>6. ASSUME NEW q \in 1..p, NEW b \in 1..done[q]
      PROVE  \E j \in 1..Len(s) : s[j] = Byte(t, q, b)
  <2>1. Byte(t, q, b) \in BytesOf(t, p, done)
    BY BytesOfMember
  <2> QED
    BY <1>0, <1>4, <2>1 DEF BytesIn
<1>7. ASSUME NEW j \in DOMAIN s2, NEW k \in DOMAIN s2, j < k
      PROVE  Precedes(s2[j], s2[k])
  <2>0. j \in Nat /\ k \in Nat /\ j >= 1
    BY <1>4
  <2>1. CASE k \in 1..Len(s)
    <3>1. j \in 1..Len(s)
      BY <1>4, <1>7, <2>0, <2>1
    <3> QED
      BY <1>0, <1>4, <1>7, <2>1, <3>1 DEF InOrder
  <2>2. CASE j \in 1..Len(s) /\ \E m \in 1..n : k = Len(s) + m
    <3>1. PICK m \in 1..n : k = Len(s) + m
      BY <2>2
    <3>2. PICK q \in 1..p : \E b \in 1..done[q] : s[j] = Byte(t, q, b)
      BY <1>5, <2>2
    <3>3. PICK b \in 1..done[q] : s[j] = Byte(t, q, b)
      BY <3>2
    <3>4. s2[j] = Byte(t, q, b) /\ s2[k] = Byte(t, p, w + m)
      BY <1>4, <2>2, <3>1, <3>3
    <3>5. q < p \/ (q = p /\ b < w + m)
      BY <1>0, <1>1, <3>1, <3>2, <3>3
    <3> QED
      BY <3>4, <3>5, ByteOrder
  <2>3. CASE k \notin 1..Len(s) /\ j \notin 1..Len(s)
    <3>1. PICK l \in 1..n : j = Len(s) + l
      BY <1>4, <2>3
    <3>2. PICK m \in 1..n : k = Len(s) + m
      BY <1>4, <2>3
    <3>3. s2[j] = Byte(t, p, w + l) /\ s2[k] = Byte(t, p, w + m)
      BY <1>4, <3>1, <3>2
    <3>4. w + l < w + m
      BY <1>0, <1>1, <1>4, <1>7, <3>1, <3>2
    <3> QED
      BY <3>3, <3>4, ByteOrder
  <2> QED
    BY <1>4, <2>1, <2>2, <2>3
<1>8. ASSUME NEW j \in DOMAIN s2
      PROVE  \E q \in 1..p : \E b \in 1..more[q] : s2[j] = Byte(t, q, b)
  <2>1. CASE j \in 1..Len(s)
    <3>1. PICK q \in 1..p : \E b \in 1..done[q] : s[j] = Byte(t, q, b)
      BY <1>5, <2>1
    <3>2. PICK b \in 1..done[q] : s[j] = Byte(t, q, b)
      BY <3>1
    <3>3. b \in 1..more[q]
      BY <1>0, <1>1
    <3> QED
      BY <1>4, <2>1, <3>2, <3>3
  <2>2. CASE j \notin 1..Len(s)
    <3>1. PICK k \in 1..n : j = Len(s) + k
      BY <1>4, <2>2
    <3>2. w + k \in 1..more[p]
      BY <1>0, <1>1
    <3> QED
      BY <1>0, <1>1, <1>4, <3>1, <3>2
  <2> QED
    BY <2>1, <2>2
<1>9. ASSUME NEW q \in 1..p, NEW b \in 1..more[q]
      PROVE  \E j \in DOMAIN s2 : s2[j] = Byte(t, q, b)
  <2>1. CASE b \in 1..done[q]
    <3>1. PICK j \in 1..Len(s) : s[j] = Byte(t, q, b)
      BY <1>6, <2>1
    <3>2. j \in DOMAIN s2 /\ s2[j] = s[j]
      BY <1>0, <1>4
    <3> QED
      BY <3>1, <3>2
  <2>2. CASE b \notin 1..done[q]
    <3>1. q = p /\ b - w \in 1..n /\ w + (b - w) = b
      BY <1>0, <1>1, <2>2
    <3>2. PICK k \in 1..n : w + k = b
      BY <3>1
    <3>3. Len(s) + k \in DOMAIN s2
      BY <1>0, <1>4
    <3> QED
      BY <1>4, <3>1, <3>2, <3>3
  <2> QED
    BY <2>1, <2>2
<1>10. {s2[j] : j \in DOMAIN s2} = BytesOf(t, p, more)
  <2>1. ASSUME NEW j \in DOMAIN s2
        PROVE  s2[j] \in BytesOf(t, p, more)
    BY <1>8, BytesOfMember
  <2>2. ASSUME NEW x, x \in BytesOf(t, p, more)
        PROVE  \E j \in DOMAIN s2 : s2[j] = x
    <3>1. \E q \in 1..p : \E b \in 1..more[q] : x = Byte(t, q, b)
      BY <2>2, BytesOfMember
    <3>2. PICK q \in 1..p : \E b \in 1..more[q] : x = Byte(t, q, b)
      BY <3>1
    <3>3. PICK b \in 1..more[q] : x = Byte(t, q, b)
      BY <3>2
    <3> QED
      BY <1>9, <3>3
  <2>3. \A j \in DOMAIN s2 : s2[j] \in BytesOf(t, p, more)
    BY <2>1
  <2>4. \A x \in BytesOf(t, p, more) : x \in {s2[j] : j \in DOMAIN s2}
    BY <2>2
  <2> QED
    BY <2>3, <2>4
<1> QED
  BY <1>4, <1>7, <1>10 DEF InOrder, BytesIn

WrittenUpTo(t, p) == [q \in 1..p |-> WrittenOf(t, q)]

LEMMA WrittenMember ==
    ASSUME NEW t, NEW x
    PROVE  x \in Written(t) <=>
              \E q \in 1..part[t] : \E b \in 1..WrittenOf(t, q) : x = Byte(t, q, b)
BY DEF Written

(* Some bytes of the part are written: they follow those that were, in this
   part and in the parts before it. *)
WriteSome(t, n) ==
    /\ logs[t] = "write" /\ PartLeft(t)
    /\ n \in 1..(message[t][part[t]] - written[t])
    /\ written' = [written EXCEPT ![t] = @ + n]
    /\ sent' = sent \o Bytes(t, part[t], written[t], n)
    /\ UNCHANGED <<message, part>>

LEMMA BytesFollow ==
    ASSUME LinesInv, NEW t \in Threads, NEW n, WriteSome(t, n)
    PROVE  /\ written' \in [Threads -> Nat]
           /\ written'[t] \in Nat /\ written'[t] <= message[t][part[t]]
           /\ \A u \in Threads : u # t => written'[u] = written[u]
           /\ sent' \in Seq(AByte)
           /\ \A j, k \in DOMAIN sent' : j < k => Precedes(sent'[j], sent'[k])
           /\ {sent'[j] : j \in DOMAIN sent'} = Written(t)'
<1>1. /\ part[t] \in Nat /\ part[t] >= 1 /\ part[t] <= Len(message[t])
      /\ written[t] \in Nat /\ message[t][part[t]] \in Nat
      /\ \A q \in 1..part[t] : WrittenOf(t, q) \in Nat
  BY LocalTypes DEF WriteSome, PartLeft, LinesInv
<1>2. /\ n \in Nat /\ n >= 1 /\ written[t] + n \in Nat
      /\ written[t] + n <= message[t][part[t]]
  BY <1>1 DEF WriteSome
<1>3. /\ written' \in [Threads -> Nat] /\ written'[t] = written[t] + n
      /\ \A u \in Threads : u # t => written'[u] = written[u]
  BY <1>2 DEF WriteSome, LinesInv, LogTypeOK
<1>4. PICK p \in Nat : p = part[t]
  BY <1>1
<1>5. PICK w \in Nat : w = written[t]
  BY <1>1
<1>6. PICK done : done = WrittenUpTo(t, p)
  OBVIOUS
<1>7. PICK more : more = WrittenUpTo(t, p)'
  OBVIOUS
<1>8. PICK s : s = sent
  OBVIOUS
<1>9. PICK s2 : s2 = sent'
  OBVIOUS
<1>10. p >= 1 /\ done \in [1..p -> Nat] /\ w = done[p]
  BY <1>1, <1>4, <1>5, <1>6 DEF WrittenUpTo, WrittenOf
<1>11. /\ more \in [1..p -> Nat] /\ more[p] = w + n
       /\ \A q \in 1..p : q # p => more[q] = done[q]
  <2>1. \A q \in 1..p : WrittenOf(t, q)' = IF q = p THEN w + n ELSE WrittenOf(t, q)
    BY <1>1, <1>3, <1>4, <1>5 DEF WriteSome, WrittenOf
  <2>2. WrittenUpTo(t, p)' = [q \in 1..p |-> IF q = p THEN w + n ELSE WrittenOf(t, q)]
    BY <2>1 DEF WrittenUpTo
  <2>3. w + n \in Nat /\ p \in 1..p
    BY <1>2, <1>5, <1>10
  <2> QED
    BY <1>1, <1>4, <1>6, <1>7, <2>2, <2>3 DEF WrittenUpTo
<1>12. s \in Seq(AByte) /\ InOrder(s) /\ BytesIn(s) = BytesOf(t, p, done)
  <2>1. \A q \in 1..p : done[q] = WrittenOf(t, q)
    BY <1>6 DEF WrittenUpTo
  <2>2. ASSUME NEW x
        PROVE  x \in BytesOf(t, p, done) <=> x \in Written(t)
    <3>1. x \in BytesOf(t, p, done) <=> \E q \in 1..p : \E b \in 1..done[q] : x = Byte(t, q, b)
      BY BytesOfMember
    <3>2. x \in Written(t) <=> \E q \in 1..p : \E b \in 1..WrittenOf(t, q) : x = Byte(t, q, b)
      BY <1>4, WrittenMember
    <3> QED
      BY <2>1, <3>1, <3>2
  <2>3. BytesOf(t, p, done) = Written(t)
    BY <2>2
  <2> QED
    BY <1>8, <2>3 DEF WriteSome, LinesInv, LinesIntact, InOrder, BytesIn
<1>13. s2 = s \o Bytes(t, p, w, n)
  BY <1>4, <1>5, <1>8, <1>9 DEF WriteSome
<1>14. /\ s2 \in Seq(AByte) /\ InOrder(s2)
       /\ BytesIn(s2) = BytesOf(t, p, more)
  <2>1. Continues(t, p, done, w, n, more, s, s2)
    BY <1>2, <1>4, <1>10, <1>11, <1>12, <1>13 DEF Continues
  <2> QED
    BY <2>1, MoreBytes
<1>15. Written(t)' = BytesOf(t, p, more)
  <2>1. \A q \in 1..p : more[q] = WrittenOf(t, q)'
    BY <1>7 DEF WrittenUpTo
  <2>2. \A x : x \in Written(t)' <=>
           \E q \in 1..p : \E b \in 1..WrittenOf(t, q)' : x = Byte(t, q, b)
    BY <1>4 DEF WriteSome, Written
  <2>3. ASSUME NEW x
        PROVE  x \in BytesOf(t, p, more) <=> x \in Written(t)'
    <3>1. x \in BytesOf(t, p, more) <=> \E q \in 1..p : \E b \in 1..more[q] : x = Byte(t, q, b)
      BY BytesOfMember
    <3> QED
      BY <2>1, <2>2, <3>1
  <2> QED
    BY <2>3
<1>16. \A j, k \in DOMAIN s2 : j < k => Precedes(s2[j], s2[k])
  BY <1>14 DEF InOrder
<1>17. {s2[j] : j \in DOMAIN s2} = BytesOf(t, p, more)
  BY <1>14 DEF BytesIn
<1> QED
  BY <1>2, <1>3, <1>9, <1>14, <1>15, <1>16, <1>17

LEMMA TypesKept ==
    ASSUME LogTypeOK, NEW t \in Threads, UNCHANGED <<logResources, message>>,
           holder' \subseteq Threads, logs' \in [Threads -> Places],
           part' \in [Threads -> Nat], written' \in [Threads -> Nat],
           tries' \in [Threads -> 0..MaxTries],
           \A u \in Threads : u # t => part'[u] = part[u] /\ written'[u] = written[u],
           part'[t] \in 1..(Len(message[t]) + 1),
           written'[t] \in 0..(IF part'[t] \in DOMAIN message[t]
                               THEN message[t][part'[t]] ELSE 0)
    PROVE  LogTypeOK'
<1>1. ASSUME NEW u \in Threads
      PROVE  /\ part'[u] \in 1..(Len(message[u]) + 1)
             /\ written'[u] \in 0..(IF part'[u] \in DOMAIN message[u]
                                   THEN message[u][part'[u]] ELSE 0)
  <2>1. CASE u = t
    BY <2>1
  <2>2. CASE u # t
    BY <2>2 DEF LogTypeOK
  <2> QED
    BY <2>1, <2>2
<1> QED
  BY <1>1 DEF LogTypeOK, logResources

(* The locals are as they were: a step to another place inside. *)
LEMMA PlaceInv ==
    ASSUME LinesInv, NEW t \in Threads, NEW from \in {"write", "newline"},
           NEW to \in {"newline", "unlock"}, GoesTo(t, from, to),
           UNCHANGED <<logResources, holder, message, part, written, sent>>,
           tries' \in [Threads -> 0..MaxTries]
    PROVE  LinesInv'
<1>1. /\ logs[t] \in {"write", "newline"} /\ logs' = [logs EXCEPT ![t] = to]
      /\ logs[t] \notin {"out", "lock"} /\ to \in Places \ {"out", "lock"}
  BY DEF GoesTo, Places
<1>2. /\ logs' \in [Threads -> Places] /\ HolderTold'
      /\ logs'[t] = to /\ \A u \in Threads : u # t => logs'[u] = logs[u]
  BY <1>1, GoesOn
<1>3. LogTypeOK'
  BY <1>2 DEF LinesInv, LogTypeOK, logResources
<1>4. LinesIntact'
  BY <1>1, <1>2, LinesKept
<1> QED
  BY <1>2, <1>3, <1>4 DEF LinesInv

LEMMA WriteInv == ASSUME LinesInv, NEW t \in Threads, Write(t) PROVE LinesInv'
<1>1. /\ logs[t] = "write" /\ PartLeft(t)
      /\ UNCHANGED <<logResources, holder, message, part>>
  BY DEF Write
<1>2. tries' \in [Threads -> 0..MaxTries]
  <2>1. tries[t] + 1 \in 0..MaxTries
    BY MaxTriesAssumption DEF Write, LinesInv, LogTypeOK
  <2> QED
    BY <2>1 DEF Write, LinesInv, LogTypeOK
<1>3. CASE /\ \E n \in 1..(message[t][part[t]] - written[t]) : WriteSome(t, n)
           /\ logs' = logs
  <2>1. PICK n : WriteSome(t, n)
    BY <1>3
  <2>2. /\ written' \in [Threads -> Nat]
        /\ written'[t] \in Nat /\ written'[t] <= message[t][part[t]]
        /\ \A u \in Threads : u # t => written'[u] = written[u]
        /\ sent' \in Seq(AByte)
        /\ \A j, k \in DOMAIN sent' : j < k => Precedes(sent'[j], sent'[k])
        /\ {sent'[j] : j \in DOMAIN sent'} = Written(t)'
    BY <2>1, BytesFollow
  <2>3. LogTypeOK'
    <3>1. /\ part[t] \in 1..(Len(message[t]) + 1) /\ part[t] \in DOMAIN message[t]
          /\ message[t][part[t]] \in Nat
      BY <1>1, LocalTypes DEF PartLeft, LinesInv
    <3>2. written'[t] \in 0..message[t][part[t]]
      BY <2>2, <3>1
    <3> QED
      BY <1>1, <1>2, <1>3, <2>2, <3>1, <3>2, TypesKept DEF LinesInv, LogTypeOK
  <2>4. HolderTold'
    BY <1>1, <1>3 DEF LinesInv, HolderTold, Inside
  <2>5. \A u \in Threads : logs'[u] \in {"write", "newline"} => u = t
    BY <1>1, <1>3, Alone
  <2> QED
    BY <2>2, <2>3, <2>4, <2>5 DEF LinesInv, LinesIntact
<1>4. CASE UNCHANGED <<written, sent, logs>>
  <2>1. LogTypeOK'
    BY <1>1, <1>2, <1>4 DEF LinesInv, LogTypeOK, logResources
  <2>2. HolderTold'
    BY <1>1, <1>4 DEF LinesInv, HolderTold, Inside
  <2>3. LinesIntact'
    BY <1>1, <1>4, LinesKept
  <2> QED
    BY <1>4, <2>1, <2>2, <2>3 DEF LinesInv
<1>5. CASE GoesTo(t, "write", "newline") /\ UNCHANGED <<written, sent>>
  BY <1>1, <1>2, <1>5, PlaceInv
<1> QED
  BY <1>3, <1>4, <1>5 DEF Write, WriteSome

(* All of a part is written when the next one begins with nothing. *)
LEMMA NextPartInv == ASSUME LinesInv, NEW t \in Threads, NextPart(t) PROVE LinesInv'
<1>1. /\ logs[t] = "write" /\ ~PartLeft(t)
      /\ part' = [part EXCEPT ![t] = part[t] + 1]
      /\ written' = [written EXCEPT ![t] = 0] /\ tries' = [tries EXCEPT ![t] = 0]
      /\ UNCHANGED <<logResources, holder, logs, message, sent>>
  BY DEF NextPart
<1>2. /\ message[t] \in Seq(Nat) /\ Len(message[t]) \in Nat
      /\ DOMAIN message[t] = 1..Len(message[t])
      /\ part[t] \in Nat /\ part[t] >= 1 /\ part[t] <= Len(message[t])
      /\ written[t] \in Nat
      /\ \A q \in 1..Len(message[t]) : message[t][q] \in Nat
      /\ written[t] <= message[t][part[t]]
  BY LocalTypes DEF LinesInv, NextPart
<1>3. written[t] = message[t][part[t]]
  BY <1>1, <1>2 DEF PartLeft
<1>4. /\ part' \in [Threads -> Nat] /\ part'[t] = part[t] + 1
      /\ written' \in [Threads -> Nat] /\ written'[t] = 0
      /\ tries' \in [Threads -> 0..MaxTries]
      /\ \A u \in Threads : u # t => part'[u] = part[u] /\ written'[u] = written[u]
  BY <1>1, <1>2, MaxTriesAssumption DEF LinesInv, LogTypeOK
<1>5. LogTypeOK'
  <2>1. part[t] + 1 \in 1..(Len(message[t]) + 1)
    BY <1>2
  <2>2. 0 \in 0..(IF part'[t] \in DOMAIN message[t] THEN message[t][part'[t]] ELSE 0)
    BY <1>2, <1>4
  <2> QED
    BY <1>1, <1>4, <2>1, <2>2, TypesKept DEF LinesInv, LogTypeOK
<1>6. HolderTold'
  BY <1>1 DEF LinesInv, HolderTold, Inside
<1>7. Written(t)' = Written(t)
  <2>1. \A q \in 1..part[t] : WrittenOf(t, q)' = WrittenOf(t, q)
    BY <1>1, <1>2, <1>3, <1>4 DEF WrittenOf
  <2>2. \A q : q = part[t] + 1 => WrittenOf(t, q)' = 0
    BY <1>1, <1>2, <1>4 DEF WrittenOf
  <2>3. ASSUME NEW x
        PROVE  x \in Written(t)' <=> x \in Written(t)
    <3>1. x \in Written(t) <=>
            \E q \in 1..part[t] : \E b \in 1..WrittenOf(t, q) : x = Byte(t, q, b)
      BY WrittenMember
    <3>2. x \in Written(t)' <=>
            \E q \in 1..(part[t] + 1) : \E b \in 1..WrittenOf(t, q)' : x = Byte(t, q, b)
      BY <1>4 DEF Written
    <3>3. \A q \in 1..(part[t] + 1) : q \in 1..part[t] \/ q = part[t] + 1
      BY <1>2
    <3>4. \A q \in 1..part[t] : q \in 1..(part[t] + 1)
      BY <1>2
    <3>5. ASSUME NEW q \in 1..(part[t] + 1), NEW b \in 1..WrittenOf(t, q)', x = Byte(t, q, b)
          PROVE  x \in Written(t)
      <4>1. q # part[t] + 1
        BY <2>2, <3>5
      <4>2. q \in 1..part[t] /\ b \in 1..WrittenOf(t, q)
        BY <2>1, <3>3, <3>5, <4>1
      <4> QED
        BY <3>1, <3>5, <4>2
    <3>6. ASSUME NEW q \in 1..part[t], NEW b \in 1..WrittenOf(t, q), x = Byte(t, q, b)
          PROVE  x \in Written(t)'
      <4>1. q \in 1..(part[t] + 1) /\ b \in 1..WrittenOf(t, q)'
        BY <2>1, <3>4, <3>6
      <4> QED
        BY <3>2, <3>6, <4>1
    <3> QED
      BY <3>1, <3>2, <3>5, <3>6
  <2> QED
    BY <2>3
<1>8. LinesIntact'
  <2>1. \A u \in Threads : logs'[u] \in {"write", "newline"} => u = t
    BY <1>1, Alone
  <2> QED
    BY <1>1, <1>7, <2>1 DEF LinesInv, LinesIntact
<1> QED
  BY <1>1, <1>5, <1>6, <1>8 DEF LinesInv

(* The thread leaves, with its locals as they are at the start of a call. *)
LEMMA LogUnlockInv == ASSUME LinesInv, NEW t \in Threads, LogUnlock(t) PROVE LinesInv'
<1>1. /\ logs[t] = "unlock" /\ logs' = [logs EXCEPT ![t] = "out"]
      /\ holder' = holder \ {t}
      /\ message' = [message EXCEPT ![t] = Nothing]
      /\ part' = [part EXCEPT ![t] = 1] /\ written' = [written EXCEPT ![t] = 0]
      /\ tries' = [tries EXCEPT ![t] = 0] /\ UNCHANGED <<logResources, sent>>
  BY DEF LogUnlock, GoesTo
<1>2. \A u \in Threads : u # t => logs[u] \in {"out", "lock"}
  BY <1>1, Alone
<1>3. /\ logs' \in [Threads -> Places] /\ logs'[t] = "out"
      /\ \A u \in Threads : u # t => logs'[u] = logs[u]
      /\ message' \in [Threads -> Messages \cup {Nothing}] /\ message'[t] = Nothing
      /\ part' \in [Threads -> Nat] /\ part'[t] = 1
      /\ written' \in [Threads -> Nat] /\ written'[t] = 0
      /\ tries' \in [Threads -> 0..MaxTries]
      /\ \A u \in Threads : u # t => /\ message'[u] = message[u] /\ part'[u] = part[u]
                                     /\ written'[u] = written[u]
  BY <1>1, MaxTriesAssumption DEF LinesInv, LogTypeOK, Places
<1>4. LogTypeOK'
  <2>1. Len(Nothing) = 0 /\ DOMAIN Nothing = {}
    BY DEF Nothing
  <2>2. ASSUME NEW u \in Threads
        PROVE  /\ part'[u] \in 1..(Len(message'[u]) + 1)
               /\ written'[u] \in 0..(IF part'[u] \in DOMAIN message'[u]
                                     THEN message'[u][part'[u]] ELSE 0)
    <3>1. CASE u = t
      BY <1>3, <2>1, <3>1
    <3>2. CASE u # t
      BY <1>3, <3>2 DEF LinesInv, LogTypeOK
    <3> QED
      BY <3>1, <3>2
  <2>3. holder' \subseteq Threads
    BY <1>1 DEF LinesInv, LogTypeOK
  <2> QED
    BY <1>1, <1>3, <2>2, <2>3 DEF LinesInv, LogTypeOK, logResources
<1>5. HolderTold'
  <2>1. Inside = {t} /\ Inside' = {}
    BY <1>1, <1>2, <1>3 DEF Inside
  <2>2. \A u \in Threads : message'[u] = Nothing
    BY <1>3, <2>1 DEF LinesInv, HolderTold
  <2> QED
    BY <1>1, <2>1, <2>2 DEF LinesInv, HolderTold
<1>6. LinesIntact'
  BY <1>2, <1>3 DEF LinesIntact
<1> QED
  BY <1>1, <1>4, <1>5, <1>6 DEF LinesInv

LEMMA LogStepInv == ASSUME LinesInv, NEW t \in Threads, LogStep(t) PROVE LinesInv'
<1>1. CASE LogLock(t)
  BY <1>1, LogLockInv
<1>2. CASE Write(t)
  BY <1>2, WriteInv
<1>3. CASE GiveUp(t)
  BY <1>3, PlaceInv DEF GiveUp, locals, LinesInv, LogTypeOK
<1>4. CASE NextPart(t)
  BY <1>4, NextPartInv
<1>5. CASE AllParts(t)
  BY <1>5, PlaceInv DEF AllParts, locals, LinesInv, LogTypeOK
<1>6. CASE Newline(t)
  BY <1>6, PlaceInv DEF Newline, locals, LinesInv, LogTypeOK
<1>7. CASE LogUnlock(t)
  BY <1>7, LogUnlockInv
<1> QED
  BY <1>1, <1>2, <1>3, <1>4, <1>5, <1>6, <1>7 DEF LogStep

(* A thread that finds the mutex is not inside yet. *)
LEMMA LogInv == ASSUME LinesInv, NEW t \in Threads, Log(t) PROVE LinesInv'
<1>1. /\ logs[t] = "out" /\ logs' = [logs EXCEPT ![t] = "lock"]
      /\ UNCHANGED <<logResources, holder, message, part, written, tries, sent>>
  BY DEF Log, GoesTo, locals
<1>2. /\ logs' \in [Threads -> Places] /\ logs'[t] = "lock"
      /\ \A u \in Threads : u # t => logs'[u] = logs[u]
  BY <1>1 DEF LinesInv, LogTypeOK, Places
<1>3. LogTypeOK'
  BY <1>1, <1>2 DEF LinesInv, LogTypeOK, logResources
<1>4. HolderTold'
  <2>1. Inside' = Inside
    BY <1>1, <1>2 DEF Inside
  <2> QED
    BY <1>1, <2>1 DEF LinesInv, HolderTold
<1>5. LinesIntact'
  BY <1>1, <1>2, LinesKept
<1> QED
  BY <1>1, <1>3, <1>4, <1>5 DEF LinesInv

(* What the life cycle does to the logger leaves the threads where they are. *)
LEMMA OutsideInv ==
    ASSUME LinesInv, UNCHANGED <<holder, logs, locals, sent>>,
           \/ UNCHANGED logResources
           \/ \E level \in ConfigLevels : PluginInit(level)
           \/ PluginShutdown
    PROVE  LinesInv'
<1>1. /\ hooked' \in BOOLEAN /\ logger' \in {"none", "made"} /\ log_level' \in UNKNOWN..4
      /\ descriptor' \in {"open", "closed"} /\ logger_mutex' \in {"ready", "none"}
  <2>1. CASE UNCHANGED logResources
    BY <2>1 DEF LinesInv, LogTypeOK, logResources
  <2>2. CASE \E level \in ConfigLevels : PluginInit(level)
    <3>1. PICK level \in ConfigLevels : PluginInit(level)
      BY <2>2
    <3>2. Corrected(level) \in UNKNOWN..4
      BY <3>1, ConfigLevelsAssumption DEF Corrected, UNKNOWN, OFF
    <3> QED
      BY <2>1, <3>1, <3>2 DEF PluginInit
  <2>3. CASE PluginShutdown
    BY <2>3 DEF PluginShutdown, LinesInv, LogTypeOK, UNKNOWN
  <2> QED
    BY <2>1, <2>2, <2>3
<1>2. LogTypeOK'
  BY <1>1 DEF LinesInv, LogTypeOK, locals
<1>3. HolderTold'
  BY DEF LinesInv, HolderTold, Inside, locals
<1>4. LinesIntact'
  BY LinesKept DEF locals
<1> QED
  BY <1>2, <1>3, <1>4 DEF LinesInv

LEMMA InitLines == Init => LinesInv
<1> SUFFICES ASSUME Init PROVE LinesInv
  OBVIOUS
<1>1. Len(Nothing) = 0 /\ DOMAIN Nothing = {} /\ <<>> \in Seq(AByte)
  BY DEF Nothing
<1>2. LogTypeOK
  <2>1. /\ 0 \in 0..MaxTries /\ UNKNOWN \in UNKNOWN..4
        /\ 1 \in 1..(Len(Nothing) + 1)
        /\ 0 \in 0..(IF 1 \in DOMAIN Nothing THEN Nothing[1] ELSE 0)
    BY <1>1, MaxTriesAssumption DEF UNKNOWN
  <2>2. \A t \in Threads : message[t] = Nothing /\ part[t] = 1 /\ written[t] = 0
    BY DEF Init, LogInit
  <2>3. /\ logs \in [Threads -> Places] /\ message \in [Threads -> Messages \cup {Nothing}]
        /\ part \in [Threads -> Nat] /\ written \in [Threads -> Nat]
        /\ tries \in [Threads -> 0..MaxTries]
    BY <2>1 DEF Init, LogInit, Places
  <2> QED
    BY <2>1, <2>2, <2>3 DEF Init, LogInit, LogTypeOK
<1>3. HolderTold
  BY DEF Init, LogInit, HolderTold, Inside
<1>4. LinesIntact
  BY DEF Init, LogInit, LinesIntact
<1> QED
  BY <1>1, <1>2, <1>3, <1>4 DEF Init, LogInit, LinesInv

LEMMA NextLines == ASSUME LinesInv, [Next]_vars PROVE LinesInv'
<1>1. CASE \E t \in Threads : Logging(t)
  BY <1>1, LogStepInv, LogInv DEF Logging
<1>2. CASE ReadSettings
  BY <1>2, OutsideInv DEF ReadSettings
<1>3. CASE CloseLog
  BY <1>3, OutsideInv DEF CloseLog
<1>4. CASE UNCHANGED logVars
  BY <1>4, OutsideInv DEF logVars
<1>5. [Next]_vars => \/ \E t \in Threads : Logging(t)
                     \/ ReadSettings \/ CloseLog \/ UNCHANGED logVars
  BY DEF Next, FirstActivate, vars, Startup, Activate, RecorderOff, RecorderStarts,
     RecorderFlag, CollectorFirst, CollectorActivate, Deactivate, JoinTimer, Shutdown,
     JoinRecorder, DeleteExporter, RecorderOnline, RecorderExits, TimerExits
<1> QED
  BY <1>1, <1>2, <1>3, <1>4, <1>5

(* Whatever the partial writes, the retries and the other threads, the bytes of
   a message reach stderr in order, each once, and with nobody else's between
   them (log.c:43-71, under the mutex of log.c:103-107). *)
THEOREM LinesStayIntact == Spec => []LinesIntact
<1>1. LinesInv => LinesIntact
  BY DEF LinesInv
<1>2. LinesInv /\ [Next]_vars => LinesInv'
  BY NextLines
<1> QED
  BY <1>1, <1>2, InitLines, PTL DEF Spec

-----------------------------------------------------------------------------
(* The statics that DecisionTold and StaticsTell say nothing of. *)
StaticTypes ==
    /\ first_activate \in {"none", "due", "running", "run"}
    /\ recorder_enabled \in BOOLEAN
    /\ collector_enabled \in BOOLEAN /\ have_thread \in BOOLEAN
    /\ exporter \in {"none", "live", "dangling", "freed twice"}

LEMMA NextStatics == ASSUME StaticTypes, [Next]_vars PROVE StaticTypes'
BY DEF StaticTypes, Next, FirstActivate, vars, statics, identity, Startup, Activate,
   ReadSettings, RecorderOff, RecorderStarts, RecorderFlag, CollectorFirst,
   CollectorActivate, Deactivate, JoinTimer, Shutdown, JoinRecorder, DeleteExporter,
   CloseLog, RecorderOnline, RecorderExits, TimerExits, Logging, Delete

(* Every variable keeps its type over any number of lives; with it, the recorder
   and the timer thread are outside the logger once they have ended
   (datadog-profiling.c:33-47, log.c:95-108). *)
THEOREM ProfilerKeepsTypes == Spec => []TypeOK
<1>1. Init => StaticTypes
  BY DEF Init, StaticTypes
<1>2. LifeInv /\ LinesInv /\ StaticTypes => TypeOK
  BY DEF LifeInv, DecisionTold, LoggerHeld, LinesInv, StaticTypes, TypeOK, Started
<1>3. LinesInv /\ [Next]_vars => LinesInv'
  BY NextLines
<1>4. StaticTypes /\ [Next]_vars => StaticTypes'
  BY NextStatics
<1> QED
  BY <1>1, <1>2, <1>3, <1>4, InitLines, Invariant, PTL DEF Spec
=============================================================================
