------------------------------ MODULE Profiler ------------------------------
(***************************************************************************)
(* The life cycle of the profiler (profiling/datadog-profiling.c) over any *)
(* number of lives in one process: an Apache reload shuts it down and      *)
(* starts it up again, without initialising static storage.  What the      *)
(* plugins do for the life cycle is here: which threads and resources they *)
(* start and end, and in which order.  What goes through the recorder is   *)
(* in Recorder, the timer in CollectorPlugin, the settings in Activation,  *)
(* and the once is what OncePromise says of it.                            *)
(*                                                                         *)
(* The PHP thread, the timer thread and the recorder thread all log: any   *)
(* of them may have a message wherever its code may log.                   *)
(***************************************************************************)
EXTENDS Log

CONSTANT ConfigLevels   \* what DD_PROFILING_LOG_LEVEL may say

ASSUME ConfigLevelsAssumption == ConfigLevels \subseteq UNKNOWN..4

VARIABLES
    php,                \* where the PHP thread is
    first_activate,     \* the once: "none", "due", "running", "run"
    setting,            \* profiling_config: "default", or profiling "on", "off"
    runtime_id,         \* "nil" or "v4"
    recorder_enabled,   \* datadog_php_profiling_recorder_enabled
    recorder,           \* the recorder thread
    exporter,           \* "dangling": deleted, but the pointer is kept
    collector_enabled,  \* the collector's own flag
    have_thread,        \* globals.have_thread
    timer               \* the timer thread: "none", "online" or "exited"

statics == <<recorder_enabled, exporter, collector_enabled, have_thread>>
identity == <<setting, runtime_id>>
vars == <<php, first_activate, identity, statics, recorder, timer, logVars>>

PHP == "php"
TIMER == "timer"
RECORDER == "recorder"

ASSUME ThreadsAssumption == Threads = {PHP, TIMER, RECORDER}

PhpStates == {"down", "up", "settings", "recorder", "flag", "collector",
              "activate", "request", "join timer",
              "join recorder", "exporter", "log"}

TypeOK ==
    /\ LogTypeOK
    /\ php \in PhpStates
    /\ first_activate \in {"none", "due", "running", "run"}
    /\ setting \in {"default", "on", "off"}
    /\ runtime_id \in {"nil", "v4"}
    /\ recorder_enabled \in BOOLEAN
    /\ recorder \in {"none", "starting", "online", "exited", "joined"}
    /\ exporter \in {"none", "live", "dangling", "freed twice"}
    /\ collector_enabled \in BOOLEAN /\ have_thread \in BOOLEAN
    /\ timer \in {"none", "online", "exited"}
    /\ recorder \in {"starting", "online"} \/ logs[RECORDER] = "out"
    /\ timer = "online" \/ logs[TIMER] = "out"

Init ==
    /\ LogInit
    /\ php = "down"
    /\ first_activate = "none"
    /\ setting = "default" /\ runtime_id = "nil"
    /\ recorder_enabled = FALSE /\ recorder = "none" /\ exporter = "none"
    /\ collector_enabled = FALSE /\ have_thread = FALSE /\ timer = "none"

(* The PHP thread leaves the logger before it goes on. *)
PhpGoes(from, to) == php = from /\ logs[PHP] = "out" /\ php' = to

-----------------------------------------------------------------------------
\* Bug variant: the once of the last life is kept.
StartupKeeps ==
    /\ PhpGoes("down", "up")
    /\ first_activate' = IF first_activate = "none" THEN "due" ELSE first_activate
    /\ setting' = "default" /\ runtime_id' = "nil"
    /\ UNCHANGED <<statics, recorder, timer, logVars>>

(* datadog_profiling_startup.  When the once cannot be constructed the engine
   is told so and does not use the profiler. *)
Startup ==
    /\ PhpGoes("down", "up")
    /\ first_activate' = "due"
    /\ setting' = "default" /\ runtime_id' = "nil"
    /\ UNCHANGED <<statics, recorder, timer, logVars>>

(* datadog_profiling_activate: the first request runs first_activate. *)
Activate ==
    /\ \/ /\ first_activate = "due"
          /\ PhpGoes("up", "settings")
          /\ first_activate' = "running"
       \/ /\ first_activate = "run"
          /\ PhpGoes("up", "activate")
          /\ UNCHANGED first_activate
    /\ UNCHANGED <<identity, statics, recorder, timer, logVars>>

(* datadog_profiling_first_activate, up to the log plugin: the settings may
   not be readable, and there may be no random bytes for the runtime id. *)
ReadSettings ==
    /\ PhpGoes("settings", "recorder")
    /\ \/ /\ setting' = "off"
          /\ UNCHANGED <<runtime_id, logResources>>
       \/ /\ setting' = "on"
          /\ runtime_id' \in {runtime_id, "v4"}
          /\ \E level \in ConfigLevels : PluginInit(level)
    /\ UNCHANGED <<first_activate, statics, recorder, timer,
                   holder, logs, locals, sent>>

(* datadog_php_recorder_plugin_first_activate.  A channel or an exporter that
   cannot be created, or a thread (the exporter is deleted), leave it off. *)
Delete(e) == IF e = "live" THEN "dangling" ELSE "freed twice"

RecorderOff ==
    /\ PhpGoes("recorder", "collector")
    /\ recorder_enabled' = FALSE
    /\ \/ UNCHANGED exporter
       \/ setting = "on" /\ exporter' = Delete("live")
    /\ UNCHANGED <<first_activate, identity, collector_enabled, have_thread,
                   recorder, timer, logVars>>

RecorderStarts ==
    /\ PhpGoes("recorder", "flag")
    /\ setting = "on"
    /\ exporter' = "live"
    /\ recorder' = "starting"
    /\ UNCHANGED <<first_activate, identity, recorder_enabled, collector_enabled,
                   have_thread, timer, logVars>>

RecorderFlag ==
    /\ PhpGoes("flag", "collector")
    /\ recorder_enabled' = TRUE
    /\ UNCHANGED <<first_activate, identity, exporter, collector_enabled,
                   have_thread, recorder, timer, logVars>>

(* datadog_php_stack_collector_first_activate, off also for want of a CPU
   clock; the once's routine returns. *)
CollectorFirst ==
    /\ PhpGoes("collector", "activate")
    /\ first_activate' = "run"
    /\ collector_enabled' \in {FALSE, setting = "on"}
    /\ UNCHANGED <<identity, recorder_enabled, exporter, have_thread,
                   recorder, timer, logVars>>

(* datadog_php_stack_collector_activate: the loop or the thread may fail. *)
CollectorActivate ==
    /\ PhpGoes("activate", "request")
    /\ \/ /\ collector_enabled
          /\ timer' = "online"
          /\ have_thread' = TRUE
       \/ UNCHANGED <<timer, have_thread>>
    /\ UNCHANGED <<first_activate, identity, recorder_enabled, exporter,
                   collector_enabled, recorder, logVars>>

(* datadog_profiling_deactivate *)
Deactivate ==
    /\ PhpGoes("request", IF collector_enabled /\ have_thread THEN "join timer" ELSE "up")
    /\ UNCHANGED <<first_activate, identity, statics, recorder, timer, logVars>>

JoinTimer ==
    /\ PhpGoes("join timer", "up")
    /\ timer = "exited"
    /\ timer' = "none"
    /\ have_thread' = FALSE
    /\ UNCHANGED <<first_activate, identity, recorder_enabled, exporter,
                   collector_enabled, recorder, logVars>>

-----------------------------------------------------------------------------
\* Bug variant: the recorder thread is not waited for.
ShutdownNoJoin ==
    /\ PhpGoes("up", "log")
    /\ first_activate' = "run"
    /\ recorder_enabled' = FALSE
    /\ UNCHANGED <<identity, exporter, collector_enabled, have_thread,
                   recorder, timer, logVars>>

(* datadog_profiling_shutdown: the once is destructed, which marks it as run,
   then the recorder's shutdown, which disables the thread and joins it, ... *)
Shutdown ==
    /\ PhpGoes("up", IF recorder_enabled THEN "join recorder" ELSE "log")
    /\ first_activate' = "run"
    /\ recorder_enabled' = FALSE
    /\ UNCHANGED <<identity, exporter, collector_enabled, have_thread,
                   recorder, timer, logVars>>

JoinRecorder ==
    /\ PhpGoes("join recorder", "exporter")
    /\ recorder = "exited"
    /\ recorder' = "joined"
    /\ UNCHANGED <<first_activate, identity, statics, timer, logVars>>

DeleteExporter ==
    /\ PhpGoes("exporter", "log")
    /\ exporter' = Delete(exporter)
    /\ UNCHANGED <<first_activate, identity, recorder_enabled, collector_enabled,
                   have_thread, recorder, timer, logVars>>

(* ... then the log plugin's. *)
CloseLog ==
    /\ PhpGoes("log", "down")
    /\ PluginShutdown
    /\ recorder' = "none"
    /\ UNCHANGED <<first_activate, identity, statics, timer,
                   holder, logs, locals, sent>>

-----------------------------------------------------------------------------
(* The recorder thread: without a profile it ends at once; otherwise it ends
   when it finds the plugin disabled. *)
RecorderOnline ==
    /\ recorder = "starting" /\ logs[RECORDER] = "out"
    /\ recorder' = "online"
    /\ UNCHANGED <<php, first_activate, identity, statics, timer, logVars>>

RecorderExits ==
    /\ logs[RECORDER] = "out"
    /\ \/ recorder = "starting"
       \/ recorder = "online" /\ ~recorder_enabled
    /\ recorder' = "exited"
    /\ UNCHANGED <<php, first_activate, identity, statics, timer, logVars>>

(* The timer thread ends when deactivate stops its loop. *)
TimerExits ==
    /\ timer = "online" /\ php = "join timer" /\ logs[TIMER] = "out"
    /\ timer' = "exited"
    /\ UNCHANGED <<php, first_activate, identity, statics, recorder, logVars>>

(* Where each thread's code has messages *)
MayLog(t) ==
    \/ t = PHP /\ php \in {"recorder", "collector", "activate", "request", "exporter"}
    \/ t = RECORDER /\ recorder \in {"starting", "online"}
    \/ t = TIMER /\ timer = "online"

Logging(t) ==
    /\ (MayLog(t) /\ Log(t)) \/ LogStep(t)
    /\ UNCHANGED <<php, first_activate, identity, statics, recorder, timer>>

-----------------------------------------------------------------------------
FirstActivate ==
    ReadSettings \/ RecorderOff \/ RecorderStarts \/ RecorderFlag \/ CollectorFirst

Next ==
    \/ Startup \/ Activate \/ FirstActivate \/ CollectorActivate
    \/ Deactivate \/ JoinTimer
    \/ Shutdown \/ JoinRecorder \/ DeleteExporter \/ CloseLog
    \/ RecorderOnline \/ RecorderExits
    \/ TimerExits
    \/ \E t \in Threads : Logging(t)

Spec == Init /\ [][Next]_vars

-----------------------------------------------------------------------------
PhaseBar ==
    IF php = "down" THEN "down"
    ELSE IF php \in {"activate", "request", "join timer"} THEN "request"
    ELSE IF php \in {"join recorder", "exporter", "log"} THEN "ending"
    ELSE "up"

DecisionBar == IF setting = "default" THEN "none" ELSE setting

RecorderBar ==
    IF recorder = "none" THEN "none"
    ELSE IF recorder \in {"starting", "online"} THEN "alive" ELSE "gone"

Life == INSTANCE ProfilerLife WITH
    phase <- PhaseBar, decision <- DecisionBar, identity <- runtime_id,
    recorder <- RecorderBar, timer <- (timer = "online")

(* Although static storage survives a reload with thread ids, an exporter and
   flags of the last life in it (datadog-profiling.c:33-47), every life decides
   once, after its own settings, and starts and ends its own threads only. *)
ImplementsLife == Life!Spec

(* log.h:49-52: the logger is closed "when the program is back in
   single-threaded mode", so that no thread meets a closed descriptor or a
   destroyed mutex; and the exporter is deleted once in its life. *)
NothingUsedAfterItsEnd == LoggerThere /\ exporter # "freed twice"
=============================================================================
