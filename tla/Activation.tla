----------------------------- MODULE Activation -----------------------------
(***************************************************************************)
(* The first activation of the profiler reads its settings: env.c copies   *)
(* them from the SAPI or the environment into an arena, config.c makes the *)
(* configuration of the copies.  It is the routine of first_activate_once  *)
(* (datadog-profiling.c), which every request calls, in each life of the   *)
(* process: an Apache reload shuts down and starts up again with whatever  *)
(* is in static storage.  The routine is split at each look-up.            *)
(*                                                                         *)
(* A text is a value with a length.  The plugins that the routine goes on  *)
(* to start are in Profiler.                                               *)
(***************************************************************************)
EXTENDS Arena, Once, Sequences

CONSTANTS
    Values,         \* for each variable's name, the texts it may be set to
    TextLength,     \* the length of each text
    Lower(_)        \* a text in lower case

VARIABLES
    step,           \* where the routine is
    i,              \* the next entry of envs[]
    environ,        \* what the look-ups of this life found: a text, or Unset
    env,            \* profiling_env: the copies
    config          \* profiling_config

settingVars == <<step, i, environ, env, config>>
vars == <<onceVars, arenaVars, settingVars>>

-----------------------------------------------------------------------------
\* envs[] in datadog_php_profiling_getenvs
Settings == <<"DD_AGENT_HOST", "DD_ENV", "DD_PROFILING_ENABLED",
              "DD_PROFILING_LOG_LEVEL", "DD_SERVICE", "DD_TAGS",
              "DD_TRACE_AGENT_PORT", "DD_TRACE_AGENT_URL", "DD_VERSION">>
CpuTime == "DD_PROFILING_EXPERIMENTAL_CPU_TIME_ENABLED"
CpuOld == "DD_PROFILING_EXPERIMENTAL_CPU_ENABLED"
Cpu == {CpuTime, CpuOld}
Plain == {Settings[n] : n \in DOMAIN Settings}
Names == Plain \cup Cpu

Unset == "(unset)"
Found(name) == Values[name] \cup {Unset}
Text(found) == IF found = Unset THEN "" ELSE found

(* The length of a value is a size that the arena may be asked for. *)
ASSUME ValuesAssumption ==
    \A name \in Names :
        Unset \notin Values[name] /\ \A text \in Values[name] : TextLength[text] \in Sizes

(* profiling_env has one field for the two variables of CPU time. *)
CpuField == "profiling_experimental_cpu_enabled"
Fields == Plain \cup {CpuField}
NoSettings == [f \in Fields |-> ""]

Levels == [off |-> 0, error |-> 1, warn |-> 2, info |-> 3, debug |-> 4]
Unknown == -1

LevelDetect(text) ==
    IF text = "" THEN Levels.off
    ELSE IF Lower(text) \in DOMAIN Levels THEN Levels[Lower(text)]
    ELSE Unknown

IsBooleanTrue(text) == text \in {"1", "on", "yes", "true"}

HostPort(host, port) == <<host, port>>
DefaultHost == "localhost"
DefaultPort == "8126"
DefaultEndpoint == HostPort(DefaultHost, DefaultPort)
ASSUME DefaultsAssumption ==
    TextLength[DefaultHost] \in Nat /\ TextLength[DefaultPort] \in Nat

DefaultConfig ==
    [profiling_enabled |-> FALSE, cpu |-> FALSE, log_level |-> Levels.off,
     endpoint |-> DefaultEndpoint, env |-> "", service |-> "", tags |-> "",
     version |-> ""]

Steps == {"idle", "getenvs", "cpu", "cpu old", "config", "failed", "done"}

SettingTypeOK ==
    /\ step \in Steps
    /\ i \in 1..(Len(Settings) + 1)
    /\ DOMAIN environ = Names
    /\ \A name \in Names : environ[name] \in Found(name)
    /\ DOMAIN env = Fields
    /\ \A name \in Plain : env[name] \in Values[name] \cup {""}
    /\ env[CpuField] \in Values[CpuTime] \cup Values[CpuOld] \cup {""}
    /\ DOMAIN config = DOMAIN DefaultConfig
    /\ config.log_level \in {Unknown} \cup {Levels[l] : l \in DOMAIN Levels}

TypeOK == OnceTypeOK /\ ArenaTypeOK /\ SettingTypeOK

Init ==
    /\ OnceInit /\ ArenaInit
    /\ step = "idle" /\ i = 1
    /\ environ = [name \in Names |-> Unset]
    /\ env = NoSettings
    /\ config = DefaultConfig

-----------------------------------------------------------------------------
(* datadog_profiling_startup: the statics are initialised again, once the
   once is there. *)
Startup ==
    \/ /\ Ctor
       /\ Wipe
       /\ step' = "idle" /\ i' = 1
       /\ environ' = [name \in Names |-> Unset]
       /\ env' = NoSettings
       /\ config' = DefaultConfig
    \/ CtorFails /\ UNCHANGED <<arenaVars, settingVars>>

Shutdown == Dtor /\ UNCHANGED <<arenaVars, settingVars>>

(* One caller in datadog_php_once, outside of the routine *)
OnceStep(c) ==
    /\ Call(c) \/ Inside(c) \/ GoOn(c)
    /\ UNCHANGED <<arenaVars, settingVars>>

-----------------------------------------------------------------------------
(* The routine: it is run by the caller that is at "routine". *)
Runs == \E c \in Callers : at[c] = "routine"

FirstActivate ==
    /\ Runs /\ step = "idle"
    /\ config' = DefaultConfig
    /\ \/ New /\ step' = "getenvs"
       \/ NewFails /\ step' = "failed"
    /\ UNCHANGED <<onceVars, i, environ, env>>

(* datadog_php_profiling_getenv: the SAPI is asked first. *)
Getenv(sapi, os) == IF sapi # Unset THEN sapi ELSE os

Looks(name, found) ==
    /\ \E sapi, os \in Found(name) : found = Getenv(sapi, os)
    /\ environ' = [environ EXCEPT ![name] = found]

Copy(found) == found # Unset /\ AllocStr(TextLength[found])
NoMem(found) == found # Unset /\ NoRoomStr(TextLength[found])
NoVal(found) == found = Unset /\ UNCHANGED arenaVars

AfterSetting ==
    /\ i' = i + 1
    /\ step' = IF i = Len(Settings) THEN "cpu" ELSE "getenvs"

\* Bug variant: a value that finds no room is taken for one that is not set.
SettingLost ==
    /\ Runs /\ step = "getenvs"
    /\ \E found \in Found(Settings[i]) :
         /\ Looks(Settings[i], found)
         /\ \/ Copy(found) /\ env' = [env EXCEPT ![Settings[i]] = found]
            \/ /\ NoVal(found) \/ NoMem(found)
               /\ env' = [env EXCEPT ![Settings[i]] = ""]
    /\ AfterSetting
    /\ UNCHANGED <<onceVars, config>>

(* One turn of the loop of datadog_php_profiling_getenvs *)
Setting ==
    /\ Runs /\ step = "getenvs"
    /\ \E found \in Found(Settings[i]) :
         /\ Looks(Settings[i], found)
         /\ \/ /\ Copy(found)
               /\ env' = [env EXCEPT ![Settings[i]] = found]
               /\ AfterSetting
            \/ /\ NoVal(found)
               /\ env' = [env EXCEPT ![Settings[i]] = ""]
               /\ AfterSetting
            \/ /\ NoMem(found)
               /\ step' = "failed"
               /\ UNCHANGED <<i, env>>
    /\ UNCHANGED <<onceVars, config>>

(* The two variables of CPU time: the second is asked for when the first is
   not set, and only then. *)
CpuSetting(name, otherwise) ==
    /\ \E found \in Found(name) :
         /\ Looks(name, found)
         /\ \/ /\ Copy(found)
               /\ env' = [env EXCEPT ![CpuField] = found]
               /\ step' = "config"
            \/ /\ NoVal(found)
               /\ env' = [env EXCEPT ![CpuField] = ""]
               /\ step' = otherwise
            \/ /\ NoMem(found)
               /\ env' = [env EXCEPT ![CpuField] = ""]
               /\ step' = "failed"
    /\ UNCHANGED <<onceVars, i, config>>

CpuTimeSetting == Runs /\ step = "cpu" /\ CpuSetting(CpuTime, "cpu old")
CpuOldSetting == Runs /\ step = "cpu old" /\ CpuSetting(CpuOld, "config")

-----------------------------------------------------------------------------
(* profiling_config_endpoint_str: the URL first, then host and port; "http://"
   and ":" are eight characters. *)
OrElse(text, default) == IF text = "" THEN default ELSE text
Host == OrElse(env["DD_AGENT_HOST"], DefaultHost)
Port == OrElse(env["DD_TRACE_AGENT_PORT"], DefaultPort)
EndpointSize == TextLength[Host] + TextLength[Port] + 8 + 1

EndpointIs(endpoint) ==
    LET url == env["DD_TRACE_AGENT_URL"] IN
    \/ /\ url # ""
       /\ endpoint = <<url>>
       /\ UNCHANGED arenaVars
    \/ /\ url = ""
       /\ endpoint = HostPort(Host, Port)
       /\ Alloc(EndpointSize, MaxAlign)
    \/ /\ url = ""
       /\ endpoint = DefaultEndpoint
       /\ NoRoom(EndpointSize, MaxAlign)

Configured(endpoint) ==
    [profiling_enabled |-> IsBooleanTrue(env["DD_PROFILING_ENABLED"]),
     cpu |-> IsBooleanTrue(env[CpuField]),
     log_level |-> LevelDetect(env["DD_PROFILING_LOG_LEVEL"]),
     endpoint |-> endpoint,
     env |-> env["DD_ENV"], service |-> env["DD_SERVICE"],
     tags |-> env["DD_TAGS"], version |-> env["DD_VERSION"]]

(* datadog_php_profiling_config_ctor *)
ConfigCtor ==
    /\ Runs /\ step = "config"
    /\ \E endpoint \in {<<env["DD_TRACE_AGENT_URL"]>>, HostPort(Host, Port), DefaultEndpoint} :
         /\ EndpointIs(endpoint)
         /\ config' = Configured(endpoint)
    /\ step' = "done"
    /\ UNCHANGED <<onceVars, i, environ, env>>

(* "Unable to load configuration. Profiling is disabled." *)
NoConfig ==
    /\ Runs /\ step = "failed"
    /\ config' = [config EXCEPT !.profiling_enabled = FALSE]
    /\ step' = "done"
    /\ UNCHANGED <<onceVars, arenaVars, i, environ, env>>

RoutineReturns(c) ==
    /\ step = "done"
    /\ Routine(c)
    /\ UNCHANGED <<arenaVars, settingVars>>

-----------------------------------------------------------------------------
RoutineStep ==
    FirstActivate \/ Setting \/ CpuTimeSetting \/ CpuOldSetting \/ ConfigCtor \/ NoConfig

Next ==
    \/ Startup
    \/ Shutdown
    \/ RoutineStep
    \/ \E c \in Callers : OnceStep(c) \/ RoutineReturns(c)

Spec == Init /\ [][Next]_vars

(* The routine and the callers run; nothing makes a request begin or end, nor
   the process start or stop. *)
FairSpec ==
    /\ Spec
    /\ WF_vars(RoutineStep)
    /\ \A c \in Callers :
         /\ WF_vars(Inside(c) /\ UNCHANGED <<arenaVars, settingVars>>)
         /\ WF_vars(RoutineReturns(c))

-----------------------------------------------------------------------------
(* The README's settings (lines 28-42) are the environment's.  Whoever returns
   from the once finds the configuration finished, and, with the profiler on,
   each setting as the environment has it, the documented variable of CPU time
   before the older one (env.c:125-128), however full the arena was: a value
   that found no room turns the profiler off and is never taken for one that is
   not set.  Only the endpoint becomes the default when the one asked for does
   not fit. *)
AsInEnviron ==
    LET Set(name) == Text(environ[name])
        cpu == IF environ[CpuTime] = Unset THEN Set(CpuOld) ELSE environ[CpuTime]
        wanted == IF Set("DD_TRACE_AGENT_URL") # "" THEN <<Set("DD_TRACE_AGENT_URL")>>
                  ELSE HostPort(OrElse(Set("DD_AGENT_HOST"), DefaultHost),
                                OrElse(Set("DD_TRACE_AGENT_PORT"), DefaultPort))
    IN  /\ Set("DD_PROFILING_ENABLED") \in {"1", "on", "yes", "true"}
        /\ config.cpu = IsBooleanTrue(cpu)
        /\ config.log_level = LevelDetect(Set("DD_PROFILING_LOG_LEVEL"))
        /\ <<config.env, config.service, config.tags, config.version>> =
             <<Set("DD_ENV"), Set("DD_SERVICE"), Set("DD_TAGS"), Set("DD_VERSION")>>
        /\ \/ config.endpoint = wanted
           \/ config.endpoint = DefaultEndpoint /\ ~Fits(EndpointSize, MaxAlign)

SettingsKept ==
    (\E c \in Callers : at[c] = "returned") =>
        step = "done" /\ (config.profiling_enabled => AsInEnviron)

(* Nobody waits on the once for ever: not those that find it locked, nor those
   that come in a later life of it. *)
CallersReturn == \A c \in Callers : (at[c] = "load") ~> (at[c] = "returned")
=============================================================================
