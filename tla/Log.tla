--------------------------------- MODULE Log ---------------------------------
(***************************************************************************)
(* components/log and plugins/log_plugin: one logger for all threads of    *)
(* the profiler, over a duplicate of stderr.  Every access to the logger   *)
(* is under its mutex, except the first look at the mutex pointer, and the *)
(* plugin's shutdown.  A message is given as the lengths of its parts;     *)
(* each write(2) may be partial, be interrupted, or fail.                  *)
(***************************************************************************)
EXTENDS Integers, Sequences

CONSTANTS
    Threads,        \* the threads that log
    Messages,       \* sequences of lengths of parts
    LogLevels,      \* levels a message or the logger may have
    MaxTries        \* max_tries in durable_write

ASSUME MaxTriesAssumption == MaxTries \in Nat \ {0}
ASSUME MessagesAssumption == Messages \subseteq Seq(Nat)

UNKNOWN == -1
OFF == 0
ASSUME LogLevelsAssumption == LogLevels \subseteq UNKNOWN..4

VARIABLES
    hooked,         \* prof_logger has the plugin's functions, not the no-ops
    logger,         \* profiler_logger: constructed, or as after its destructor
    log_level,
    descriptor,     \* the duplicate of stderr: "open" or "closed"
    logger_mutex,   \* "ready", or "none": not initialised, or destroyed
    holder,         \* the threads inside the mutex
    logs,           \* where each thread is in datadog_php_logv
    message,        \* the message of each thread that is writing,
    part, written, tries,   \* and the locals of its loops
    sent            \* the bytes that reached stderr since the mutex was taken

locals == <<message, part, written, tries>>
logResources == <<hooked, logger, log_level, descriptor, logger_mutex>>
logVars == <<logResources, holder, logs, locals, sent>>

Places == {"out", "lock", "write", "newline", "unlock"}
Nothing == <<>>

LogTypeOK ==
    /\ hooked \in BOOLEAN
    /\ logger \in {"none", "made"}
    /\ log_level \in UNKNOWN..4
    /\ descriptor \in {"open", "closed"}
    /\ logger_mutex \in {"ready", "none"}
    /\ holder \subseteq Threads
    /\ logs \in [Threads -> Places]
    /\ message \in [Threads -> Messages \cup {Nothing}]
    /\ part \in [Threads -> Nat] /\ written \in [Threads -> Nat]
    /\ tries \in [Threads -> 0..MaxTries]
    /\ \A t \in Threads :
         /\ part[t] \in 1..(Len(message[t]) + 1)
         /\ written[t] \in 0..(IF part[t] \in DOMAIN message[t]
                              THEN message[t][part[t]] ELSE 0)

LogInit ==
    /\ hooked = FALSE
    /\ logger = "none" /\ log_level = UNKNOWN
    /\ descriptor = "closed" /\ logger_mutex = "none"
    /\ holder = {}
    /\ logs = [t \in Threads |-> "out"]
    /\ message = [t \in Threads |-> Nothing]
    /\ part = [t \in Threads |-> 1]
    /\ written = [t \in Threads |-> 0]
    /\ tries = [t \in Threads |-> 0]
    /\ sent = <<>>

GoesTo(t, from, to) == logs[t] = from /\ logs' = [logs EXCEPT ![t] = to]

-----------------------------------------------------------------------------
(* datadog_php_log_plugin_init, with a level that is never unknown, and what
   its failures leave: dup or the mutex, whose failure closes the duplicate. *)
Corrected(level) == IF level = UNKNOWN THEN OFF ELSE level

PluginInit(level) ==
    \/ UNCHANGED logResources
    \/ /\ descriptor' = "open"
       /\ logger_mutex' = "ready"
       /\ logger' = "made"
       /\ log_level' = Corrected(level)
       /\ hooked' = TRUE

(* datadog_php_log_plugin_shutdown: prof_logger keeps the functions. *)
PluginShutdown ==
    /\ descriptor' = "closed"
    /\ logger_mutex' = "none"
    /\ logger' = "none"
    /\ log_level' = UNKNOWN
    /\ UNCHANGED hooked

-----------------------------------------------------------------------------
(* datadog_php_logv: a look at the mutex pointer, then the lock *)
Log(t) ==
    /\ hooked
    /\ logger = "made"
    /\ GoesTo(t, "out", "lock")
    /\ UNCHANGED <<logResources, holder, locals, sent>>

LoggerValid == logger = "made" /\ log_level >= OFF

(* What is logged, and at which level, matters from here on only. *)
Enter(t) ==
    /\ sent' = <<>>
    /\ \E level \in LogLevels, m \in Messages :
         IF LoggerValid /\ log_level >= level
         THEN GoesTo(t, "lock", "write") /\ message' = [message EXCEPT ![t] = m]
         ELSE GoesTo(t, "lock", "unlock") /\ UNCHANGED message
    /\ UNCHANGED <<logResources, part, written, tries>>

\* Bug variant: only the writer itself is kept out.
LockAnyway(t) ==
    /\ t \notin holder
    /\ holder' = holder \cup {t}
    /\ Enter(t)

LogLock(t) ==
    /\ holder = {}
    /\ holder' = {t}
    /\ Enter(t)

\* A byte is told by its place in the message; these are the n after `from'.
Byte(t, p, b) == [of |-> t, part |-> p, byte |-> b]
Bytes(t, p, from, n) == [k \in 1..n |-> Byte(t, p, from + k)]

PartLeft(t) == part[t] <= Len(message[t]) /\ written[t] < message[t][part[t]]

(* A turn of the loop of durable_write: some bytes; or none yet (EAGAIN,
   EINTR); or an error that ends the message. *)
Write(t) ==
    /\ logs[t] = "write" /\ PartLeft(t) /\ tries[t] < MaxTries
    /\ tries' = [tries EXCEPT ![t] = @ + 1]
    /\ \/ \E n \in 1..(message[t][part[t]] - written[t]) :
            /\ written' = [written EXCEPT ![t] = @ + n]
            /\ sent' = sent \o Bytes(t, part[t], written[t], n)
            /\ UNCHANGED logs
       \/ UNCHANGED <<written, sent, logs>>
       \/ /\ GoesTo(t, "write", "newline")
          /\ UNCHANGED <<written, sent>>
    /\ UNCHANGED <<logResources, holder, message, part>>

GiveUp(t) ==
    /\ PartLeft(t) /\ tries[t] = MaxTries
    /\ GoesTo(t, "write", "newline")
    /\ UNCHANGED <<logResources, holder, locals, sent>>

\* Bug variant: what was written of a part counts for the next one.
NextPartKeeps(t) ==
    /\ logs[t] = "write" /\ part[t] <= Len(message[t]) /\ ~PartLeft(t)
    /\ part' = [part EXCEPT ![t] = @ + 1]
    /\ tries' = [tries EXCEPT ![t] = 0]
    /\ UNCHANGED <<logResources, holder, logs, message, written, sent>>

(* log_writev goes on to the next part, or is done. *)
NextPart(t) ==
    /\ logs[t] = "write" /\ part[t] <= Len(message[t]) /\ ~PartLeft(t)
    /\ part' = [part EXCEPT ![t] = @ + 1]
    /\ written' = [written EXCEPT ![t] = 0]
    /\ tries' = [tries EXCEPT ![t] = 0]
    /\ UNCHANGED <<logResources, holder, logs, message, sent>>

AllParts(t) ==
    /\ part[t] > Len(message[t])
    /\ GoesTo(t, "write", "newline")
    /\ UNCHANGED <<logResources, holder, locals, sent>>

(* "try to append a newline": one write, whose failure is ignored. *)
Newline(t) ==
    /\ GoesTo(t, "newline", "unlock")
    /\ UNCHANGED <<logResources, holder, locals, sent>>

LogUnlock(t) ==
    /\ GoesTo(t, "unlock", "out")
    /\ holder' = holder \ {t}
    /\ message' = [message EXCEPT ![t] = Nothing]
    /\ part' = [part EXCEPT ![t] = 1]
    /\ written' = [written EXCEPT ![t] = 0]
    /\ tries' = [tries EXCEPT ![t] = 0]
    /\ UNCHANGED <<logResources, sent>>

LogStep(t) ==
    \/ LogLock(t) \/ Write(t) \/ GiveUp(t) \/ NextPart(t)
    \/ AllParts(t) \/ Newline(t) \/ LogUnlock(t)

-----------------------------------------------------------------------------
\* What of part q of its message the thread has written.
WrittenOf(t, q) == IF q < part[t] THEN message[t][q] ELSE written[t]
Written(t) == UNION {{Byte(t, q, b) : b \in 1..WrittenOf(t, q)} : q \in 1..part[t]}

Precedes(x, y) == x.part < y.part \/ (x.part = y.part /\ x.byte < y.byte)

(* The bytes of a message reach stderr in order, each once, and with nothing of
   another thread's between them, whatever the partial writes and the retries
   (log.c:43-71); what is cut off is a tail. *)
LinesIntact ==
    \A t \in Threads :
        logs[t] \in {"write", "newline"} =>
            /\ \A j, k \in DOMAIN sent : j < k => Precedes(sent[j], sent[k])
            /\ {sent[j] : j \in DOMAIN sent} = Written(t)

(* Whoever is inside the logger, or has found its mutex, finds it alive, and
   its descriptor is still the profiler's. *)
LoggerThere ==
    \A t \in Threads :
        logs[t] # "out" =>
            logger = "made" /\ logger_mutex = "ready" /\ descriptor = "open"
=============================================================================
