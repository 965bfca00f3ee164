-------------------------------- MODULE Once --------------------------------
(***************************************************************************)
(* components/once: an initialisation routine that runs once, whoever asks *)
(* first.  A flag that is read without the lock (fast path) and again with *)
(* it; each access to the flag and to the mutex is a step.  The routine    *)
(* itself is the step Routine: a module that composes this one puts the    *)
(* steps of its routine before it.                                         *)
(***************************************************************************)
CONSTANT Callers

VARIABLES
    initialized,    \* once->initialized
    mutex,          \* the callers inside once->mutex
    constructed,    \* the once is between its constructor and its destructor
    at              \* where each caller is

onceVars == <<initialized, mutex, constructed, at>>

(* "returned": the caller goes on, relying on what the routine has set up. *)
Places == {"out", "load", "lock", "check", "routine", "store", "unlock", "returned"}
Locked == {"check", "routine", "store", "unlock"}

OnceTypeOK ==
    /\ initialized \in BOOLEAN
    /\ mutex \subseteq Callers
    /\ constructed \in BOOLEAN
    /\ at \in [Callers -> Places]

OnceInit ==
    /\ initialized = FALSE
    /\ mutex = {}
    /\ constructed = FALSE
    /\ at = [c \in Callers |-> "out"]

Moves(c, from, to) == at[c] = from /\ at' = [at EXCEPT ![c] = to]

-----------------------------------------------------------------------------
(* datadog_php_once_ctor: the flag is written before the mutex is tried. *)
Ctor ==
    /\ ~constructed
    /\ initialized' = FALSE
    /\ constructed' = TRUE
    /\ UNCHANGED <<mutex, at>>

CtorFails ==
    /\ ~constructed
    /\ initialized' = FALSE
    /\ UNCHANGED <<mutex, constructed, at>>

(* datadog_php_once_dtor, which is not thread safe: its user calls it when no
   other thread is left. *)
Dtor ==
    /\ constructed
    /\ \A c \in Callers : at[c] = "out"
    /\ initialized' = TRUE
    /\ constructed' = FALSE
    /\ UNCHANGED <<mutex, at>>

(* datadog_php_once *)
Call(c) ==
    /\ constructed
    /\ Moves(c, "out", "load")
    /\ UNCHANGED <<initialized, mutex, constructed>>

Load(c) ==
    /\ Moves(c, "load", IF initialized THEN "returned" ELSE "lock")
    /\ UNCHANGED <<initialized, mutex, constructed>>

Lock(c) ==
    /\ mutex = {}
    /\ mutex' = {c}
    /\ Moves(c, "lock", "check")
    /\ UNCHANGED <<initialized, constructed>>

\* Bug variant: the flag is set before the routine.
CheckEarly(c) ==
    /\ Moves(c, "check", IF initialized THEN "unlock" ELSE "routine")
    /\ initialized' = TRUE
    /\ UNCHANGED <<mutex, constructed>>

Check(c) ==
    /\ Moves(c, "check", IF initialized THEN "unlock" ELSE "routine")
    /\ UNCHANGED <<initialized, mutex, constructed>>

Routine(c) ==
    /\ Moves(c, "routine", "store")
    /\ UNCHANGED <<initialized, mutex, constructed>>

Store(c) ==
    /\ Moves(c, "store", "unlock")
    /\ initialized' = TRUE
    /\ UNCHANGED <<mutex, constructed>>

\* Bug variant: only the caller that ran the routine unlocks.
UnlockKeeps(c) ==
    /\ Moves(c, "unlock", "returned")
    /\ UNCHANGED <<initialized, mutex, constructed>>

Unlock(c) ==
    /\ Moves(c, "unlock", "returned")
    /\ mutex' = mutex \ {c}
    /\ UNCHANGED <<initialized, constructed>>

(* The caller has no more use for what was initialised (its request ended). *)
GoOn(c) ==
    /\ Moves(c, "returned", "out")
    /\ UNCHANGED <<initialized, mutex, constructed>>

-----------------------------------------------------------------------------
Inside(c) == Load(c) \/ Lock(c) \/ Check(c) \/ Store(c) \/ Unlock(c)

OnceNext ==
    \/ Ctor \/ CtorFails \/ Dtor
    \/ \E c \in Callers : Call(c) \/ Inside(c) \/ Routine(c) \/ GoOn(c)

OnceSpec == OnceInit /\ [][OnceNext]_onceVars

-----------------------------------------------------------------------------
RoutineBar ==
    IF ~constructed THEN "none"
    ELSE IF \E c \in Callers : at[c] = "routine" THEN "running"
    ELSE IF initialized \/ \E c \in Callers : at[c] = "store" THEN "run"
    ELSE "due"

CallerBar ==
    [c \in Callers |-> IF at[c] \in {"out", "returned"} THEN at[c] ELSE "in"]

Promise == INSTANCE OncePromise WITH routine <- RoutineBar, caller <- CallerBar

(* once.h:27-30: the routine runs exactly once in each life of the once, and
   no caller returns before it is done, whatever the interleaving of the two
   reads of the flag with the lock. *)
ImplementsPromise == Promise!Spec
=============================================================================
