--------------------------- MODULE CollectorPlugin ---------------------------
(***************************************************************************)
(* profiling/plugins/stack_collector_plugin: a timer thread per request    *)
(* that asks the PHP thread, every 10 ms, to sample its own stack.  The    *)
(* two share interrupt_count (atomic) and the engine's vm_interrupt flag,  *)
(* which other extensions set too.  Each access to one of them is a step.  *)
(*                                                                         *)
(* The engine is external: it clears vm_interrupt and then calls the hook  *)
(* (zend_interrupt_function); after an internal function the hook runs     *)
(* without the flag being cleared (execute_internal).                      *)
(***************************************************************************)
EXTENDS Naturals

CONSTANTS
    MaxTicks,       \* bound on the timer's callbacks in a request
    Faults          \* which calls may fail in this instance

ASSUME MaxTicksAssumption == MaxTicks \in Nat
ASSUME FaultsAssumption ==
    Faults \subseteq {"uv_loop_init", "uv_timer_init", "uv_timer_start",
                      "uv_async_init", "pthread_create"}

VARIABLES
    enabled,            \* the plugin's own flag
    recorder_enabled,   \* datadog_php_profiling_recorder_enabled
    vm,                 \* what the PHP thread does
    vm_interrupt,       \* EG(vm_interrupt)
    interrupt_count,    \* thread_globals.interrupt_count
    taken,              \* the local interrupt_count of the hook
    have_uv_loop,
    uv_loop,            \* "closed", or "open": it holds descriptors
    have_thread,
    stop_async,         \* uv_async_send was called, stop_uv_async_cb was not
    timer,              \* what the timer thread does
    last_event_at, previous_event_at,   \* the field, and its local copy
    ticks,              \* callbacks of the timer in this request: the clock
    handled,            \* of these, how many reached a sample or were dropped
    last_sample_at      \* when the last sample was handed to the recorder

shared == <<vm_interrupt, interrupt_count>>
loopvars == <<have_uv_loop, uv_loop, have_thread, stop_async>>
accounts == <<taken, last_event_at, previous_event_at, handled, last_sample_at>>
flags == <<enabled, recorder_enabled>>
vars == <<flags, vm, shared, loopvars, timer, accounts, ticks>>

(* "called": the hook was entered.  "collect": it took a count and walks the
   stack.  "record": it hands the sample over.  "join": in deactivate. *)
VmStates == {"no request", "running", "called", "collect", "record", "join"}

(* "added": incremented the counter from zero, has not set the flag yet. *)
TimerStates == {"none", "online", "added", "exited"}

TypeOK ==
    /\ enabled \in BOOLEAN /\ recorder_enabled \in BOOLEAN
    /\ vm \in VmStates
    /\ vm_interrupt \in BOOLEAN
    /\ interrupt_count \in Nat /\ taken \in Nat
    /\ have_uv_loop \in BOOLEAN /\ uv_loop \in {"closed", "open"}
    /\ have_thread \in BOOLEAN
    /\ stop_async \in BOOLEAN
    /\ timer \in TimerStates
    /\ ticks \in 0..MaxTicks /\ handled \in Nat
    /\ last_event_at \in 0..ticks
    /\ previous_event_at \in 0..ticks
    /\ last_sample_at \in 0..ticks

(* After first activation: either plugin may have been left off. *)
Init ==
    /\ enabled \in BOOLEAN /\ recorder_enabled \in BOOLEAN
    /\ vm = "no request"
    /\ vm_interrupt = FALSE
    /\ interrupt_count = 0 /\ taken = 0
    /\ have_uv_loop = FALSE /\ uv_loop = "closed"
    /\ have_thread = FALSE
    /\ stop_async = FALSE
    /\ timer = "none"
    /\ last_event_at = 0 /\ previous_event_at = 0
    /\ ticks = 0 /\ handled = 0 /\ last_sample_at = 0

-----------------------------------------------------------------------------
(* libuv_activate and the pthread_create that follows.  Once the timer handle
   is initialised the loop can only be closed after the handle: uv_loop_close
   in the error path is refused (UV_EBUSY) and the loop stays open. *)
LoopFails ==
    /\ \/ "uv_loop_init" \in Faults /\ uv_loop' = "closed"
       \/ "uv_timer_init" \in Faults /\ uv_loop' = "closed"
       \/ {"uv_timer_start", "uv_async_init"} \cap Faults # {} /\ uv_loop' = "open"
    /\ have_uv_loop' = FALSE
    /\ UNCHANGED <<have_thread, timer>>

ThreadFails ==
    /\ "pthread_create" \in Faults
    /\ have_uv_loop' = TRUE
    /\ uv_loop' = "open"
    /\ UNCHANGED <<have_thread, timer>>

ThreadStarts ==
    /\ have_uv_loop' = TRUE
    /\ uv_loop' = "open"
    /\ have_thread' = TRUE
    /\ timer' = "online"

\* Time is counted from the start of the request.
ResetTimes ==
    /\ ticks' = 0 /\ handled' = 0 /\ taken' = 0
    /\ last_event_at' = 0 /\ previous_event_at' = 0 /\ last_sample_at' = 0

(* datadog_php_stack_collector_activate, at the start of a request: the engine
   has just reset vm_interrupt, and the last request's thread was joined. *)
Activate ==
    /\ vm = "no request"
    /\ vm' = "running"
    /\ vm_interrupt' = FALSE
    /\ \/ ~enabled /\ UNCHANGED <<interrupt_count, loopvars, timer, accounts, ticks>>
       \/ /\ enabled
          /\ interrupt_count' = 0
          /\ stop_async' = FALSE
          /\ LoopFails \/ ThreadFails \/ ThreadStarts
          /\ ResetTimes
    /\ UNCHANGED flags

-----------------------------------------------------------------------------
(* The timer thread *)

\* Bug variant: the engine is not asked to interrupt.
TickSilent ==
    /\ timer = "online"
    /\ ticks < MaxTicks
    /\ ticks' = ticks + 1
    /\ interrupt_count' = interrupt_count + 1
    /\ UNCHANGED <<flags, vm, vm_interrupt, loopvars, timer, accounts>>

(* datadog_php_stack_collector_collect_cb, up to the atomic increment *)
Tick ==
    /\ timer = "online"
    /\ ticks < MaxTicks
    /\ ticks' = ticks + 1
    /\ interrupt_count' = interrupt_count + 1
    /\ timer' = IF interrupt_count = 0 THEN "added" ELSE "online"
    /\ UNCHANGED <<flags, vm, vm_interrupt, loopvars, accounts>>

SetFlag ==
    /\ timer = "added"
    /\ vm_interrupt' = TRUE
    /\ timer' = "online"
    /\ UNCHANGED <<flags, vm, interrupt_count, loopvars, accounts, ticks>>

(* stop_uv_async_cb, and the end of datadog_php_stack_collector_loop *)
Stop ==
    /\ timer = "online"
    /\ stop_async
    /\ stop_async' = FALSE
    /\ have_uv_loop' = FALSE
    /\ uv_loop' = "closed"
    /\ timer' = "exited"
    /\ UNCHANGED <<flags, vm, shared, have_thread, accounts, ticks>>

-----------------------------------------------------------------------------
(* The PHP thread *)

(* The engine handles an interrupt: it clears the flag before it calls. *)
EngineInterrupt ==
    /\ vm = "running"
    /\ vm_interrupt
    /\ vm_interrupt' = FALSE
    /\ vm' = "called"
    /\ UNCHANGED <<flags, interrupt_count, loopvars, timer, accounts, ticks>>

(* datadog_php_stack_collector_execute_internal sees the flag and leaves it. *)
ExecuteInternal ==
    /\ vm = "running"
    /\ vm_interrupt
    /\ vm' = "called"
    /\ UNCHANGED <<flags, shared, loopvars, timer, accounts, ticks>>

(* Another extension asks for an interrupt of its own. *)
OtherExtension ==
    /\ vm = "running"
    /\ ~vm_interrupt
    /\ vm_interrupt' = TRUE
    /\ UNCHANGED <<flags, vm, interrupt_count, loopvars, timer, accounts, ticks>>

(* datadog_php_stack_collector_interrupt_function, up to the exchange *)
HookIgnores ==
    /\ vm = "called"
    /\ ~enabled \/ ~recorder_enabled
    /\ vm' = "running"
    /\ UNCHANGED <<flags, shared, loopvars, timer, accounts, ticks>>

\* Bug variant: the counter is decremented, not exchanged.
HookTakesOne ==
    /\ vm = "called"
    /\ enabled /\ recorder_enabled
    /\ IF interrupt_count = 0
       THEN /\ vm' = "running"
            /\ UNCHANGED <<accounts, interrupt_count>>
       ELSE /\ vm' = "collect"
            /\ interrupt_count' = interrupt_count - 1
            /\ taken' = 1
            /\ previous_event_at' = last_event_at
            /\ last_event_at' = ticks
            /\ UNCHANGED <<handled, last_sample_at>>
    /\ UNCHANGED <<flags, vm_interrupt, loopvars, timer, ticks>>

\* Bug variant: the counter is read, not exchanged.
HookReads ==
    /\ vm = "called"
    /\ enabled /\ recorder_enabled
    /\ IF interrupt_count = 0
       THEN /\ vm' = "running"
            /\ UNCHANGED accounts
       ELSE /\ vm' = "collect"
            /\ taken' = interrupt_count
            /\ previous_event_at' = last_event_at
            /\ last_event_at' = ticks
            /\ UNCHANGED <<handled, last_sample_at>>
    /\ UNCHANGED <<flags, shared, loopvars, timer, ticks>>

HookTakes ==
    /\ vm = "called"
    /\ enabled /\ recorder_enabled
    /\ interrupt_count' = 0
    /\ IF interrupt_count = 0
       THEN /\ vm' = "running"
            /\ UNCHANGED accounts
       ELSE /\ vm' = "collect"
            /\ taken' = interrupt_count
            /\ previous_event_at' = last_event_at
            /\ last_event_at' = ticks
            /\ UNCHANGED <<handled, last_sample_at>>
    /\ UNCHANGED <<flags, vm_interrupt, loopvars, timer, ticks>>

(* datadog_php_stack_collect: a stack of no PHP frame makes no sample. *)
Collect ==
    /\ vm = "collect"
    /\ \/ vm' = "record" /\ UNCHANGED accounts
       \/ /\ vm' = "running"
          /\ handled' = handled + taken
          /\ taken' = 0
          /\ UNCHANGED <<last_event_at, previous_event_at, last_sample_at>>
    /\ UNCHANGED <<flags, shared, loopvars, timer, ticks>>

(* The call of datadog_php_recorder_plugin_record *)
HandOver ==
    /\ vm = "record"
    /\ vm' = "running"
    /\ handled' = handled + taken
    /\ taken' = 0
    /\ last_sample_at' = last_event_at
    /\ UNCHANGED <<flags, shared, loopvars, timer,
                   last_event_at, previous_event_at, ticks>>

\* Bug variant: the thread is not joined.
DeactivateNoJoin ==
    /\ vm = "running"
    /\ vm' = "no request"
    /\ stop_async' = (enabled /\ have_uv_loop)
    /\ UNCHANGED <<flags, shared, have_uv_loop, uv_loop, have_thread,
                   timer, accounts, ticks>>

\* Bug variant: the loop is not told to stop.
DeactivateSilent ==
    /\ vm = "running"
    /\ vm' = IF enabled /\ have_thread THEN "join" ELSE "no request"
    /\ UNCHANGED <<flags, shared, loopvars, timer, accounts, ticks>>

(* datadog_php_stack_collector_deactivate, up to the join *)
Deactivate ==
    /\ vm = "running"
    /\ IF enabled
       THEN /\ vm' = IF have_thread THEN "join" ELSE "no request"
            /\ stop_async' = have_uv_loop
       ELSE /\ vm' = "no request"
            /\ UNCHANGED stop_async
    /\ UNCHANGED <<flags, shared, have_uv_loop, uv_loop, have_thread,
                   timer, accounts, ticks>>

Join ==
    /\ vm = "join"
    /\ timer = "exited"
    /\ vm' = "no request"
    /\ have_thread' = FALSE
    /\ timer' = "none"
    /\ UNCHANGED <<flags, shared, have_uv_loop, uv_loop, stop_async, accounts, ticks>>

-----------------------------------------------------------------------------
TimerThread == Tick \/ SetFlag \/ Stop
Hook == HookIgnores \/ HookTakes \/ Collect \/ HandOver

Next ==
    \/ Activate
    \/ TimerThread
    \/ EngineInterrupt
    \/ ExecuteInternal
    \/ OtherExtension
    \/ Hook
    \/ Deactivate
    \/ Join

Spec == Init /\ [][Next]_vars

(* Both threads run, libuv delivers the async, and an engine that executes PHP
   keeps looking at vm_interrupt.  Nothing makes the request end, the timer
   fire, or an internal function be called. *)
FairSpec ==
    /\ Spec
    /\ WF_vars(SetFlag)
    /\ WF_vars(Stop)
    /\ WF_vars(EngineInterrupt)
    /\ WF_vars(Hook)
    /\ WF_vars(Join)

-----------------------------------------------------------------------------
Sampling == enabled /\ recorder_enabled

(* The timer only raises the flag when the counter leaves zero, so a count that
   is not zero must have a flag raised, about to be raised, or a hook on its
   way: otherwise no sample would ever be taken again in this request. *)
NoLostInterrupt ==
    Sampling /\ interrupt_count > 0 /\ vm # "no request" =>
        vm_interrupt \/ timer = "added" \/ vm = "called"

(* Every callback of the timer is counted in exactly one sample (or in one that
   was dropped), although the hook resets the counter the timer increments. *)
EveryTickCountedOnce == ticks = handled + taken + interrupt_count

(* Between requests no timer thread is left that would write to the thread's
   globals, and the next activate may overwrite them. *)
TimerInsideRequest == vm = "no request" => timer = "none" /\ ~have_thread

(* Deactivation ends: the loop always gets the request to stop. *)
DeactivateEnds == (vm = "join") ~> (vm = "no request")

(* A count is turned into a sample, unless the request is ended first. *)
TicksSampled ==
    (Sampling /\ vm = "running" /\ interrupt_count > 0)
        ~> (interrupt_count = 0 \/ vm = "join")

(* recorder_plugin.h:22: the wall time of a sample is the time since the last
   sample. *)
WallTimeSinceLastSample == vm = "record" => previous_event_at = last_sample_at
=============================================================================
