------------------------ MODULE CollectorPluginProofs ------------------------
(* Proofs about CollectorPlugin, for any number of requests and of ticks.   *)
EXTENDS CollectorPlugin, TLAPS

(* The two halves of TypeOK: what the provers calculate with, and the rest. *)
NumbersOK ==
    /\ ticks \in 0..MaxTicks
    /\ interrupt_count \in Nat
    /\ taken \in Nat
    /\ handled \in Nat
    /\ last_event_at \in 0..ticks
    /\ previous_event_at \in 0..ticks
    /\ last_sample_at \in 0..ticks

StatesOK ==
    /\ enabled \in BOOLEAN /\ recorder_enabled \in BOOLEAN
    /\ vm \in VmStates
    /\ vm_interrupt \in BOOLEAN
    /\ have_uv_loop \in BOOLEAN /\ uv_loop \in {"closed", "open"}
    /\ have_thread \in BOOLEAN
    /\ stop_async \in BOOLEAN
    /\ timer \in TimerStates

(* have_thread says whether a timer thread was created and not yet joined; only
   an enabled plugin creates one and only a request that has one waits. *)
ThreadInv ==
    /\ TimerInsideRequest
    /\ have_thread => timer # "none"
    /\ timer # "none" => have_thread
    /\ vm = "join" => have_thread
    /\ timer # "none" => enabled

(* A count is out of the counter only while the hook works on it. *)
TicksInv ==
    /\ EveryTickCountedOnce
    /\ vm \notin {"collect", "record"} => taken = 0

Inv == NumbersOK /\ StatesOK /\ NoLostInterrupt /\ ThreadInv /\ TicksInv

LEMMA InitInv == ASSUME Init PROVE Inv
<1>1. /\ ticks = 0 /\ handled = 0 /\ taken = 0 /\ interrupt_count = 0
      /\ last_event_at = 0 /\ previous_event_at = 0 /\ last_sample_at = 0
  BY DEF Init
<1>2. NumbersOK
  BY <1>1, MaxTicksAssumption DEF NumbersOK
<1>3. StatesOK
  BY DEF Init, StatesOK, VmStates, TimerStates
<1>4. NoLostInterrupt
  BY DEF Init, NoLostInterrupt
<1>5. ThreadInv
  BY DEF Init, ThreadInv, TimerInsideRequest
<1>6. TicksInv
  BY <1>1 DEF TicksInv, EveryTickCountedOnce
<1> QED
  BY <1>2, <1>3, <1>4, <1>5, <1>6 DEF Inv

(* A request starts from zero, with its thread or without. *)
LEMMA ActivateStarts ==
    ASSUME Activate, enabled
    PROVE  /\ ticks' = 0 /\ handled' = 0 /\ taken' = 0 /\ interrupt_count' = 0
           /\ last_event_at' = 0 /\ previous_event_at' = 0 /\ last_sample_at' = 0
BY DEF Activate, ResetTimes

LEMMA NumbersStep == ASSUME NumbersOK, [Next]_vars PROVE NumbersOK'
<1>1. CASE Activate
  <2>1. CASE ~enabled
    BY <1>1, <2>1 DEF Activate, accounts, NumbersOK
  <2>2. CASE enabled
    BY <1>1, <2>2, ActivateStarts, MaxTicksAssumption DEF NumbersOK
  <2> QED
    BY <2>1, <2>2
<1>2. CASE Tick
  <2>1. /\ ticks < MaxTicks /\ ticks' = ticks + 1
        /\ interrupt_count' = interrupt_count + 1
        /\ UNCHANGED accounts
    BY <1>2 DEF Tick
  <2> QED
    BY <2>1, MaxTicksAssumption DEF accounts, NumbersOK
<1>3. CASE HookTakes
  <2>1. interrupt_count' = 0 /\ ticks' = ticks
    BY <1>3 DEF HookTakes
  <2>2. CASE interrupt_count = 0
    BY <1>3, <2>1, <2>2 DEF HookTakes, accounts, NumbersOK
  <2>3. CASE interrupt_count # 0
    <3>1. /\ taken' = interrupt_count
          /\ previous_event_at' = last_event_at
          /\ last_event_at' = ticks
          /\ UNCHANGED <<handled, last_sample_at>>
      BY <1>3, <2>3 DEF HookTakes
    <3> QED
      BY <2>1, <3>1, MaxTicksAssumption DEF NumbersOK
  <2> QED
    BY <2>2, <2>3
<1>4. CASE Collect \/ HandOver
  <2>1. /\ ticks' = ticks /\ interrupt_count' = interrupt_count
        /\ last_event_at' = last_event_at
        /\ previous_event_at' = previous_event_at
        /\ last_sample_at' \in {last_sample_at, last_event_at}
        /\ \/ handled' = handled /\ taken' = taken
           \/ handled' = handled + taken /\ taken' = 0
    BY <1>4 DEF Collect, HandOver, accounts, shared
  <2> QED
    BY <2>1 DEF NumbersOK
<1>5. CASE \/ SetFlag \/ Stop \/ EngineInterrupt \/ ExecuteInternal
           \/ OtherExtension \/ HookIgnores \/ Deactivate \/ Join
           \/ UNCHANGED vars
  <2>1. UNCHANGED <<ticks, interrupt_count, accounts>>
    BY <1>5 DEF SetFlag, Stop, EngineInterrupt, ExecuteInternal, OtherExtension,
                HookIgnores, Deactivate, Join, vars, shared
  <2> QED
    BY <2>1 DEF accounts, NumbersOK
<1> QED
  BY <1>1, <1>2, <1>3, <1>4, <1>5 DEF Next, TimerThread, Hook

LEMMA StatesStep == ASSUME StatesOK, [Next]_vars PROVE StatesOK'
<1>1. CASE Activate
  BY <1>1 DEF Activate, LoopFails, ThreadFails, ThreadStarts, flags, loopvars,
              StatesOK, VmStates, TimerStates
<1>2. CASE TimerThread
  BY <1>2 DEF TimerThread, Tick, SetFlag, Stop, flags, shared, loopvars,
              StatesOK, TimerStates
<1>3. CASE EngineInterrupt \/ ExecuteInternal \/ OtherExtension
  BY <1>3 DEF EngineInterrupt, ExecuteInternal, OtherExtension, flags, shared,
              loopvars, StatesOK, VmStates
<1>4. CASE Hook
  <2>1. vm' \in VmStates
    BY <1>4 DEF Hook, HookIgnores, HookTakes, Collect, HandOver, VmStates
  <2> QED
    BY <1>4, <2>1 DEF Hook, HookIgnores, HookTakes, Collect, HandOver, flags,
                      shared, loopvars, StatesOK
<1>5. CASE Deactivate
  BY <1>5 DEF Deactivate, flags, shared, StatesOK, VmStates
<1>6. CASE Join
  BY <1>6 DEF Join, flags, shared, StatesOK, VmStates, TimerStates
<1>7. CASE UNCHANGED vars
  BY <1>7 DEF vars, flags, shared, loopvars, StatesOK
<1> QED
  BY <1>1, <1>2, <1>3, <1>4, <1>5, <1>6, <1>7 DEF Next

LEMMA ThreadStep == ASSUME ThreadInv, [Next]_vars PROVE ThreadInv'
<1>1. CASE Activate
  <2>1. timer = "none" /\ ~have_thread /\ vm' = "running" /\ enabled' = enabled
    BY <1>1 DEF Activate, flags, ThreadInv, TimerInsideRequest
  <2>2. CASE UNCHANGED <<have_thread, timer>>
    BY <2>1, <2>2 DEF ThreadInv, TimerInsideRequest
  <2>3. CASE enabled /\ ThreadStarts
    BY <2>1, <2>3 DEF ThreadStarts, ThreadInv, TimerInsideRequest
  <2> QED
    BY <1>1, <2>2, <2>3 DEF Activate, LoopFails, ThreadFails, loopvars
<1>2. CASE TimerThread
  <2>1. /\ timer # "none" /\ timer' # "none"
        /\ UNCHANGED <<vm, have_thread, enabled>>
    BY <1>2 DEF TimerThread, Tick, SetFlag, Stop, loopvars, flags
  <2> QED
    BY <2>1 DEF ThreadInv, TimerInsideRequest
<1>3. CASE EngineInterrupt \/ ExecuteInternal \/ OtherExtension \/ Hook
  <2>1. /\ vm # "no request" /\ vm' \notin {"no request", "join"}
        /\ UNCHANGED <<timer, have_thread, enabled>>
    BY <1>3 DEF EngineInterrupt, ExecuteInternal, OtherExtension, Hook,
                HookIgnores, HookTakes, Collect, HandOver, loopvars, flags
  <2> QED
    BY <2>1 DEF ThreadInv, TimerInsideRequest
<1>4. CASE Deactivate
  <2>1. UNCHANGED <<timer, have_thread, enabled>>
    BY <1>4 DEF Deactivate, flags
  <2>2. CASE have_thread
    <3>1. enabled /\ vm' = "join"
      BY <1>4, <2>2 DEF Deactivate, ThreadInv
    <3> QED
      BY <2>1, <2>2, <3>1 DEF ThreadInv, TimerInsideRequest
  <2>3. CASE ~have_thread
    <3>1. timer = "none" /\ vm' = "no request"
      BY <1>4, <2>3 DEF Deactivate, ThreadInv
    <3> QED
      BY <2>1, <2>3, <3>1 DEF ThreadInv, TimerInsideRequest
  <2> QED
    BY <2>2, <2>3
<1>5. CASE Join
  BY <1>5 DEF Join, flags, ThreadInv, TimerInsideRequest
<1>6. CASE UNCHANGED vars
  BY <1>6 DEF vars, flags, loopvars, ThreadInv, TimerInsideRequest
<1> QED
  BY <1>1, <1>2, <1>3, <1>4, <1>5, <1>6 DEF Next

LEMMA InterruptStep ==
    ASSUME Inv, [Next]_vars
    PROVE  NoLostInterrupt'
<1>0. interrupt_count \in Nat
  BY DEF Inv, NumbersOK
<1>1. CASE Activate
  <2>1. CASE enabled
    <3>1. ~(interrupt_count' > 0)
      BY <1>1, <2>1, ActivateStarts
    <3> QED
      BY <3>1 DEF NoLostInterrupt
  <2>2. CASE ~enabled
    BY <1>1, <2>2 DEF Activate, flags, NoLostInterrupt, Sampling
  <2> QED
    BY <2>1, <2>2
<1>2. CASE Tick
  <2>1. CASE interrupt_count = 0
    <3>1. timer' = "added"
      BY <1>2, <2>1 DEF Tick
    <3> QED
      BY <3>1 DEF NoLostInterrupt
  <2>2. CASE interrupt_count # 0
    <3>1. interrupt_count > 0
      BY <1>0, <2>2
    <3>2. timer # "added" /\ UNCHANGED <<flags, vm, vm_interrupt>>
      BY <1>2 DEF Tick
    <3> QED
      BY <3>1, <3>2 DEF Inv, NoLostInterrupt, Sampling, flags
  <2> QED
    BY <2>1, <2>2
<1>3. CASE SetFlag \/ Stop \/ EngineInterrupt \/ ExecuteInternal
           \/ OtherExtension \/ HookIgnores \/ Collect \/ HandOver
           \/ Deactivate \/ Join \/ UNCHANGED vars
  <2>1. UNCHANGED <<flags, interrupt_count>>
    BY <1>3 DEF SetFlag, Stop, EngineInterrupt, ExecuteInternal, OtherExtension,
                HookIgnores, Collect, HandOver, Deactivate, Join, vars, shared
  <2>2. vm_interrupt' \/ timer' = "added" \/ vm' = "called"
            \/ vm' = "no request" \/ ~Sampling
            \/ (/\ vm_interrupt => vm_interrupt'
                /\ timer = "added" => timer' = "added"
                /\ vm # "called" /\ vm # "no request")
            \/ UNCHANGED <<vm_interrupt, timer, vm>>
    BY <1>3 DEF SetFlag, Stop, EngineInterrupt, ExecuteInternal, OtherExtension,
                HookIgnores, Collect, HandOver, Deactivate, Join, vars, shared,
                Sampling
  <2> QED
    BY <2>1, <2>2 DEF Inv, NoLostInterrupt, Sampling, flags
<1>4. CASE HookTakes
  <2>1. ~(interrupt_count' > 0)
    BY <1>4 DEF HookTakes
  <2> QED
    BY <2>1 DEF NoLostInterrupt
<1> QED
  BY <1>1, <1>2, <1>3, <1>4 DEF Next, TimerThread, Hook

LEMMA TicksStep ==
    ASSUME Inv, [Next]_vars
    PROVE  TicksInv'
<1>0. /\ interrupt_count \in Nat /\ taken \in Nat /\ handled \in Nat
      /\ ticks \in Nat
      /\ ticks = handled + taken + interrupt_count
      /\ vm \notin {"collect", "record"} => taken = 0
  BY MaxTicksAssumption
     DEF Inv, NumbersOK, TicksInv, EveryTickCountedOnce
<1> USE DEF TicksInv, EveryTickCountedOnce
<1>1. CASE Activate
  <2>1. CASE ~enabled
    <3>1. UNCHANGED <<interrupt_count, taken, handled, ticks>> /\ taken = 0
      BY <1>0, <1>1, <2>1 DEF Activate, accounts
    <3> QED
      BY <1>0, <3>1
  <2>2. CASE enabled
    BY <1>1, <2>2, ActivateStarts
  <2> QED
    BY <2>1, <2>2
<1>2. CASE Tick
  <2>1. /\ ticks' = ticks + 1 /\ interrupt_count' = interrupt_count + 1
        /\ UNCHANGED <<handled, taken, vm>>
    BY <1>2 DEF Tick, accounts
  <2> QED
    BY <1>0, <2>1
<1>3. CASE SetFlag \/ Stop \/ EngineInterrupt \/ ExecuteInternal
           \/ OtherExtension \/ HookIgnores \/ Deactivate \/ Join
           \/ UNCHANGED vars
  <2>1. /\ UNCHANGED <<interrupt_count, taken, handled, ticks>>
        /\ vm \notin {"collect", "record"} \/ vm' = vm
    BY <1>3 DEF SetFlag, Stop, EngineInterrupt, ExecuteInternal, OtherExtension,
                HookIgnores, Deactivate, Join, vars, shared, accounts
  <2> QED
    BY <1>0, <2>1
<1>4. CASE HookTakes
  <2>1. /\ UNCHANGED <<handled, ticks>> /\ interrupt_count' = 0 /\ taken = 0
        /\ \/ interrupt_count = 0 /\ taken' = taken
           \/ vm' = "collect" /\ taken' = interrupt_count
    BY <1>0, <1>4 DEF HookTakes, accounts
  <2> QED
    BY <1>0, <2>1
<1>5. CASE Collect \/ HandOver
  <2>1. /\ UNCHANGED <<interrupt_count, ticks>>
        /\ \/ vm' = "record" /\ handled' = handled /\ taken' = taken
           \/ handled' = handled + taken /\ taken' = 0
    BY <1>5 DEF Collect, HandOver, accounts, shared
  <2> QED
    BY <1>0, <2>1
<1> QED
  BY <1>1, <1>2, <1>3, <1>4, <1>5 DEF Next, TimerThread, Hook

(* stack_collector_plugin.c, for any number of requests: the timer and the PHP
   thread never leave a count that nobody will look at, every callback of the
   timer is counted in one sample, and no timer thread outlives its request. *)
THEOREM SamplerInvariant ==
    Spec => [](/\ TypeOK
               /\ NoLostInterrupt
               /\ EveryTickCountedOnce
               /\ TimerInsideRequest)
<1>1. Init => Inv
  BY InitInv
<1>2. Inv /\ [Next]_vars => Inv'
  BY NumbersStep, StatesStep, InterruptStep, ThreadStep, TicksStep DEF Inv
<1>3. Inv => /\ TypeOK
             /\ NoLostInterrupt
             /\ EveryTickCountedOnce
             /\ TimerInsideRequest
  BY DEF Inv, TypeOK, NumbersOK, StatesOK, ThreadInv, TicksInv
<1> QED
  BY <1>1, <1>2, <1>3, PTL DEF Spec
=============================================================================
