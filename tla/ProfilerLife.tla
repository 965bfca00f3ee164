---------------------------- MODULE ProfilerLife ----------------------------
(***************************************************************************)
(* What the profiler promises its engine over any number of lives in one   *)
(* process: whether it is on is decided once in each life, at the first    *)
(* request, and forgotten by the next startup; its threads live inside the *)
(* life, the timer inside a request; the runtime id is settled with the    *)
(* decision.                                                               *)
(***************************************************************************)
VARIABLES
    phase,          \* "down", "up", "request" (its hooks may run), "ending"
    decision,       \* "none" yet, "on", "off"
    identity,       \* the runtime id: "nil" or "v4"
    recorder,       \* "none" in this life, "alive", "gone"
    timer           \* the timer thread is alive

vars == <<phase, decision, identity, recorder, timer>>

Init ==
    /\ phase = "down"
    /\ decision = "none" /\ identity = "nil"
    /\ recorder = "none" /\ timer = FALSE

Start ==
    /\ phase = "down"
    /\ phase' = "up"
    /\ decision' = "none" /\ identity' = "nil"
    /\ UNCHANGED <<recorder, timer>>

Decide ==
    /\ phase = "up" /\ decision = "none"
    /\ \/ decision' = "off" /\ UNCHANGED identity
       \/ decision' = "on" /\ identity' \in {"nil", "v4"}
    /\ UNCHANGED <<phase, recorder, timer>>

RecorderBegins ==
    /\ phase = "up" /\ decision = "on" /\ recorder = "none"
    /\ recorder' = "alive"
    /\ UNCHANGED <<phase, decision, identity, timer>>

RecorderEnds ==
    /\ recorder = "alive"
    /\ recorder' = "gone"
    /\ UNCHANGED <<phase, decision, identity, timer>>

RequestBegins ==
    /\ phase = "up" /\ decision # "none"
    /\ phase' = "request"
    /\ UNCHANGED <<decision, identity, recorder, timer>>

TimerBegins ==
    /\ phase = "request" /\ decision = "on" /\ ~timer
    /\ timer' = TRUE
    /\ UNCHANGED <<phase, decision, identity, recorder>>

TimerEnds ==
    /\ timer
    /\ timer' = FALSE
    /\ UNCHANGED <<phase, decision, identity, recorder>>

RequestEnds ==
    /\ phase = "request" /\ ~timer
    /\ phase' = "up"
    /\ UNCHANGED <<decision, identity, recorder, timer>>

End ==
    /\ phase = "up"
    /\ phase' = "ending"
    /\ UNCHANGED <<decision, identity, recorder, timer>>

Stop ==
    /\ phase = "ending" /\ recorder # "alive"
    /\ phase' = "down"
    /\ recorder' = "none"
    /\ UNCHANGED <<decision, identity, timer>>

Next ==
    \/ Start \/ Decide \/ RecorderBegins \/ RecorderEnds
    \/ RequestBegins \/ TimerBegins \/ TimerEnds \/ RequestEnds
    \/ End \/ Stop

Spec == Init /\ [][Next]_vars
=============================================================================
