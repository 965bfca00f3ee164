----------------------------- MODULE OncePromise -----------------------------
(***************************************************************************)
(* What once.h promises its users, over any number of constructions of the *)
(* same once: "The `init_routine` will be called exactly once.  Other      *)
(* callers will return only after `init_routine` has been called."         *)
(***************************************************************************)
CONSTANT Callers

VARIABLES
    routine,    \* "none" (no once), "due", "running", "run"
    caller      \* each caller: "out" of datadog_php_once, "in", or "returned"

vars == <<routine, caller>>

Init ==
    /\ routine = "none"
    /\ caller = [c \in Callers |-> "out"]

Construct ==
    /\ routine = "none"
    /\ routine' = "due"
    /\ UNCHANGED caller

(* Not thread safe: nobody may be inside, or go on relying on the routine. *)
Destruct ==
    /\ routine # "none"
    /\ \A c \in Callers : caller[c] = "out"
    /\ routine' = "none"
    /\ UNCHANGED caller

Enter(c) ==
    /\ routine # "none"
    /\ caller[c] = "out"
    /\ caller' = [caller EXCEPT ![c] = "in"]
    /\ UNCHANGED routine

\* One of the callers runs the routine, once; the others wait meanwhile.
Begin ==
    /\ routine = "due"
    /\ \E c \in Callers : caller[c] = "in"
    /\ routine' = "running"
    /\ UNCHANGED caller

End ==
    /\ routine = "running"
    /\ routine' = "run"
    /\ UNCHANGED caller

Return(c) ==
    /\ routine = "run"
    /\ caller[c] = "in"
    /\ caller' = [caller EXCEPT ![c] = "returned"]
    /\ UNCHANGED routine

GoOn(c) ==
    /\ caller[c] = "returned"
    /\ caller' = [caller EXCEPT ![c] = "out"]
    /\ UNCHANGED routine

Next ==
    \/ Construct \/ Destruct \/ Begin \/ End
    \/ \E c \in Callers : Enter(c) \/ Return(c) \/ GoOn(c)

Spec == Init /\ [][Next]_vars
=============================================================================
