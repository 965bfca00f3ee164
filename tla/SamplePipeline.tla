---------------------------- MODULE SamplePipeline ----------------------------
(***************************************************************************)
(* What the recorder plugin promises the sampler (recorder_plugin.h:15-18, *)
(* recorder_plugin.c:49-53): an accepted sample is held once, in bounded   *)
(* memory, is put into the profile once unless memory runs out, and a      *)
(* profile is reported and emptied as a whole.  Samples are only counted.  *)
(***************************************************************************)
EXTENDS Naturals

CONSTANTS
    Bound,      \* how many accepted samples may wait
    Limit       \* a profile with more samples than this counts as this many

VARIABLES
    accepting,      \* samples are accepted
    pending,        \* accepted, not yet in the profile
    profile         \* samples in the current profile

vars == <<accepting, pending, profile>>

Init ==
    /\ accepting = FALSE
    /\ pending = 0
    /\ profile = 0

Open ==
    /\ ~accepting
    /\ accepting' = TRUE
    /\ UNCHANGED <<pending, profile>>

Accept ==
    /\ accepting
    /\ pending < Bound
    /\ pending' = pending + 1
    /\ UNCHANGED <<accepting, profile>>

Aggregate ==
    /\ pending > 0
    /\ pending' = pending - 1
    /\ profile' = IF profile < Limit THEN profile + 1 ELSE profile
    /\ UNCHANGED accepting

Lose ==
    /\ pending > 0
    /\ pending' = pending - 1
    /\ UNCHANGED <<accepting, profile>>

Report ==
    /\ profile > 0
    /\ profile' = 0
    /\ UNCHANGED <<accepting, pending>>

Close ==
    /\ accepting
    /\ accepting' = FALSE
    /\ UNCHANGED <<pending, profile>>

Next == Open \/ Accept \/ Aggregate \/ Lose \/ Report \/ Close

Spec == Init /\ [][Next]_vars
=============================================================================
