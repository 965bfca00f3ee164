---------------------------- MODULE MCActivation ----------------------------
(* An instance of Activation: a few texts, blocks of memory that the look-ups *)
(* exhaust one after the other, and the bits of align_diff checked against   *)
(* the arithmetic of the model.                                              *)
EXTENDS Activation, Bitwise

CONSTANTS FirstCaller, SecondCaller

MCCallers == {FirstCaller, SecondCaller}

MCWord == 128
MCBuffers == [base : {8, 13}, len : {15, 48, 72, 127}]
MCSizes == 0..40

MCTextLength ==
    [text \in {"", "1", "on", "yes", "Debug", "loud", "agent", "prod", "a:1",
               "8126", "9000", "localhost", "unix:///agent", "1.2"} |->
        CASE text = "" -> 0
          [] text = "1" -> 1
          [] text = "on" -> 2
          [] text \in {"yes", "a:1", "1.2"} -> 3
          [] text \in {"loud", "prod", "8126", "9000"} -> 4
          [] text \in {"Debug", "agent"} -> 5
          [] text = "localhost" -> 9
          [] text = "unix:///agent" -> 13]

MCValues ==
    [name \in Names |->
        CASE name = "DD_AGENT_HOST" -> {"agent"}
          [] name = "DD_ENV" -> {"prod"}
          [] name = "DD_PROFILING_ENABLED" -> {"yes", "loud"}
          [] name = "DD_PROFILING_LOG_LEVEL" -> {"Debug"}
          [] name = "DD_SERVICE" -> {}
          [] name = "DD_TAGS" -> {}
          [] name = "DD_TRACE_AGENT_PORT" -> {"9000"}
          [] name = "DD_TRACE_AGENT_URL" -> {"unix:///agent"}
          [] name = "DD_VERSION" -> {"1.2"}
          [] name = CpuTime -> {"on", ""}
          [] name = CpuOld -> {"1"}]

MCLower(text) == IF text = "Debug" THEN "debug" ELSE text

(* align_diff: (~ptr + 1) & (align - 1), on pointers of eight bits *)
ASSUME MaskIsRemainder ==
    \A align \in {1, 2, 4} \cup Aligns, ptr \in 0..255 :
        ((255 - ptr + 1) % 256) & (align - 1) = AlignDiff(ptr, align)
=============================================================================
