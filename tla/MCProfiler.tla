----------------------------- MODULE MCProfiler -----------------------------
(* An instance of Profiler: its three threads, and messages of few bytes.   *)
EXTENDS Profiler

MCThreads == {PHP, TIMER, RECORDER}
MCMessages == {<<1, 2>>, <<3>>, <<0, 1>>}
MCLogLevels == {1, 4}
MCConfigLevels == {-1, 0, 2}
=============================================================================
