\* Any number of requests of up to four ticks each; every set-up call may fail.
CONSTANTS
    MaxTicks = 4
    Faults = {"uv_loop_init", "uv_timer_init", "uv_timer_start", "uv_async_init", "pthread_create"}
SPECIFICATION FairSpec
INVARIANT NoLostInterrupt
INVARIANT EveryTickCountedOnce
INVARIANT TimerInsideRequest
PROPERTY DeactivateEnds
PROPERTY TicksSampled
