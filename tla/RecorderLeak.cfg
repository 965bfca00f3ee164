\* Samples still queued at module shutdown.
CONSTANTS
    Workers = {w1}
    Messages = {m1, m2}
    Null = Null
    NoItem = NoItem
    Sender = s
    Receiver = r
    Capacity = 1
    MaxSamples = 2
    Faults = {}
SPECIFICATION Spec
INVARIANT MessagesFreed
CHECK_DEADLOCK FALSE
