\* The exporter cannot be created.
CONSTANTS
    Workers = {w1}
    Messages = {m1, m2}
    Null = Null
    NoItem = NoItem
    Sender = s
    Receiver = r
    Capacity = 1
    MaxSamples = 2
    Faults = {"exporter"}
SPECIFICATION Spec
INVARIANT ChannelReleased
CHECK_DEADLOCK FALSE
