\* The recorder thread may read the enabled flag before it is set.
CONSTANTS
    Workers = {w1}
    Messages = {m1, m2}
    Null = Null
    NoItem = NoItem
    Sender = s
    Receiver = r
    Capacity = 1
    MaxSamples = 2
    Faults = {}
SPECIFICATION Spec
INVARIANT EnabledMeansOnline
CHECK_DEADLOCK FALSE
