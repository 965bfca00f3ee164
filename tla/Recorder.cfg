\* The PHP thread, two slots, one address more than the memory bound, and every
\* call that can fail failing at will.
CONSTANTS
    Workers = {w1}
    Messages = {m1, m2, m3, m4, m5}
    Null = Null
    NoItem = NoItem
    Sender = s
    Receiver = r
    Capacity = 2
    MaxSamples = 2
    Faults = {"channel", "exporter", "thread", "profile", "calloc"}
SPECIFICATION ThreadsSpec
INVARIANT TypeOK
INVARIANT OneOwner
INVARIANT MessagesBounded
INVARIANT ExporterOutlivesUploads
INVARIANT ChannelThere
INVARIANT NoSampleTwice
PROPERTY NoSpinning
PROPERTY ImplementsPipeline
PROPERTY ShutdownEnds
PROPERTY SamplesUploaded
CHECK_DEADLOCK FALSE
