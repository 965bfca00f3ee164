\* Any number of lives; messages of one part, of two, and with an empty part.
CONSTANTS
    Threads <- MCThreads
    Messages <- MCMessages
    LogLevels <- MCLogLevels
    ConfigLevels <- MCConfigLevels
    MaxTries = 3
SPECIFICATION Spec
INVARIANT TypeOK
INVARIANT LinesIntact
INVARIANT NothingUsedAfterItsEnd
PROPERTY ImplementsLife
