\* Two callers, any number of lives; the memory runs out at each look-up.
CONSTANTS
    FirstCaller = c1
    SecondCaller = c2
    Callers <- MCCallers
    Word <- MCWord
    Buffers <- MCBuffers
    Sizes <- MCSizes
    Values <- MCValues
    TextLength <- MCTextLength
    Lower <- MCLower
SPECIFICATION FairSpec
INVARIANT TypeOK
INVARIANT BlocksSound
INVARIANT SettingsKept
PROPERTY ImplementsPromise
PROPERTY CallersReturn
