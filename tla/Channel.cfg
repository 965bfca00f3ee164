\* Three sender handles (the first may be cloned, and so may a clone), two items
\* and two slots: full, empty and in between.
CONSTANTS
    Senders = {s1, s2, s3}
    FirstSender = s1
    Receiver = r
    Items = {i1, i2}
    NoItem = NoItem
    Capacity = 2
    CountMod = 4
SPECIFICATION ThreadsSpec
INVARIANT TypeOK
INVARIANT RefCountsExact
INVARIANT NoUseAfterFree
INVARIANT OneDestroyer
INVARIANT NoLostWakeup
PROPERTY ImplementsMailbox
PROPERTY ItemWakesReceiver
PROPERTY RecvReturns
CHECK_DEADLOCK FALSE
