\* Three distinct pointers on a ring of three slots: both indices go round at
\* every fill level and from every starting slot.
CONSTANTS
    Items = {p1, p2, p3}
    NoItem = NoItem
    Capacity = 3
SPECIFICATION Spec
INVARIANT IndicesAgree
PROPERTY ImplementsFifo
