\* A stack without a PHP frame between two samples.
CONSTANTS
    MaxTicks = 3
    Faults = {}
SPECIFICATION Spec
INVARIANT WallTimeSinceLastSample
