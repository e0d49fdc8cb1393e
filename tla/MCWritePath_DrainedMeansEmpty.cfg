SPECIFICATION Spec
CONSTANTS
    NBatches = 4
    Offset <- MCOffset
    Capacity = 4
INVARIANT
    DrainedMeansEmpty
