\* A device may keep a chain and call nothing, and the walk ends.
SPECIFICATION ChainsSpec
CONSTANTS
    Lengths <- SmallLengths
    MaxSize = 3
INVARIANTS
    UsedLengthExact
    TransfersExact
    WalkFollowsChain
PROPERTIES
    LoopsEnd
CHECK_DEADLOCK FALSE
