\* Two hits and two crashes may be animated at once.
CONSTANTS
    MaxPlace = 0
    Beyond = 0
    MovingStep = 1
    MaxStride = 1
    MaxActions = 2

SPECIFICATION FairSpec

INVARIANT ActionOwnsPosition
INVARIANT LeadIsReturned
PROPERTY HitEnds
PROPERTY CrashEnds
