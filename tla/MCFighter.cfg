CONSTANTS
    MaxPlace = 1
    Beyond = 1
    MovingStep = 1
    MaxStride = 2
    MaxActions = 1

SPECIFICATION Spec

INVARIANT TypeOK
INVARIANT FrozenMeansPaused
INVARIANT EatsAlone
PROPERTY FollowComesNearer
