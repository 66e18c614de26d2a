CONSTANTS
    PlayerIds = {local, a, b}
    Local = local
    NoPlayer = NoPlayer
    MaxTime = 1
    MaxPlayers = 2
    MaxServerDelay = 0
    RoomCapacity = 2
    InboxSize = 2
    Rejoins = FALSE

SPECIFICATION MatchSpec
SYMMETRY Symmetry
CHECK_DEADLOCK FALSE

INVARIANT MatchTypeOK
INVARIANT NoFailure
INVARIANT SceneHoldsOneKind
INVARIANT CrownIsCurrent
INVARIANT BoardMatchesRoom
INVARIANT AllFrozenWhileConnecting
PROPERTY FollowsTheRound
