CONSTANTS
    PlayerIds = {local, a}
    Local = local
    NoPlayer = NoPlayer
    MaxTime = 0
    MaxPlayers = 2
    MaxServerDelay = 0
    RoomCapacity = 2
    InboxSize = 1
    Rejoins = FALSE

\* Rounds may go on for ever: RoundEnds speaks of those that do not.
SPECIFICATION FairMatchSpec
CHECK_DEADLOCK FALSE

PROPERTY RoundEnds
PROPERTY ThawsAgain
PROPERTY SceneFollowsServer
