\* A client that comes back to a round of two while players come and go.
CONSTANTS
    PlayerIds = {local, a}
    Local = local
    NoPlayer = NoPlayer
    MaxTime = 0
    MaxPlayers = 2
    MaxServerDelay = 0
    RoomCapacity = 2
    InboxSize = 2
    Rejoins = TRUE

SPECIFICATION MatchSpec
\* A scene handed the object of the other one ends the process.
CHECK_DEADLOCK FALSE

INVARIANT NoUnknownPlayer
INVARIANT BoardShowsOnline
