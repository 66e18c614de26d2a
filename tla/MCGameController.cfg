\* Two players, times of 0 and 1, lists of at most two players and a server
\* delay of one frame: enough for a tie, a change of leader and a freeze.
CONSTANTS
    PlayerIds = {p1, p2}
    NoPlayer = NoPlayer
    MaxTime = 1
    MaxPlayers = 2
    MaxServerDelay = 1

SPECIFICATION Spec
SYMMETRY Symmetry
\* A failed assertion ends the process.
CHECK_DEADLOCK FALSE

INVARIANT TypeOK
INVARIANT AtMostOneLeader
INVARIANT FrozenOnlyWhileConnecting
INVARIANT StateMatchesScene
PROPERTY ResultIsFinal
