CONSTANTS
    MaxRequests = 2
    MaxTaps = 2

SPECIFICATION FairSpec
\* A process that has died does nothing more.
CHECK_DEADLOCK FALSE

INVARIANT TypeOK
INVARIANT GameHearsItsServer
INVARIANT OneRoomAnswerCounts
PROPERTY LobbyAnswers
