CONSTANTS
    MaxRequests = 2
    MaxTaps = 2

SPECIFICATION Spec
\* A process that has died does nothing more.
CHECK_DEADLOCK FALSE

INVARIANT ResultPlayersAreKnown
