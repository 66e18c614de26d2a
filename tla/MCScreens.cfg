\* A game, its result or its end, the main menu and the lobby again.
SPECIFICATION FairSpec
CONSTANTS
    p1 = p1
    p2 = p2
    Players = {p1, p2}
    Local = p1
    MaxNodes = 12
    EarlyPackets = FALSE
    LateAnswers = FALSE
    SwitchesPerFrame = 1
CHECK_DEADLOCK FALSE
INVARIANT TypeOK
INVARIANT OnlyStageRuns
INVARIANT ShownOnStage
PROPERTY TouchesReturn
PROPERTY GameIsLeft
