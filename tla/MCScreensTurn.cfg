\* The round changes scene while the page that enters it still turns.
SPECIFICATION Spec
CONSTANTS
    p1 = p1
    p2 = p2
    Players = {p1, p2}
    Local = p1
    MaxNodes = 8
    EarlyPackets = TRUE
    LateAnswers = FALSE
    SwitchesPerFrame = 1
CHECK_DEADLOCK FALSE
INVARIANT StageIsEntered
