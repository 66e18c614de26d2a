CONSTANTS
    Platforms <- SmallHill
    MaxX = 7
    MaxY = 2
    MaxMove = 2

SPECIFICATION Spec

INVARIANT TypeOK
INVARIANT OneMover
INVARIANT StaysOnPlatform
INVARIANT ShowsItsState
PROPERTY NoOvershoot
PROPERTY TakenOverInPlace
