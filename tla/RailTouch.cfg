\* Three turns, two of them rendered, two fingers; after two gestures nothing
\* is left to happen.
SPECIFICATION Spec
CONSTANTS
    Fingers = {1, 2}
    Turns = 3
    Window = 2
    Text <- MCText
    SameAfter = 1
    MaxPolls = 2
    MaxGestures = 2
INVARIANTS CardTellsTheTurn HeldNeverNavigates
PROPERTY HiddenStaysHidden
CHECK_DEADLOCK FALSE
