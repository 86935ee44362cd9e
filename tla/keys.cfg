SPECIFICATION FairSpec
CONSTANTS
    Modes <- MCModes
    Keyboard <- MCKeyboard
    MaxKeys = 3
INVARIANTS
    DecodedIsTyped
PROPERTIES
    EveryKeyHandled
    HangupStops
CHECK_DEADLOCK FALSE
