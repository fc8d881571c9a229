CONSTANTS
    FadeFrames = 2
    SlideFrames = 3
    MaxCmds = 1
SPECIFICATION Spec
INVARIANTS UiInPlace
CHECK_DEADLOCK FALSE
