CONSTANTS
    FadeFrames = 1
    SlideFrames = 2
    MaxCmds = 3
SPECIFICATION Spec
PROPERTIES OffShowsClock
CHECK_DEADLOCK FALSE
