CONSTANTS
    FadeFrames = 2
    SlideFrames = 3
    MaxCmds = 3
SPECIFICATION Spec
INVARIANTS TypeOK AtRest NeverBoth NewImageBound
PROPERTIES ClockReturns Alternates
CHECK_DEADLOCK FALSE
