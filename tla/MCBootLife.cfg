CONSTANTS
    Need = 3
    MaxBoots = 7
SPECIFICATION SpecWithTime
INVARIANTS TypeOK ModePersists FlaggedImageIsThere
PROPERTIES OnlyAskedFor EraseKeepsCount BootSettles
CHECK_DEADLOCK FALSE
