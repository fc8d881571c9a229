CONSTANTS
    Need = 2
    MaxBoots = 3
SPECIFICATION Spec
PROPERTIES RequestKept
CHECK_DEADLOCK FALSE
