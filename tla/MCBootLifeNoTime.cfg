CONSTANTS
    Need = 2
    MaxBoots = 2
SPECIFICATION Spec
PROPERTIES BootScreenLeft
CHECK_DEADLOCK FALSE
