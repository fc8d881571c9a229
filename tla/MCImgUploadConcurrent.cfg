CONSTANTS
    PartBytes = 20
    BootBytes = 5
    WallBytes = 3
    Sector = 4
    Chunk = 2
    BootImages = {b1, b2}
    WallImages = {}
    Blank = Blank
    Pad = Pad
    Mixed = Mixed
    Count = Count
    Uploaders = {u1, u2}
    Retries = 2
    MaxUploads = 2
    MaxFaults = 0
    MaxLate = 0
    MaxClicks = 0
    GarbledTotals = {0, 1, 7, 17}
    NoAck = NoAck
SPECIFICATION Spec
PROPERTIES CommitComplete
CHECK_DEADLOCK FALSE
