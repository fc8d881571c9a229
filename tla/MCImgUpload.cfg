CONSTANTS
    PartBytes = 20
    BootBytes = 5
    WallBytes = 3
    Sector = 4
    Chunk = 2
    BootImages = {b1, b2}
    WallImages = {w1}
    Blank = Blank
    Pad = Pad
    Mixed = Mixed
    Count = Count
    Uploaders = {u1}
    Retries = 2
    MaxUploads = 2
    MaxFaults = 3
    MaxLate = 1
    MaxClicks = 1
    GarbledTotals = {0, 1, 7, 17}
    NoAck = NoAck
SPECIFICATION Spec
INVARIANTS TypeOK HostOkMeansStored CounterSectorSafe
PROPERTIES CommitComplete ResendIdempotent UploadEnds
CHECK_DEADLOCK FALSE
