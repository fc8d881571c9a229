CONSTANTS
    NSec = 3
    Cap = 3
    str = str
    num = num
    loop = loop
    http = http
    Keys = {str, num}
    Vals = {1, 2}
    MaxTears = 1
    None = None
    Order <- OrderDef
    Strings = {str}
    Tasks = {loop, http}
    Changes <- ChangesDef
    Default = 1
    MaxResets = 1
    MaxAfter = 2
SPECIFICATION Spec
INVARIANTS TypeOK RoomForAll AnswersRight SettingsAgree
PROPERTIES StoreKept StoreSettles
CHECK_DEADLOCK FALSE
