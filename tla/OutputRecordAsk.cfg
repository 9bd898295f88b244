\* Nobody puts values: does the record write?
SPECIFICATION RecordSpec
CONSTANTS
    Tag <- OneTag
    ScanList <- OneList
    ListOf <- OnIt
    Value = {a, b}
    NoValue = NoValue
    BufferLimit <- Enough
    ReadRequestSize <- Names
    ElementSize <- Words
    StringTag <- NoTag
    TextLength <- Texts
    FirstElements <- Single
    LastElements <- Double
    Record = {r}
    TagOf <- AllOnIt
    Forced = {}
    PutValue = {}
INVARIANTS
    NoWriteWithoutPut
CHECK_DEADLOCK FALSE
