\* One record, which gets puts, on one tag, which grows while the IOC runs.
SPECIFICATION RecordFairSpec
CONSTANTS
    Tag <- OneTag
    ScanList <- OneList
    ListOf <- OnIt
    Value = {a, b}
    NoValue = NoValue
    BufferLimit <- Enough
    ReadRequestSize <- Names
    ElementSize <- Words
    StringTag <- NoTag
    TextLength <- Texts
    FirstElements <- Single
    LastElements <- Double
    Record = {r}
    TagOf <- AllOnIt
    Forced = {}
    PutValue = {a, b}
INVARIANTS
    RecordTypeOK Synchronised ChangesAreProcessed PactIsOwed UnsetNeverWritten
PROPERTIES
    UsesTransfer PactEnds
CHECK_DEADLOCK FALSE
