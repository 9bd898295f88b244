\* Is every write request dropped when the connection is lost?
SPECIFICATION Spec
CONSTANTS
    Tag <- OneTag
    ScanList <- OneList
    ListOf <- OnIt
    Value = {a, b}
    NoValue = NoValue
    BufferLimit <- OneWrite
    ReadRequestSize <- Names
    ElementSize <- Words
    StringTag <- NoTag
    TextLength <- Texts
    FirstElements <- Single
    LastElements <- Single
INVARIANTS
    NoWriteSurvivesError
CHECK_DEADLOCK FALSE
