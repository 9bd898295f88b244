\* A tag that gets more elements while the connection is up.
SPECIFICATION Spec
CONSTANTS
    Tag <- OneTag
    ScanList <- OneList
    ListOf <- OnIt
    Value = {a, b}
    NoValue = NoValue
    BufferLimit <- OneWrite
    ReadRequestSize <- Names
    ElementSize <- Words
    StringTag <- NoTag
    TextLength <- Texts
    FirstElements <- Single
    LastElements <- GrowFirst
INVARIANTS
    BuiltAsCounted
CHECK_DEADLOCK FALSE
