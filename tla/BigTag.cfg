\* A tag whose value can be read in one request, but not written.
SPECIFICATION Spec
CONSTANTS
    Tag <- TwoTags
    ScanList <- OneList
    ListOf <- AllOnOne
    Value = {a, b}
    NoValue = NoValue
    BufferLimit <- BigRead
    ReadRequestSize <- Names
    ElementSize <- BigFirst
    StringTag <- NoTag
    TextLength <- Texts
    FirstElements <- Single
    LastElements <- Single
INVARIANTS
    AllTagsTransferred
CHECK_DEADLOCK FALSE
