\* Two tags on one list, the second one a string.  Two reads fit into one transfer; a write next to a
\* read does not, and waits for the next one.
SPECIFICATION FairSpec
CONSTANTS
    Tag <- TwoTags
    ScanList <- OneList
    ListOf <- AllOnOne
    Value = {a, b}
    NoValue = NoValue
    BufferLimit <- TwoReads
    ReadRequestSize <- Names
    ElementSize <- WordAndString
    StringTag <- Second
    TextLength <- Texts
    FirstElements <- Single
    LastElements <- GrowFirst
INVARIANTS
    TypeOK KindKept NoLostUpdate SentAsCounted AllTagsTransferred NothingValidWhileDown ValidIsScanned
PROPERTIES
    OwedDataKept PromiseKept WriteGoesOn
CHECK_DEADLOCK FALSE
