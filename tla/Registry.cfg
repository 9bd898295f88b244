\* An output and an input record, linked, four links, one PLC, one failing allocation.
SPECIFICATION Spec
CONSTANTS
    PLC <- OnePLC
    Tag = {"a", "b"}
    PlcOf <- NamesOnP
    Period <- TwoPeriods
    Record = {"out", "in"}
    Output = {"out"}
    IoIntr = {"in"}
    LinksFor <- LinksOfRecords
    Analysed <- AnalysedLinks
    LockSet <- Linked
    NoTag = NoTag
    Orphan = Orphan
    Shell = "shell"
    Stats = "stats"
    Free = "free"
    MaxFailures = 1
    ByteBits = 2
    MAX_STRING_SIZE = 5
INVARIANTS
    TypeOK ServesAll CallsItsRecords OnlyLinksDeadlock
    BitsAreOwn ValueComesBack TextComesBack
PROPERTIES
    PassUndisturbed
CHECK_DEADLOCK FALSE
