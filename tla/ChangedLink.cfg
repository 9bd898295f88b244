\* One record, which moves between two tags of a PLC while the IOC runs.
SPECIFICATION FairSpec
CONSTANTS
    PLC <- OnePLC
    Tag = {"b", "c"}
    PlcOf <- NamesOnP
    Period <- TwoPeriods
    Record = {"in"}
    Output = {}
    IoIntr = {"in"}
    LinksFor <- OtherLinks
    Analysed <- AnalysedLinks
    LockSet <- Unlinked
    NoTag = NoTag
    Orphan = Orphan
    Shell = "shell"
    Stats = "stats"
    Free = "free"
    MaxFailures = 0
    ByteBits = 2
    MAX_STRING_SIZE = 5
PROPERTIES
    NoTagLeftOut
CHECK_DEADLOCK FALSE
