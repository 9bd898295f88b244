SPECIFICATION FairSpec
CONSTANTS
  Ids = {i1, i2, i3}
  NTags = 2
  Sessions = {s1, s2}
  NoSession = none
  NoRequest = nothing
  ListParts = 2
  MaxLate = 1
  MaxCommands = 2
INVARIANTS
  TypeOK
  SessionKnown
  SizesAreOwn
  TagReadsBack
  PathNamesTag
  RequestsApart
  RepliesApart
  FrameHoldsRequest
  WriteStaysInside
PROPERTIES
  PromiseKept
  Resync
