SPECIFICATION FairSpec
CONSTANTS
  Kinds = {"CR", "LF", "bom", "data", "id"}
  MaxTokens = 6
  MaxMark = 2
  MaxChunk = 5
  MaxConnects = 2
INVARIANTS
  TypeOK
  EventsAreTheServers
  ResumesAfterReceived
PROPERTY
  BreakIsAnswered
CHECK_DEADLOCK FALSE
