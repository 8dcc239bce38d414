SPECIFICATION FairSpec
CONSTANTS
  MaxContent = 3
  MaxBuffer = 2
  MaxRewinds = 2
INVARIANTS
  TypeOK
  OneCompletionEach
  BodyIsFaithful
PROPERTY
  ClosedUploadSettles
CHECK_DEADLOCK FALSE
