SPECIFICATION FairSpec
CONSTANTS
  ChannelCapacity = 1
  MaxChunks = 3
  StoreBuffered = FALSE
INVARIANTS
  TypeOK
  StreamOutlivesItsUses
  ReadSideIsFaithful
PROPERTY
  StreamSettles
CHECK_DEADLOCK FALSE
