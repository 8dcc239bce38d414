SPECIFICATION FairSpec
CONSTANTS
  Capacity = 2
  MaxMessages = 3
  MaxPosts = 2
INVARIANTS
  TypeOK
  DeletedSocketIsUnused
  EngineOutlivesOpenSocket
PROPERTY
  SocketSettles
CHECK_DEADLOCK FALSE
