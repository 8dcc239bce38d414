SPECIFICATION FairSpec
CONSTANTS
  o1 = o1
  d1 = d1
  s1 = s1
  s2 = s2
  NoOp = NoOp
  NoCaller = NoCaller
  Ops = {o1}
  Directs = {d1}
  Callers = {s1, s2}
  FutureDrops = TRUE
  SpawnFails = TRUE
INVARIANTS
  TypeOK
  AccountsAreExact
  DestroyOnlyWhenUnused
  CancelReachesEveryRequest
  UndroppedShutdownIsHonest
  ListenerOutlivesCallbacks
PROPERTIES
  ImplementsContract
  ShutdownCompletes
CHECK_DEADLOCK FALSE
