SPECIFICATION Spec
CONSTANTS
  Builders = {b1}
  Jobs <- MCJobs
  MaxMishaps = 1
INVARIANTS
  TypeOK
  InstalledIsComplete
  
  CleanRunSucceeds
CHECK_DEADLOCK FALSE
