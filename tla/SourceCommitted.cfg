SPECIFICATION Spec
CONSTANTS
  Builders = {b1}
  Jobs <- MCJobs
  MaxMishaps = 0
INVARIANT
  CommittedFilesUnchanged
CHECK_DEADLOCK FALSE
