SPECIFICATION RcmSpec
CONSTANTS
  Pools = {1}
  PoolSize = 2
  MaxJobs = 1
  MaxMessages = 4
INVARIANTS JobsInSequence
 
CHECK_DEADLOCK FALSE
