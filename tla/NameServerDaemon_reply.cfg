CONSTANTS
  Remotes = {1, 2}  MaxSockets = 2
  MaxGets = 2  MaxNsAttaches = 2  MaxRequests = 0
SPECIFICATION NsSpec
INVARIANTS
  ReplyIsOwn
CHECK_DEADLOCK FALSE
